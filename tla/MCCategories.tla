---------------------------- MODULE MCCategories ----------------------------
\* An instance of Categories for TLC: an expense group with a leaf in it, a debt
\* leaf beside it, and one category to create, of either kind.
EXTENDS Categories, TLC

CONSTANTS food, meals, lent, spare, n1, n2, t1

Row(parent, name, isLeaf) ==
    [parent |-> parent, name |-> name, kind |-> "expense", isLeaf |-> isLeaf,
     archived |-> FALSE]

MCCategories == {food, meals, lent, spare}
MCNames == {n1, n2}
MCFirst == (food :> Row(NoParent, n1, FALSE)) @@ (meals :> Row(food, n1, TRUE))
           @@ (lent :> Row(NoParent, n2, TRUE))
MCDebt == {lent}
MCTransactions == {t1}
MCNewcomers ==
    {[who |-> spare, name |-> n1, kind |-> "expense", parent |-> food],
     [who |-> spare, name |-> n2, kind |-> "income", parent |-> NoParent]}
MCRenames == [who : {meals}, name : {n1, n2}]
MCMoves == [who : {meals, spare}, parent : {food, lent, NoParent}]
=============================================================================
