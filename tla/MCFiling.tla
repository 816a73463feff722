------------------------------ MODULE MCFiling ------------------------------
(***************************************************************************)
(* Two people, who owe 2 or 1 from before.  The payments forgive a part:   *)
(* one may cross the end of that debt and is written as two rows, the      *)
(* other is of a single unit and cannot be.  The patches move a row to the *)
(* other person, and out of its debt category with and without a word on   *)
(* the obligation.                                                         *)
(***************************************************************************)
EXTENDS Filing

CONSTANTS anna, marek, nobody

MCPeople == {anna, marek}
MCDebts ==
    {[who |-> anna, amount |-> 2], [who |-> anna, amount |-> 1],
     [who |-> marek, amount |-> 1]}

MCEntries ==
    {[category |-> "debt", obligation |-> anna, type |-> "income", own |-> 2]}

MCSettlements ==
    {[category |-> "repayment", obligation |-> anna, own |-> 2, discharge |-> 3],
     [category |-> "repayment", obligation |-> anna, own |-> 1, discharge |-> 2]}

MCPatches ==
    {[category |-> "other"], [category |-> "other", obligation |-> anna, own |-> 2],
     [obligation |-> marek]}

\* An amount raised past the debt.
MCRaises == {[category |-> "other", obligation |-> anna, own |-> 3]}

\* No operation reads a deleted row, nor asks of it more than that its number is
\* taken, so states that differ only there are one.
View ==
    <<NextId, [d \in Live(openingDebts) |-> openingDebts[d]],
      [t \in LiveRows |-> transactions[t]], parted \cap {transactions[t].pair : t \in LiveRows}>>
=============================================================================
