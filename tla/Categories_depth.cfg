SPECIFICATION Spec
CONSTANTS
    food = food  meals = meals  lent = lent  spare = spare
    n1 = n1  n2 = n2  t1 = t1
    NoParent = NoParent
    NoCategory = NoCategory
    Categories <- MCCategories
    Names <- MCNames
    FirstCategories <- MCFirst
    DebtCategories <- MCDebt
    Transactions <- MCTransactions
    Newcomers <- MCNewcomers
    Renames <- MCRenames
    Moves <- MCMoves
INVARIANTS
    GroupsSitAtTheRoot
