SPECIFICATION Spec
CONSTANTS
    anna = anna
    marek = marek
    nobody = nobody
    Nobody = nobody
    People <- MCPeople
    Debts <- MCDebts
    Entries <- MCEntries
    Settlements <- MCSettlements
    Patches <- MCRaises
    Refiled = {"other", "debt"}
    Ceiling = 3
    MaxRows = 4
INVARIANT LinkedRowsFit
VIEW View
CHECK_DEADLOCK FALSE
