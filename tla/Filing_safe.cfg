SPECIFICATION Spec
CONSTANTS
    anna = anna
    marek = marek
    nobody = nobody
    Nobody = nobody
    People <- MCPeople
    Debts <- MCDebts
    Entries <- MCEntries
    Settlements <- MCSettlements
    Patches <- MCPatches
    Refiled = {"other", "debt"}
    Ceiling = 3
    MaxRows = 4
INVARIANTS
    TypeOK
    DebtsNameTheirPerson
    SettlementsFitTheirDebt
    HalvesAgree
VIEW View
CHECK_DEADLOCK FALSE
