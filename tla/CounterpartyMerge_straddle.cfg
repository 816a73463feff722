SPECIFICATION Spec
CONSTANTS
    anna = anna
    ania = ania
    marek = marek
    nobody = nobody
    Nobody = nobody
    People <- MCPeople
    Names = {"ANNA", "ANIA"}
    FirstPeople <- MCFirstPeople
    Captures <- MCCaptures
    Edits <- MCEdits
    Newcomers <- MCNewcomers
    Patches <- MCPatches
    Doubts <- MCDoubts
    Duplicates <- MCDuplicates
    Debts <- MCDebts
    Payments <- MCPayments
    Ceiling = 2
    MaxRows = 3
    MaxMerges = 2
INVARIANT
    UnmergeRestoresEachLink
CHECK_DEADLOCK FALSE
