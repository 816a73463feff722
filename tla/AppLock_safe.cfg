SPECIFICATION FairSpec
CONSTANTS
  Grace = 2
  MaxTime = 3
  MaxLocks = 2
INVARIANTS
  TypeOK
  ProofBeforeLedger
  AwayIsCovered
PROPERTIES
  LongStayRelocks
  StartSettles
