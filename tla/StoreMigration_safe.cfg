SPECIFICATION Spec
CONSTANTS
  Builds <- MCBuilds
  Chain <- MCChain
  FirstFiles <- MCFirstFiles
  FirstCopies <- MCFirstCopies
  FailingChecks <- MCFailingChecks
  PreJournalStores <- MCPreJournalStores
  NoCopy = NoCopy
  MaxFaults = 3
INVARIANTS
  TypeOK
  NoStepRunsTwice
  ReadyIsComplete
  SuspectFileHasItsCopy
  NoIntentIsLost
