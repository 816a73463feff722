SPECIFICATION Spec
CONSTANTS
  EntryIds = {e1, e2, e3}
  NoEntry = NoEntry
  Operations <- MCOperations
  EditOps <- MCEditOps
  PricedOps <- MCPricedOps
  RateOps <- MCRateOps
  Builds <- OneBuild
  Registry <- OneBuildRegistry
  Upcasts <- NoUpcasts
  Faults = {"apply"}
  CrashPhases <- NotWhileClearing
SYMMETRY Symmetry
INVARIANTS
  NoSilentLoss
