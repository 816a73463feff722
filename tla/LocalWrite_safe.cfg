SPECIFICATION Spec
CONSTANTS
  EntryIds = {e1, e2, e3}
  NoEntry = NoEntry
  Operations <- MCOperations
  EditOps <- MCEditOps
  PricedOps <- MCPricedOps
  RateOps <- MCRateOps
  Builds <- TwoBuilds
  Registry <- UpgradeRegistry
  Upcasts <- RepaymentUpcast
  Faults = {}
  CrashPhases <- NotWhileClearing
INVARIANTS
  TypeOK
  NoSilentLoss
  DependencyRefusalIsFinal
PROPERTIES
  IntentsAreKept
  DeferredResolves
