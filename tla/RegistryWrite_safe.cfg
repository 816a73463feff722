SPECIFICATION FairSpec
CONSTANTS
  Calls = {c1, c2, c3}
  Requests <- MCRequests
  Entries <- MCEntries
  NoEntry = NoEntry
  Payloads <- MCPayloads
  Names <- MCNames
  Fold <- MCFold
  NoCall = NoCall
  MaxFaults = 2
INVARIANTS
  TypeOK
  OneEffectPerEntry
  TablesAgree
  AnswersAreTrue
  LaterRetryReplays
PROPERTIES
  CallsEnd
