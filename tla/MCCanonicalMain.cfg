SPECIFICATION FairSpec
CONSTANTS
  Revisions <- MCRevisions
  RunRevision = 2
  ResponseLengths <- MCResponseLengths
  MaxResponseBytes = 2
  RequestTimeout = 2
  MaxTime = 3
INVARIANTS
  TypeOK
  WholeAnswer
  NothingLeftBehind
  OutputsOnlyWhileCurrent
  RefusalIsTrue
PROPERTIES
  FirstSettlementWins
  LookupSettles
CHECK_DEADLOCK FALSE
