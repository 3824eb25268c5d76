CONSTANTS
  N = 3
  MaxChunks = 3
  ChannelMayFail = TRUE
  PersistenceMayFail = TRUE
SPECIFICATION FairSpec
INVARIANTS
  TypeOK
  StopOnErrorHolds
  ResultsSettle
  SucceededIsComplete
PROPERTIES
  ExecutionEnds
CHECK_DEADLOCK FALSE
