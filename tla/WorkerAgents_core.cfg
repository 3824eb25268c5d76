CONSTANTS
  w1 = w1
  w2 = w2
  tool = tool
  timeout = timeout
  Workers <- TwoWorkers
  Cancellers <- TwoCallers
  MaxWorkersPerRun = 1
  Faulty <- OneFaulty
SPECIFICATION FairSpec
INVARIANTS
  TypeOK
  LimitHolds
  OneOutcomeWhileExecuting
  DoneIsTerminal
  RegistriesDrain
  ActiveHasExecution
PROPERTIES
  CancelEndsWorker
CHECK_DEADLOCK FALSE
