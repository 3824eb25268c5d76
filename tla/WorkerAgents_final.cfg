CONSTANTS
  w1 = w1
  w2 = w2
  tool = tool
  timeout = timeout
  Workers <- OneWorker
  Cancellers <- OneCaller
  MaxWorkersPerRun = 1
  Faulty <- NoneFaulty
SPECIFICATION Spec
PROPERTIES
  SucceededIsFinal
CHECK_DEADLOCK FALSE
