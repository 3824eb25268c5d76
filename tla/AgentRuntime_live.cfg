CONSTANTS
  r1 = r1
  r2 = r2
  r3 = r3
  w1 = w1
  NoRun = NoRun
  Runs <- TwoRuns
  Waiters <- OneWaiter
  Cancellable <- OneRun
  Compensable <- NoRuns
  MaxRetries = 1
  MaxOverflowRetries = 1
  Faulty <- NoRuns
SPECIFICATION FairSpec
PROPERTIES
  StopEndsRun
  EnqueueReturns
  WaitersProgress
CHECK_DEADLOCK FALSE
