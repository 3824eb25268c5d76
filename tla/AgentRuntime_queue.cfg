CONSTANTS
  r1 = r1
  r2 = r2
  r3 = r3
  w1 = w1
  NoRun = NoRun
  Runs <- TwoRuns
  Waiters <- NoRuns
  Cancellable <- NoRuns
  Compensable <- NoRuns
  MaxRetries = 0
  MaxOverflowRetries = 0
  Faulty <- NoRuns
SPECIFICATION Spec
INVARIANTS
  QueuedStaysQueued
CHECK_DEADLOCK FALSE
