CONSTANTS
  r1 = r1
  r2 = r2
  r3 = r3
  w1 = w1
  NoRun = NoRun
  Runs <- ThreeRuns
  Waiters <- NoRuns
  Cancellable <- OneRun
  Compensable <- OneRun
  MaxRetries = 0
  MaxOverflowRetries = 0
  Faulty <- NoRuns
SYMMETRY Unstopped
SPECIFICATION Spec
INVARIANTS
  OneActiveRun
  FifoStart
  StoppedNeverSucceeds
  QueuedHasOwner
CHECK_DEADLOCK FALSE
