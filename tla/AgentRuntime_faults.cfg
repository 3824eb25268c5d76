CONSTANTS
  r1 = r1
  r2 = r2
  r3 = r3
  w1 = w1
  NoRun = NoRun
  Runs <- TwoRuns
  Waiters <- NoRuns
  Cancellable <- OneRun
  Compensable <- OtherRun
  MaxRetries = 1
  MaxOverflowRetries = 1
  Faulty <- OtherRun
SPECIFICATION Spec
INVARIANTS
  TypeOK
  FinishedIsTerminal
PROPERTIES
  ImplementsRunService
  NoMessageAfterStop
CHECK_DEADLOCK FALSE
