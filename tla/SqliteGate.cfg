CONSTANTS
  t1 = t1
  t2 = t2
  s1 = s1
  NoCaller = NoCaller
  Callers <- AllCalls
  Transactions <- TwoBlocks
  MaxCalls = 2
  MaxTicks = 2
SPECIFICATION FairSpec
INVARIANTS
  TypeOK
  FifoSettles
  QuitLosesNothing
PROPERTIES
  MaintenanceOutsideTransactions
  ImplementsSerialStore
  EveryCallSettles
CHECK_DEADLOCK FALSE
