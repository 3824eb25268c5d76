CONSTANTS
  r1 = r1
  r2 = r2
  o1 = o1
  NoRun = NoRun
  Runs <- TwoRuns
  Old <- OldRun
  MaxLoads = 2
  MaxWire = 2
SPECIFICATION Spec
INVARIANTS
  TypeOK
  ShownAsPersisted
  LinksSettle
  ScreenIsDatabase
  HistoryNotForgotten
SYMMETRY Swap
CHECK_DEADLOCK FALSE
