CONSTANTS
  MaxStarts = 2
  MaxFailures = 1
SPECIFICATION FairSpec
INVARIANTS
  TypeOK
  PortReleased
  PanelFollowsLatest
  SaveAllOrNothing
PROPERTIES
  FlowsReaped
  PanelSettles
CHECK_DEADLOCK FALSE
