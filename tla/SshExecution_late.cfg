CONSTANTS
  N = 1
  MaxChunks = 3
  ChannelMayFail = FALSE
  PersistenceMayFail = FALSE
SPECIFICATION Spec
PROPERTIES
  TimedOutStaysFailed
CHECK_DEADLOCK FALSE
