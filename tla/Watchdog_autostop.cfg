SPECIFICATION FairSpec
CONSTANTS
  Windows <- OneWindow
  Ticks = {t1}
  SlowAge = 1
  ReconnectAge = 2
  BusyAge = 3
  FailAge = 3
  MaxAge = 3
  IdleAfter = 1
  EnsureEvery = 2
  SlowRecover = FALSE
  SharedQueue = FALSE
  None = None
  Events = {"enqueue"}
  MaxPrompts = 2
  MaxFaults = 1
CHECK_DEADLOCK FALSE
PROPERTY AutoStops
