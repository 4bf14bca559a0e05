SPECIFICATION FairSpec
CONSTANTS
  Windows <- TwoWindows
  Ticks = {t1}
  SlowAge = 1
  ReconnectAge = 1
  BusyAge = 1
  FailAge = 1
  MaxAge = 1
  IdleAfter = 1
  EnsureEvery = 2
  SlowRecover = TRUE
  SharedQueue = FALSE
  None = None
  Events = {"skip", "gone", "throw", "loop"}
  MaxPrompts = 1
  MaxFaults = 1
CHECK_DEADLOCK FALSE
PROPERTIES  AwakeWhileBusy 
