SPECIFICATION Spec
CONSTANTS
  Windows <- OneWindow
  Ticks = {t1}
  SlowAge = 1
  ReconnectAge = 2
  BusyAge = 2
  FailAge = 2
  MaxAge = 2
  IdleAfter = 1
  EnsureEvery = 2
  SlowRecover = TRUE
  SharedQueue = TRUE
  None = None
  Events = {"slow", "reconnecting", "skip", "plain", "type", "enqueue", "loop", "pause", "stop", "gone", "throw", "lost"}
  MaxPrompts = 1
  MaxFaults = 1
CHECK_DEADLOCK FALSE
INVARIANT TypeOK
 
