CONSTANTS
  d1 = d1
  d2 = d2
  free = free
  Keys <- MixKeys
  Keyless = free
  NoKey = NoKey
  HistoryTail = 3
  LoopRepeat = 2
  TrackSteps <- NoTrack
  Composers = {c1}
  Managed = {c1}
  Callers = {r1}
  Drainers = {timer, flush}
  All = All
  None = None
  Faults = {}
  MaxRequests = 1
  MaxOutside = 1
  MaxFaults = 0
SPECIFICATION FairSpec
PROPERTY DrainSendsLater
CHECK_DEADLOCK FALSE
