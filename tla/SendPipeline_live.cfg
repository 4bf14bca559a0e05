CONSTANTS
  d1 = d1
  d2 = d2
  free = free
  Keys <- FreeText
  Keyless = free
  NoKey = NoKey
  HistoryTail = 3
  LoopRepeat = 2
  TrackSteps <- NoTrack
  Composers = {c1, c2}
  Managed = {c1, c2}
  Callers = {r1}
  Drainers = {timer}
  All = All
  None = None
  Faults = {"ambiguous"}
  MaxRequests = 2
  MaxOutside = 1
  MaxFaults = 1
SPECIFICATION FairSpec
PROPERTIES
  DrainEnds
  AcknowledgedUnlessBlocked
CHECK_DEADLOCK FALSE
