CONSTANTS
  d1 = d1
  d2 = d2
  free = free
  Keys <- MixKeys
  Keyless = free
  NoKey = NoKey
  HistoryTail = 3
  LoopRepeat = 2
  TrackSteps <- NoTrack
  Composers = {c1}
  Managed = {c1}
  Callers = {r1, r2}
  Drainers = {timer, flush}
  All = All
  None = None
  Faults = {"ambiguous", "unsent", "restart"}
  MaxRequests = 3
  MaxOutside = 0
  MaxFaults = 1
SYMMETRY Symmetry
SPECIFICATION Spec
INVARIANTS
  NoBackToBack
CHECK_DEADLOCK FALSE
