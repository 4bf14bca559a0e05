CONSTANTS
  d1 = d1
  d2 = d2
  free = free
  Keys <- MixKeys
  Keyless = free
  NoKey = NoKey
  HistoryTail = 3
  LoopRepeat = 2
  TrackSteps <- NoTrack
  Composers = {c1, c2}
  Managed = {c1}
  Callers = {r1}
  Drainers = {timer, flush}
  All = All
  None = None
  Faults = {"ambiguous", "restart"}
  MaxRequests = 3
  MaxOutside = 0
  MaxFaults = 1
SYMMETRY Symmetry
SPECIFICATION Spec
INVARIANTS
  TypeOK
  OneCopy
  Conservation
  FifoPerComposer
PROPERTY ImplementsMailbox
CHECK_DEADLOCK FALSE
