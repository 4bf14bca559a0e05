CONSTANTS
  Composers = {c1, c2}
  None = None
  Ids = {1, 2}
  MaxTurns = 1
  MaxFaults = 1
  Askers = {a1, a2}
  ProbeTtl = 2
  MaxProbe = 1
  ListedChats = {l1}
  MsgTtl = 2
  MaxMessages = 2
  Tokens = {t1}
  MaxEvents = 2
  Timeout = 2
  FallbackMost = 1
  MaxChanges = 1
SYMMETRY Symmetry
SPECIFICATION ServerSpec
INVARIANTS
  ServerTypeOK
  OneFeed
  CaughtUp
  TokenGoesHome
PROPERTIES
  ReadsHold
  VerdictIsTrue
CHECK_DEADLOCK FALSE
