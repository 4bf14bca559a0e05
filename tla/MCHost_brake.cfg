CONSTANTS
  None = None
  Idle = Idle
  Loops = {l1, l2}
  Scripts = {s1, s2}
  MaxKills = 1
  MaxRecycled = 1
  Processes = {p1, p2}
  Versions = {1, 2, 3}
  Plain = {1, 3}
  Statements = 2
  MaxCrashes = 1
  MaxOpens = 3
  Syncers = {guard, report}
  MaxEdits = 4
  MaxLines = 3
  Steps = {1, 2}
  TailLines = 4
  LastSent = 3
  StuckAt = 2
  FailAt = 2
  RepeatAt = 2
  Window = 3
  StaleAge = 2
  Daemons = {d1, d2, d3}
  Starters = {s1, s2, s3}
  MaxSignals = 1
  Agents = {mlc, loop}
  Refreshers = {guard}
  Watchdogs = {watchdog}
  Keys = {k1, k2}
  LogMax = 2
  MaxWrites = 3
  Dates = {1, 2, 3}
  SyncLimit = 2
  ListLimit = 1
  MaxChanges = 6
  MaxLog = 3
  ErrorAge = 2
  MaxErrors = 2
  MaxTicks = 2
  StartDays = {1, 2, 3}
  CycleMaxSends = 2
  CycleDays = 3
  MaxEntries = 3
  GuardProcess = guard
  Tools = {mcp}
  Readings = {1}
  Days = 2
SPECIFICATION Spec
CHECK_DEADLOCK FALSE
PROPERTY StopsWhenStuck
