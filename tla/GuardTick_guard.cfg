CONSTANTS
  Keys <- AllKeys
  Keyless <- Free
  NoKey = "none"
  HistoryTail = 8
  GuardTail = 6
  RecoveryTail = 8
  LoopRepeat = 2
  TrackSteps <- Steps
  Recovery <- Recover1
  RoleKey <- RoleKeys
  PlanRefresh <- Refresh
  SelfKeys <- Self
  StepMatches <- Same
  AgentKeys <- Queues
  StuckTicks = 1
  Events = {"slip","hang","stop","person","self","queued","away","stuck"}
  MaxEvents = 1
  MaxCrashes = 1
  MaxTurns = 3
SPECIFICATION FairSpec
INVARIANTS TypeOK AuditedOnce 
PROPERTIES PlansPendingSteps  
CHECK_DEADLOCK FALSE
