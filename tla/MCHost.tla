--------------------------------- MODULE MCHost ---------------------------------
(***************************************************************************)
(* What the processes share through the home and the agent directory, for   *)
(* TLC: the loop's lock and pidfile, the database being migrated, the files *)
(* copied into it, the logs the supervisor and the guard go by, the socket   *)
(* and the pidfile of the watchdog and what it counts, the file of the        *)
(* agents' states, the sends of a billing cycle and the usage read off the     *)
(* settings page.  These parts have no variable in common, so a behaviour       *)
(* follows one of them, chosen at the start, and the others stand still: every   *)
(* state of each is visited, and none of their product.                          *)
(***************************************************************************)
EXTENDS Naturals

CONSTANTS None, Idle, Loops, Scripts, MaxKills, MaxRecycled,
          Processes, Versions, Plain, Statements, MaxCrashes, MaxOpens,
          Syncers, MaxEdits, MaxLines,
          Steps, TailLines, LastSent, StuckAt, FailAt, RepeatAt, Window, StaleAge,
          Daemons, Starters, MaxSignals,
          Agents, Refreshers, Watchdogs, Keys, LogMax, MaxWrites,
          Dates, SyncLimit, ListLimit, MaxChanges,
          MaxLog, ErrorAge, MaxErrors, MaxTicks,
          StartDays, CycleMaxSends, CycleDays, MaxEntries,
          GuardProcess, Tools, Readings, Days

VARIABLES
  part,
  loop, script, starts, lockFile, opened, held, orphans, pidFile, recycled, removed, buried,
  pc, at, step, objects, versions, crashes, opens, overlapped,
  file, torn, cache, watch, timer, excused, log, partial, reading, rows,
  cycle, reads, broken, logs, report, orch, next, blocked, due,
  daemon, socket, daemonFile, reused, starter, signals, unseen,
  stored, holds, cut, now,
  meetings, tornMeetings, meetingRows, dirWatch, dirTimer, missed, changed,
  events, errors_total, recovered, paused, ticks, lastError,
  startDay, month, dom, entries, pending, verdict,
  settings, section, shown, usage, today, table, probing, loaded, forced, taken, saved

\* Four months of a few days, of different lengths.
Calendar == <<3, 4, 2, 3>>

Lp == INSTANCE LoopSingleton
Mg == INSTANCE Migrate
Tf == INSTANCE TurnFiles
Sv == INSTANCE Supervisor WITH pc <- cycle
Wp == INSTANCE WatchdogProcess WITH pidFile <- daemonFile, recycled <- reused
As == INSTANCE AgentStates
Ms == INSTANCE Meetings WITH
        files <- meetings, torn <- tornMeetings, rows <- meetingRows, watch <- dirWatch, timer <- dirTimer
St == INSTANCE WatchdogStats
Cl == INSTANCE CycleLimit WITH MonthDays <- Calendar
Us == INSTANCE SettingsUsage WITH step <- probing

\* What the parts ask of their constants.
ASSUME PartsAssumption ==
  /\ Lp!LoopsAssumption
  /\ Mg!VersionsAssumption /\ Mg!StatementsAssumption
  /\ Wp!SignalsAssumption /\ Wp!DaemonsAssumption
  /\ Tf!BoundsAssumption
  /\ Sv!LimitsAssumption /\ Sv!NoneAssumption
  /\ As!LogAssumption /\ As!WritersAssumption /\ As!NoneAssumption
  /\ Ms!DatesAssumption /\ Ms!LimitsAssumption
  /\ St!LimitsAssumption
  /\ Cl!MonthsAssumption /\ Cl!StartAssumption /\ Cl!SendsAssumption
  /\ Us!ProbersAssumption /\ Us!DaysAssumption

loopVars    == <<loop, script, starts, lockFile, opened, held, orphans, pidFile, recycled, removed, buried>>
dbVars      == <<pc, at, step, objects, versions, crashes, opens, overlapped>>
fileVars    == <<file, torn, cache, watch, timer, excused, log, partial, reading, rows>>
logVars     == <<cycle, reads, broken, logs, report, orch, next, blocked, due>>
wdVars      == <<daemon, socket, daemonFile, reused, starter, signals, unseen>>
stateVars   == <<stored, holds, cut, now>>
meetingVars == <<meetings, tornMeetings, meetingRows, dirWatch, dirTimer, missed, changed>>
statVars    == <<events, errors_total, recovered, paused, ticks, lastError>>
cycleVars   == <<startDay, month, dom, entries, pending, verdict>>
usageVars   == <<settings, section, shown, usage, today, table, probing, loaded, forced, taken, saved>>
vars == <<part, loopVars, dbVars, fileVars, logVars, wdVars,
          stateVars, meetingVars, statVars, cycleVars, usageVars>>

Init ==
  /\ part \in {"loop", "migrate", "files", "supervisor", "watchdog", "states", "meetings", "stats", "cycle", "usage"}
  /\ Lp!Init /\ Mg!Init /\ Tf!Init /\ Sv!Init /\ Wp!Init /\ As!Init /\ Ms!Init /\ St!Init /\ Cl!Init
  /\ Us!Init
  /\ part # "files" => file = 0
  /\ part # "supervisor" => reads = "guard" /\ ~broken /\ report = None /\ next = 1
  /\ part # "cycle" => startDay = 1
  /\ part # "usage" => settings = "closed"

Next ==
  /\ UNCHANGED part
  /\ \/ part = "loop" /\ Lp!Next
        /\ UNCHANGED <<dbVars, fileVars, logVars, wdVars, stateVars, meetingVars, statVars, cycleVars, usageVars>>
     \/ part = "migrate" /\ Mg!Next
        /\ UNCHANGED <<loopVars, fileVars, logVars, wdVars, stateVars, meetingVars, statVars, cycleVars, usageVars>>
     \/ part = "files" /\ Tf!Next
        /\ UNCHANGED <<loopVars, dbVars, logVars, wdVars, stateVars, meetingVars, statVars, cycleVars, usageVars>>
     \/ part = "supervisor" /\ Sv!Next
        /\ UNCHANGED <<loopVars, dbVars, fileVars, wdVars, stateVars, meetingVars, statVars, cycleVars, usageVars>>
     \/ part = "watchdog" /\ Wp!Next
        /\ UNCHANGED <<loopVars, dbVars, fileVars, logVars, stateVars, meetingVars, statVars, cycleVars, usageVars>>
     \/ part = "states" /\ As!Next
        /\ UNCHANGED <<loopVars, dbVars, fileVars, logVars, wdVars, meetingVars, statVars, cycleVars, usageVars>>
     \/ part = "meetings" /\ Ms!Next
        /\ UNCHANGED <<loopVars, dbVars, fileVars, logVars, wdVars, stateVars, statVars, cycleVars, usageVars>>
     \/ part = "stats" /\ St!Next
        /\ UNCHANGED <<loopVars, dbVars, fileVars, logVars, wdVars, stateVars, meetingVars, cycleVars, usageVars>>
     \/ part = "cycle" /\ Cl!Next
        /\ UNCHANGED <<loopVars, dbVars, fileVars, logVars, wdVars, stateVars, meetingVars, statVars, usageVars>>
     \/ part = "usage" /\ Us!Next
        /\ UNCHANGED <<loopVars, dbVars, fileVars, logVars, wdVars, stateVars, meetingVars, statVars, cycleVars>>

Spec == Init /\ [][Next]_vars

\* Only the supervisor's part is asked to go on; see Supervisor.
OthersStand == UNCHANGED <<part, loopVars, dbVars, fileVars, wdVars, stateVars, meetingVars, statVars, cycleVars, usageVars>>
FairSpec ==
  /\ Spec
  /\ WF_vars(part = "supervisor" /\ Sv!Cycle /\ OthersStand)
  /\ SF_vars(part = "supervisor" /\ Sv!Reached /\ OthersStand)

-----------------------------------------------------------------------------
\* The types of the ten modules, with the coherence each adds to them, where they move.
TypeOK ==
  /\ part = "loop"       => Lp!TypeOK
  /\ part = "migrate"    => Mg!TypeOK
  /\ part = "files"      => Tf!TypeOK
  /\ part = "supervisor" => Sv!TypeOK
  /\ part = "watchdog"   => Wp!TypeOK
  /\ part = "states"     => As!TypeOK
  /\ part = "meetings"   => Ms!TypeOK
  /\ part = "stats"      => St!TypeOK
  /\ part = "cycle"      => Cl!TypeOK
  /\ part = "usage"      => Us!TypeOK

\* "Singleton: refuse second instance" (scripts/loop.sh:13).
OneLoop == Lp!OneLoop

\* One loop, as long as no script removes the files of a living one; and a script's
\* loop is not kept out by what a killed loop left behind.
LoopIsSingle == []Lp!OneLoopUnlessRemoved /\ Lp!RefusedByTheLiving

\* Whoever got the database has all its tables, and who did not was told for a cause.
OpensWhole == Mg!OpensWhole

\* The turns in the database are those of SESSION.md, and the meetings listed those
\* of their directory, but for the named cases.
CopiesFresh == Tf!FreshUnlessExcused /\ Ms!ListsDirectory

\* The rows of the turn log are its lines, once and in order, and none is left out.
LogMirrored == Tf!LogMirrored

\* A watchdog that serves can be reached by the scripts that stop and start it.
Reachable == Wp!Reachable

\* What is recorded is true of what happened: an agent's phase and its beginning
\* follow the log of changes, every recent error is counted, the sends of a cycle are
\* those since it began, a reading of the usage is of the time it was asked for.
RecordsTrue == As!StateFollowsLog /\ St!RecentErrorsCounted /\ Cl!CountsCycle /\ Us!ReadingsFresh

\* "Drop stale error count" (src/watchdog/stats.ts:105).
DropsStaleOnly == St!DropsStaleOnly

\* With a supervisor that reads the guard's log, no sends past a due alert.
StopsWhenStuckIfRead == Sv!StopsWhenStuckIfRead

\* The same of the default environment, as docs/agent/CONTINUITY.md:31 has it.
StopsWhenStuck == Sv!StopsWhenStuck

\* The supervisor's brake wears off.
Unblocks == Sv!Unblocks
=================================================================================
