----------------------------- MODULE WatchdogStats -----------------------------
(***************************************************************************)
(* What the watchdog counts and logs (watchdog/stats.ts), as its tick, its  *)
(* recoveries and its control calls record it: counters since the start, and *)
(* the last entries of a log.  The count of errors is taken back when the log *)
(* holds none of the last half hour.                                          *)
(***************************************************************************)
EXTENDS SequencesExt

CONSTANTS
  MaxLog,    \* entries kept: 100
  ErrorAge,  \* age from which an error is stale: 30 minutes
  MaxErrors, \* bound on the errors, and on the recoveries
  MaxTicks   \* bound on the ticks that are under way together

LimitsAssumption == MaxLog \in Nat \ {0} /\ ErrorAge \in Nat \ {0} /\ MaxErrors \in Nat /\ MaxTicks \in Nat

VARIABLES
  events,       \* the log: [type, age]
  errors_total,
  recovered,    \* slow_recoveries_total
  paused,
  ticks,        \* the ticks that have recorded their poll and are not over
  lastError     \* history: the age of the last error, ErrorAge if older or none

vars == <<events, errors_total, recovered, paused, ticks, lastError>>

\* "observe" stands for "dismiss" and "drain" as well.
Types == {"poll", "observe", "slow_recover", "error", "control"}

Init ==
  /\ events = <<>> /\ errors_total = 0 /\ recovered = 0
  /\ paused = FALSE /\ ticks = 0
  /\ lastError = ErrorAge

push(log, type) ==
  LET all == Append(log, [type |-> type, age |-> 0])
  IN IF Len(all) > MaxLog THEN Tail(all) ELSE all

Recent == {i \in DOMAIN events : events[i].type = "error" /\ events[i].age < ErrorAge}

Decayed_Newest == IF events # <<>> /\ Last(events).type # "error" THEN 0 ELSE errors_total
Decayed == IF Recent = {} THEN 0 ELSE errors_total

\* tick: decayErrors and recordPoll come first; the paused return before them.
TickBegins ==
  /\ ~paused /\ ticks < MaxTicks
  /\ errors_total' = Decayed
  /\ events' = push(events, "poll")
  /\ ticks' = ticks + 1
  /\ UNCHANGED <<recovered, paused, lastError>>

Records(type) ==
  /\ ticks > 0
  /\ events' = push(events, type)
  /\ UNCHANGED <<errors_total, paused, ticks, lastError>>

\* recordObserve and recordDismiss, a recordDrain that sent, recordSlowRecover.
Observes == Records("observe") /\ UNCHANGED recovered
RecoversSlow == Records("slow_recover") /\ recovered < MaxErrors /\ recovered' = recovered + 1

TickEnds ==
  /\ ticks > 0 /\ ticks' = ticks - 1
  /\ UNCHANGED <<events, errors_total, recovered, paused, lastError>>

\* recordError, which ends the tick it was thrown in.
Fails ==
  /\ ticks > 0 /\ ticks' = ticks - 1
  /\ errors_total < MaxErrors /\ errors_total' = errors_total + 1
  /\ events' = push(events, "error")
  /\ lastError' = 0
  /\ UNCHANGED <<recovered, paused>>

\* POST /pause and /resume, at any time and more than once.
setPaused(p) ==
  /\ paused' = p
  /\ events' = push(events, "control")
  /\ UNCHANGED <<errors_total, recovered, ticks, lastError>>

Elapse ==
  /\ events' = [i \in DOMAIN events |-> [events[i] EXCEPT !.age = IF @ < ErrorAge THEN @ + 1 ELSE @]]
  /\ lastError' = IF lastError < ErrorAge THEN lastError + 1 ELSE ErrorAge
  /\ UNCHANGED <<errors_total, recovered, paused, ticks>>

Next ==
  \/ TickBegins \/ Observes \/ RecoversSlow \/ TickEnds \/ Fails
  \/ (\E p \in BOOLEAN : setPaused(p)) \/ Elapse

Spec == Init /\ [][Next]_vars

--------------------------------------------------------------------------------
TypeOK ==
  /\ events \in Seq([type : Types, age : 0..ErrorAge]) /\ Len(events) <= MaxLog
  /\ errors_total \in 0..MaxErrors /\ recovered \in 0..MaxErrors
  /\ paused \in BOOLEAN /\ ticks \in 0..MaxTicks
  /\ lastError \in 0..ErrorAge

\* No error of the last half hour that the log still shows is missing from the
\* count, though the count is taken back and the log cut by rules of their own.
RecentErrorsCounted == Cardinality(Recent) <= errors_total

\* "Drop stale error count" (stats.ts:105): an error younger than half an hour is
\* not dropped.  The log is cut at MaxLog, long before that; see README.
DropsStaleOnly == [][errors_total' < errors_total => lastError = ErrorAge]_vars
================================================================================
