------------------------------- MODULE Supervisor -------------------------------
(***************************************************************************)
(* The supervisor's brake on the guard (src/supervisor/analyze.ts,           *)
(* scripts/supervisor.ts, scripts/guard.ts).  In each cycle of the loop the *)
(* supervisor reads the tail of a log and the prompt history and writes a    *)
(* report; the guard, which writes the log, does not send while a report     *)
(* that is not stale holds a blocking alert.  Blocked ticks write lines too,  *)
(* so most alerts wear off.  The supervisor's log is CR_OVERNIGHT_LOG or     *)
(* cr-overnight.log, the guard's is CR_LOG or cursor-agent-loop.log.         *)
(***************************************************************************)
EXTENDS SequencesExt, TLC

CONSTANTS
  Steps,      \* steps of the TRACK
  TailLines,  \* lines of a log that are read
  LastSent,   \* how many sent lines are compared
  StuckAt,    \*   and how many there must be
  FailAt,     \* unexpected failures in the window
  RepeatAt,   \* repetitions of the same enqueue
  Window,     \* cycles a failure counts
  StaleAge,   \* age in cycles from which a report is not used
  None

LimitsAssumption ==
  TailLines \in Nat \ {0} /\ RepeatAt \in Nat /\ Window \in Nat /\ StaleAge \in Nat \ {0}

\* A report, with the critical alerts of one composer.
Reports == [age : 0..StaleAge, alerts : SUBSET {"step_stuck", "send_fail_loop", "enqueue_loop", "no_window"}]
NoneAssumption == None \notin Reports

VARIABLES
  pc,      \* what the loop runs next: "supervisor", "guard" or "sleep"
  reads,   \* the log the supervisor reads, by its environment
  broken,  \* the supervisor script cannot be run
  logs,    \* the lines of each log, not more than the tail
  report,  \* cr-supervisor.json: age and critical alerts, or None
  orch,    \* this composer's entry of cr-orch-state.json
  next,    \* the step pickNextAgentStep names
  blocked, \* the codes that blocked the last tick
  due      \* history: what the guard's log called for when the supervisor had its turn

vars == <<pc, reads, broken, logs, report, orch, next, blocked, due>>

Logs == {"guard", "overnight"}
\* Every line that only a warning counts, or nothing, is "other".
Line(msg, step) == [msg |-> msg, step |-> step, age |-> 0]

Init ==
  /\ pc = "supervisor"
  /\ reads \in Logs /\ broken \in BOOLEAN
  /\ logs = [f \in Logs |-> <<>>]
  \* A report may be left of an earlier loop.
  /\ report \in {None} \cup [age : {0}, alerts : {{"step_stuck"}, {"enqueue_loop"}}]
  /\ orch = [key |-> None, repeat |-> 0]
  /\ next \in Steps
  /\ blocked = {} /\ due = {}

-----------------------------------------------------------------------------
(* analyzeSupervisor: the critical alerts.  The warnings block nothing. *)

LastOf(seq, n) == SubSeq(seq, IF Len(seq) > n THEN Len(seq) - n + 1 ELSE 1, Len(seq))

Sent(log) == LastOf(SelectSeq(log, LAMBDA l : l.msg = "sent"), LastSent)
Recent(log, msg) == SelectSeq(log, LAMBDA l : l.msg = msg /\ l.age < Window)

EnqueueLoop == orch.repeat >= RepeatAt /\ orch.key = next
StepStuck(log) ==
  /\ Len(Sent(log)) >= StuckAt
  /\ \A l \in ToSet(Sent(log)) : l.step = Sent(log)[1].step
SendFailLoop(log) == Len(Recent(log, "send failed")) >= FailAt
NoWindow(log) == Len(Recent(log, "no window open")) >= FailAt

analyze(log) ==
  {c \in {"enqueue_loop"} : EnqueueLoop} \cup {c \in {"step_stuck"} : StepStuck(log)}
    \cup {c \in {"send_fail_loop"} : SendFailLoop(log)} \cup {c \in {"no_window"} : NoWindow(log)}

\* guardBlockedAlerts; of a tick that comes that far the window is open, so
\* no_window is left out again.
BlockCodes_NoFail == {"step_stuck", "enqueue_loop"}
BlockCodes == {"step_stuck", "send_fail_loop", "enqueue_loop"}
Blocking(alerts) == alerts \cap BlockCodes

\* What is appended to a log, as far as readLogLines will return it.
Logged_Whole(f, lines) == [logs EXCEPT ![f] = @ \o lines]
Logged(f, lines) == [logs EXCEPT ![f] = LastOf(@ \o lines, TailLines)]

-----------------------------------------------------------------------------
\* scripts/supervisor.ts: the report, and a line in its log for each alert;
\* loop.sh writes one in the guard's log when an alert was critical.
Supervise ==
  /\ pc = "supervisor"
  /\ pc' = "guard"
  /\ IF broken THEN UNCHANGED <<report, logs>>
     ELSE \E alerts \in {analyze(logs[reads])} :
            /\ report' = [age |-> 0, alerts |-> alerts]
            /\ logs' = [f \in Logs |->
                 LastOf(logs[f] \o [i \in 1..((IF f = reads THEN Cardinality(alerts) ELSE 0)
                                              + IF f = "guard" /\ alerts # {} THEN 1 ELSE 0)
                                     |-> Line("other", None)], TailLines)]
  /\ due' = analyze(logs["guard"]) \cap {"step_stuck", "send_fail_loop"}
  /\ UNCHANGED <<reads, broken, orch, next, blocked>>

\* A report that is too old is replaced by an analysis of the guard's own log.
Usable_Always(age) == TRUE
Usable(age) == age < StaleAge

Alerts ==
  IF report # None /\ Usable(report.age) THEN report.alerts ELSE analyze(logs["guard"])

\* The guard does not come to the supervisor's report: busy, cooling down, or
\* no window, which it logs.
Passes ==
  /\ pc = "guard" /\ pc' = "sleep"
  /\ \E msg \in {"other", "no window open"} : logs' = Logged("guard", <<Line(msg, None)>>)
  /\ due' = {}
  /\ UNCHANGED <<reads, broken, report, orch, next, blocked>>

Blocks ==
  /\ pc = "guard" /\ pc' = "sleep"
  /\ Blocking(Alerts) # {}
  /\ blocked' = Blocking(Alerts) /\ due' = {}
  /\ logs' = Logged("guard", <<Line("other", None)>>)
  /\ UNCHANGED <<reads, broken, report, orch, next>>

\* The tick goes on to plan and send: nothing to do, refused, failed, or sent,
\* which the prompt history records.
Goes(msg) ==
  /\ pc = "guard" /\ pc' = "sleep"
  /\ Blocking(Alerts) = {}
  /\ blocked' = {} /\ due' = {}
  /\ logs' = Logged("guard", <<Line(msg, IF msg = "sent" THEN next ELSE None)>>)
  /\ orch' = IF msg # "sent" THEN orch
             ELSE [key |-> next,
                   repeat |-> IF orch.key # next THEN 0
                              ELSE IF orch.repeat < RepeatAt THEN orch.repeat + 1 ELSE RepeatAt]
  /\ UNCHANGED <<reads, broken, report, next>>

Guard == Passes \/ Blocks \/ \E msg \in {"other", "send failed", "sent"} : Goes(msg)

\* The lines whose time countRecent looks at.
Timed == {"send failed", "no window open"}
Older(n, bound) == IF n < bound THEN n + 1 ELSE bound

\* sleep "$INTERVAL".
Sleep ==
  /\ pc = "sleep" /\ pc' = "supervisor"
  /\ report' = IF report = None THEN None ELSE [report EXCEPT !.age = Older(@, StaleAge)]
  /\ logs' = [f \in Logs |->
       [i \in DOMAIN logs[f] |->
         [logs[f][i] EXCEPT !.age = IF logs[f][i].msg \in Timed THEN Older(@, Window) ELSE @]]]
  /\ UNCHANGED <<reads, broken, orch, next, blocked, due>>

\* The agent or a person marks a step done.
TrackMoves ==
  /\ next' \in Steps \ {next}
  /\ UNCHANGED <<pc, reads, broken, logs, report, orch, blocked, due>>

\* Another process checks or enqueues a prompt: an answered prompt is no
\* repetition, and another key starts its own count.
OtherEnqueue ==
  /\ orch' \in {[orch EXCEPT !.repeat = 0], [key |-> None, repeat |-> 0]}
  /\ orch' # orch
  /\ UNCHANGED <<pc, reads, broken, logs, report, next, blocked, due>>

Cycle == Supervise \/ Guard \/ Sleep
Next == Cycle \/ TrackMoves \/ OtherEnqueue

Spec == Init /\ [][Next]_vars

\* The loop goes on, and a tick does come to the report now and then.
Reached == Blocks \/ Goes("other")
FairSpec == Spec /\ WF_vars(Cycle) /\ SF_vars(Reached)

-----------------------------------------------------------------------------
\* Types, and that no log is longer than what is read of it.
TypeOK ==
  /\ pc \in {"supervisor", "guard", "sleep"} /\ reads \in Logs /\ broken \in BOOLEAN
  /\ \A f \in Logs : Len(logs[f]) <= TailLines
  /\ report \in {None} \cup Reports
  /\ orch.key \in Steps \cup {None} /\ orch.repeat \in 0..RepeatAt
  /\ next \in Steps /\ blocked \subseteq {"step_stuck", "send_fail_loop", "enqueue_loop"}
  /\ due \subseteq {"step_stuck", "send_fail_loop"}

Sends == pc = "guard" /\ pc' = "sleep" /\ Last(logs'["guard"]).msg = "sent"

\* "Guard blocks on: step_stuck, send_fail_loop, ..." (docs/agent/CONTINUITY.md:31):
\* with the supervisor run in every cycle, it does not send with such an alert
\* due on what it had logged when the supervisor had its turn.
StopsWhenStuck == [][Sends /\ ~broken => due = {}]_vars

\* It does so where the environment makes the supervisor read the guard's log.
StopsWhenStuckIfRead == [][Sends /\ reads = "guard" /\ ~broken => due = {}]_vars

\* The brake wears off: a guard is not blocked for ever by what has been resolved,
\* by a report of an earlier loop, or by its own blocked ticks, but by an enqueue
\* loop that comes back for ever.
Unblocks == []<>(blocked = {}) \/ []<>EnqueueLoop
=================================================================================
