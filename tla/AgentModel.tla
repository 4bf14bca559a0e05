------------------------------ MODULE AgentModel ------------------------------
(***************************************************************************)
(* What one process says of the agent of a chat (agent-model.ts), from the  *)
(* chat's row in Cursor's database and from a probe of its window, whose     *)
(* answer is kept for ProbeTtl.  The call reads the row, then gives way to   *)
(* the probe; two calls may probe at once, and the one that looked first     *)
(* may be the last to be answered.                                           *)
(***************************************************************************)
EXTENDS Naturals, FiniteSets

CONSTANTS
  None,
  Askers,      \* calls of forComposer that may be under way together
  Rows,        \* what the database may say of the chat
  ProbeTtl,    \* age from which a probe's answer is not used again: 400 ms
  MaxProbe     \* time limit of a probe, in the same unit

Statuses == {"none", "generating", "completed", "aborted", "other"}

\* generating stands for a generating bubble, a continuation or a queued item;
\* last for the last bubble's side; tool for a tool unfinished in the last six.
ChatRow == [generating : BOOLEAN, status : Statuses, last : {"none", "user", "agent"}, tool : BOOLEAN]

RowsAssumption == Rows \subseteq ChatRow /\ Rows # {}
LimitsAssumption == ProbeTtl \in Nat \ {0} /\ MaxProbe \in Nat \ {0}

VARIABLES
  working,     \* the agent works: its stop button shows
  up,          \* CDP can be reached
  row,         \* the chat's row
  idleAge,     \* time since the agent was last idle
  probed,      \* the probe kept for the chat, or None
  call,        \* for each asker what it holds while it awaits the probe, or None
  said         \* the answer a call has just given, or None

vars == <<working, up, row, idleAge, probed, call, said>>

Oldest == ProbeTtl + MaxProbe + 1
Older(n) == IF n < Oldest THEN n + 1 ELSE n

Probe == [ok : BOOLEAN, busy : BOOLEAN]
Failed == [ok |-> FALSE, busy |-> FALSE]

Init ==
  /\ working = FALSE /\ up = TRUE
  /\ row \in Rows
  /\ idleAge = 0
  /\ probed = None
  /\ call = [a \in Askers |-> None]
  /\ said = None

\* A bubble in progress is asked for only in states that are busy already.
isAgentBusy(r) ==
  \/ r.generating
  \/ r.status = "generating"
  \/ r.last = "user" /\ r.status \notin {"completed", "aborted", "none"}
  \/ r.last = "agent" /\ r.tool

\* The phase, from the row as it was before the probe and from the probe.
Phase(r, p) ==
  LET busy == isAgentBusy(r) \/ (p.ok /\ p.busy) IN
  IF busy THEN "busy"
  ELSE IF p.ok \/ r.status \in {"generating", "completed", "aborted"} THEN "idle"
  ELSE "unknown"

Answer(r, p) == [phase |-> Phase(r, p), ok |-> p.ok]

Usable(entry) == entry # None /\ entry.age < ProbeTtl

Keep(p) == [age |-> 0, probe |-> p]

\* A call that finds a recent probe is answered at once; others await theirs.
Ask(a) ==
  /\ call[a] = None
  /\ IF Usable(probed)
       THEN /\ said' = Answer(row, probed.probe)
            /\ UNCHANGED call
       ELSE /\ call' = [call EXCEPT ![a] = [row |-> row, seen |-> None, wait |-> 0]]
            /\ said' = None
  /\ UNCHANGED <<working, up, row, idleAge, probed>>

\* The window is looked at some time before the answer is back.
Look(a) ==
  /\ call[a] # None /\ call[a].seen = None
  /\ call' = [call EXCEPT ![a].seen = IF up THEN [ok |-> TRUE, busy |-> working] ELSE Failed]
  /\ said' = None
  /\ UNCHANGED <<working, up, row, idleAge, probed>>

\* The answer is kept with the time of its arrival.
Arrive(a, p) ==
  /\ probed' = Keep(p)
  /\ said' = Answer(call[a].row, p)
  /\ call' = [call EXCEPT ![a] = None]
  /\ UNCHANGED <<working, up, row, idleAge>>

Answered(a) == call[a] # None /\ call[a].seen # None /\ Arrive(a, call[a].seen)
Fails(a)    == call[a] # None /\ Arrive(a, Failed)

\* The agent, the window and the database, which trails behind.
World ==
  /\ said' = None
  /\ \/ /\ working' = ~working
        /\ idleAge' = IF working THEN 0 ELSE idleAge
        /\ UNCHANGED <<up, row>>
     \/ up' = ~up /\ UNCHANGED <<working, row, idleAge>>
     \/ \E r \in Rows \ {row} : row' = r /\ UNCHANGED <<working, up, idleAge>>
  /\ UNCHANGED <<probed, call>>

\* Time passes; a probe is answered, or gives up, within its limit.
Elapse ==
  /\ \A a \in Askers : call[a] # None => call[a].wait < MaxProbe
  /\ call' = [a \in Askers |-> IF call[a] = None THEN None ELSE [call[a] EXCEPT !.wait = @ + 1]]
  /\ probed' = IF probed = None THEN None ELSE [probed EXCEPT !.age = IF @ < ProbeTtl THEN @ + 1 ELSE @]
  /\ idleAge' = IF working THEN Older(idleAge) ELSE 0
  /\ said' = None
  /\ UNCHANGED <<working, up, row>>

Next ==
  \/ \E a \in Askers : Ask(a) \/ Look(a) \/ Answered(a) \/ Fails(a)
  \/ World \/ Elapse

Spec == Init /\ [][Next]_vars

-------------------------------------------------------------------------------
TypeOK ==
  /\ working \in BOOLEAN /\ up \in BOOLEAN /\ row \in Rows
  /\ idleAge \in 0..Oldest /\ (~working => idleAge = 0)
  /\ probed = None \/ probed \in [age : 0..ProbeTtl, probe : Probe]
  /\ \A a \in Askers :
       call[a] = None \/ call[a] \in [row : Rows, seen : Probe \cup {None}, wait : 0..MaxProbe]
  /\ said = None \/ said \in [phase : {"idle", "busy", "unknown"}, ok : BOOLEAN]

\* An agent that is called idle on a probe's word was idle within the time a
\* probe may take and its answer is kept: a late answer is stamped as new, but
\* none is kept for longer, however the calls overlap.
IdleWasSeen ==
  said # None /\ said.phase = "idle" /\ said.ok => idleAge < ProbeTtl + MaxProbe
===============================================================================
