------------------------------ MODULE AgentStates ------------------------------
(***************************************************************************)
(* cr-agent-state.json (cursor/agent-state.ts): what phase each agent is in, *)
(* since when, and a log of the changes.  The guard, the server, the MCP      *)
(* processes and the watchdog each read the whole file, change it and write  *)
(* it back, in one go of their own but without a lock; a write truncates the  *)
(* file first, and who reads it then starts from an empty one.                *)
(***************************************************************************)
EXTENDS SequencesExt

CONSTANTS
  None,
  Agents,    \* the targets
  Refreshers, \* processes that call syncAgentState: guard, server, MCP
  Watchdogs, \* processes that call noteAgentRecover
  Keys,      \* the prompts an agent may be at
  LogMax,    \* entries of the log that are kept: 200
  MaxWrites  \* bound: writes of the file

Writers == Refreshers \cup Watchdogs

LogAssumption == LogMax \in Nat \ {0} /\ MaxWrites \in Nat
WritersAssumption == Refreshers \cap Watchdogs = {}

\* What the file has of an agent.
Entry == [phase : {"idle", "running", "turn_pending"}, key : Keys \cup {None}, issue : BOOLEAN, since : 0..MaxWrites]
NoneAssumption == None \notin Entry

VARIABLES
  stored,  \* the file's document, or None while it is truncated
  holds,   \* for each process the document it has made of the one it read, or None
  cut,     \* the processes that have truncated the file and not yet written
  now      \* writes begun so far, as the time

vars == <<stored, holds, cut, now>>

\* What is seen of an agent: its phase, with two that stand for the rest; the prompt
\* it is at, none when no prompt of the loop is in the chat; whether the issue is
\* noted that comes and goes within a phase ("user prompt not answered").
Observed ==
  [phase : {"idle"}, key : {None}, issue : BOOLEAN]
  \cup [phase : {"running"}, key : Keys \cup {None}, issue : {FALSE}]
  \cup [phase : {"turn_pending"}, key : Keys, issue : BOOLEAN]

EmptyFile == [agents |-> [t \in Agents |-> None], log |-> <<>>]

Init ==
  /\ stored = EmptyFile
  /\ holds = [p \in Writers |-> None]
  /\ cut = {}
  /\ now = 0

\* loadFile: a file that cannot be parsed is an empty one.
loadFile == IF stored = None THEN EmptyFile ELSE stored

LastOf(s, n) == SubSeq(s, IF Len(s) > n THEN Len(s) - n + 1 ELSE 1, Len(s))

\* The entry takes its place, and a change its line in the log.
Logged(doc, t, entry, recovered) ==
  LET prev == doc.agents[t]
      row  == [target |-> t, from |-> IF prev = None THEN None ELSE prev.phase, to |-> entry.phase,
               key |-> entry.key, at |-> now, recovered |-> recovered]
  IN [agents |-> [doc.agents EXCEPT ![t] = entry], log |-> LastOf(Append(doc.log, row), LogMax)]

\* Without a prompt undefined is compared with null: the time starts anew with every look.
Since_ByPhase(prev, seen) == IF prev # None /\ prev.phase = seen.phase THEN prev.since ELSE now
Since(prev, seen) ==
  IF prev # None /\ prev.phase = seen.phase /\ prev.key = seen.key /\ seen.key # None
    THEN prev.since ELSE now

syncAgentState(doc, t, seen) ==
  LET prev  == doc.agents[t]
      entry == [phase |-> seen.phase, key |-> seen.key, issue |-> seen.issue, since |-> Since(prev, seen)]
      same  == prev # None /\ prev.phase = seen.phase /\ prev.key = seen.key /\ prev.issue = seen.issue
  IN IF same THEN [doc EXCEPT !.agents[t] = entry] ELSE Logged(doc, t, entry, FALSE)

\* The watchdog stopped the agent or submitted again.
noteAgentRecover(doc, t) ==
  Logged(doc, t, [phase |-> "running", key |-> doc.agents[t].key, issue |-> FALSE, since |-> now], TRUE)

Makes(p, doc) ==
  /\ holds[p] = None
  /\ now < MaxWrites
  /\ holds' = [holds EXCEPT ![p] = doc]
  /\ now' = now + 1
  /\ UNCHANGED <<stored, cut>>

\* refreshAgentStates calls this for one target after the other.
Sync(p, t) == \E seen \in Observed : Makes(p, syncAgentState(loadFile, t, seen))

\* An agent that is not in the file is left alone.
Recover(p, t) ==
  /\ loadFile.agents[t] # None
  /\ Makes(p, noteAgentRecover(loadFile, t))

\* saveFile, in two system calls.  Of two documents written over each other the
\* longer one sticks out, and what is left may not be one.
Truncate(p) ==
  /\ holds[p] # None /\ p \notin cut
  /\ cut' = cut \cup {p} /\ stored' = None
  /\ UNCHANGED <<holds, now>>

Write(p) ==
  /\ p \in cut
  /\ stored' \in IF stored = None THEN {holds[p]} ELSE {holds[p], None}
  /\ cut' = cut \ {p}
  /\ holds' = [holds EXCEPT ![p] = None]
  /\ UNCHANGED now

\* A process that is killed in between leaves the file empty.
Killed(p) ==
  /\ holds[p] # None
  /\ holds' = [holds EXCEPT ![p] = None]
  /\ cut' = cut \ {p}
  /\ UNCHANGED <<stored, now>>

Next ==
  \/ \E p \in Refreshers, t \in Agents : Sync(p, t)
  \/ \E p \in Watchdogs, t \in Agents : Recover(p, t)
  \/ \E p \in Writers : Truncate(p) \/ Write(p) \/ Killed(p)

Spec == Init /\ [][Next]_vars

--------------------------------------------------------------------------------
Row   == [target : Agents, from : {"idle", "running", "turn_pending", None}, to : {"idle", "running", "turn_pending"},
          key : Keys \cup {None}, at : 0..MaxWrites, recovered : BOOLEAN]
Doc   == [agents : [Agents -> Entry \cup {None}], log : Seq(Row)]

TypeOK ==
  /\ \A doc \in {stored} \cup {holds[p] : p \in Writers} :
       doc # None => doc \in Doc /\ Len(doc.log) <= LogMax
  /\ cut \subseteq {p \in Writers : holds[p] # None}
  /\ now \in 0..MaxWrites

\* The lines of the log about an agent.
Lines(log, t) == {i \in DOMAIN log : log[i].target = t}

\* One that begins a phase, or another prompt than the line before it had.
Begins(log, i) ==
  \/ log[i].from # log[i].to \/ log[i].recovered
  \/ \E j \in Lines(log, log[i].target) :
       /\ j < i /\ log[j].key # log[i].key
       /\ \A k \in Lines(log, log[i].target) : k <= j \/ k >= i

\* Whatever updates are lost, and whatever is read half written: an agent's phase is
\* what the log says last of it, and dates from the line that began it.
FollowsLog(doc, t) ==
  LET entry == doc.agents[t]
      lines == Lines(doc.log, t)
  IN \A i \in lines :
       /\ (\A j \in lines : j <= i) =>
            entry # None /\ entry.phase = doc.log[i].to /\ entry.key = doc.log[i].key
       /\ entry.key # None /\ Begins(doc.log, i) /\ (\A j \in lines : j > i => ~Begins(doc.log, j))
            => entry.since = doc.log[i].at

StateFollowsLog == stored # None => \A t \in Agents : FollowsLog(stored, t)
================================================================================
