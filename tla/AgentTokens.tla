------------------------------ MODULE AgentTokens ------------------------------
(***************************************************************************)
(* How a token finds the chat of its agent.  An agent asks a process for a   *)
(* token (cursor_agent_register); the answer reaches Cursor's database some  *)
(* time later, as a tool result in the agent's chat.  Whoever resolves the   *)
(* token looks for that result in all chats, and falls back on what the      *)
(* process noted when it issued the token: the composer it was told, or the  *)
(* one of its environment, whoever called.                                   *)
(***************************************************************************)
EXTENDS Naturals, FiniteSets

CONSTANTS
  None,
  Composers,
  Managed,       \* AGENT_TARGETS
  Primary,       \* the first target, without CR_GUARD_TARGET
  Environment,   \* CR_AGENT_COMPOSER_ID of each process, or None
  Tokens,
  MaxEvents      \* bound on copies, reverts and restarts

Processes == DOMAIN Environment

TargetsAssumption == None \notin Composers /\ Managed \subseteq Composers /\ Primary \in Managed
EnvironmentAssumption == \A p \in Processes : Environment[p] \in Composers \cup {None}
EventsAssumption == MaxEvents \in Nat

VARIABLES
  owner,     \* the chat whose agent registered the token, or None
  due,       \* the tokens whose tool result has not reached the database
  history,   \* for each chat the tokens of its tool results
  binds,     \* for each process the composer it has bound a token to, or None
  routed,    \* where a token has last been resolved to, with what was known then, or None
  tasks,     \* for each managed chat the tokens that put tasks into its self queue
  events

vars == <<owner, due, history, binds, routed, tasks, events>>

Init ==
  /\ owner = [t \in Tokens |-> None]
  /\ due = {}
  /\ history = [c \in Composers |-> {}]
  /\ binds = [p \in Processes |-> [t \in Tokens |-> None]]
  /\ routed = None
  /\ tasks = [c \in Managed |-> {}]
  /\ events = 0

bindAgentToken(p, t, c) == binds' = [binds EXCEPT ![p][t] = IF c = None THEN @ ELSE c]

\* An agent registers, saying which chat is its own or saying nothing.
registerAgentToken(p, t, c, told) ==
  /\ owner[t] = None
  /\ owner' = [owner EXCEPT ![t] = c]
  /\ due' = due \cup {t}
  /\ bindAgentToken(p, t, IF told THEN c ELSE Environment[p])
  /\ UNCHANGED <<history, routed, tasks, events>>

Holders(t) == {c \in Composers : t \in history[c]}
Bound(p, t) == IF binds[p][t] = None THEN {} ELSE {binds[p][t]}

\* The composer a token stands for: in the set if there is one, or no composer.
Target_AnyHolder(p, t) == IF Holders(t) = {} THEN Bound(p, t) ELSE Holders(t)
Target(p, t) ==
  IF Holders(t) = {} THEN Bound(p, t)
  ELSE IF Cardinality(Holders(t)) = 1 THEN Holders(t)
  ELSE {}

\* A tool that is given a token resolves it first: a chat is read, a session
\* shown, a prompt sent or queued; without a target it fails and does nothing.
\* (One that is given a composer too takes that, and looks for nothing.)
resolveSendTarget(p, t) ==
  /\ owner[t] # None
  /\ \E c \in Target(p, t) :
       routed' = [token |-> t, to |-> c, held |-> Holders(t), bound |-> Bound(p, t)]
  /\ UNCHANGED <<owner, due, history, binds, tasks, events>>

\* The target a process takes when it knows no better.
resolveTargets(p) == IF Environment[p] \in Managed THEN Environment[p] ELSE Primary

\* The task tool asks what the process has bound, and nothing else.
mcpEnqueueTask(p, t) ==
  /\ owner[t] # None
  /\ LET c == IF binds[p][t] \in Managed THEN binds[p][t] ELSE resolveTargets(p) IN
       tasks' = [tasks EXCEPT ![c] = @ \cup {t}]
  /\ UNCHANGED <<owner, due, history, binds, routed, events>>

\* Cursor writes the tool result into the row of the chat that called.
Written(t) ==
  /\ t \in due
  /\ due' = due \ {t}
  /\ history' = [history EXCEPT ![owner[t]] = @ \cup {t}]
  /\ UNCHANGED <<owner, binds, routed, tasks, events>>

\* A person duplicates a chat or takes it back to an earlier message; a process restarts.
Event == events < MaxEvents /\ events' = events + 1

Duplicate(c, d) ==
  /\ Event
  /\ c # d
  /\ history' = [history EXCEPT ![d] = @ \cup history[c]]
  /\ UNCHANGED <<owner, due, binds, routed, tasks>>

Revert(c) ==
  /\ Event
  /\ \E kept \in SUBSET history[c] \ {history[c]} : history' = [history EXCEPT ![c] = kept]
  /\ UNCHANGED <<owner, due, binds, routed, tasks>>

Restart(p) ==
  /\ Event
  /\ binds' = [binds EXCEPT ![p] = [t \in Tokens |-> None]]
  /\ UNCHANGED <<owner, due, history, routed, tasks>>

\* The tools that take or give a token.
handleTool(p, t) ==
  \/ \E c \in Composers, told \in BOOLEAN : registerAgentToken(p, t, c, told)
  \/ resolveSendTarget(p, t)
  \/ mcpEnqueueTask(p, t)

Next ==
  \/ \E p \in Processes, t \in Tokens : handleTool(p, t)
  \/ \E t \in Tokens : Written(t)
  \/ \E c, d \in Composers : Duplicate(c, d)
  \/ \E c \in Composers : Revert(c)
  \/ \E p \in Processes : Restart(p)

Spec == Init /\ [][Next]_vars

--------------------------------------------------------------------------------
TypeOK ==
  /\ owner \in [Tokens -> Composers \cup {None}]
  /\ due \subseteq {t \in Tokens : owner[t] # None}
  /\ history \in [Composers -> SUBSET {t \in Tokens : owner[t] # None}]
  /\ binds \in [Processes -> [Tokens -> Composers \cup {None}]]
  /\ tasks \in [Managed -> SUBSET Tokens]
  /\ events \in 0..MaxEvents

\* Once an agent's chat holds its token, every process takes the token to that
\* chat or refuses it, whatever it noted when it issued the token and wherever
\* copies of the chat hold it; before, only to a chat that was named for it.
TokenGoesHome ==
  routed # None =>
    /\ owner[routed.token] \in routed.held => routed.to = owner[routed.token]
    /\ routed.to \in routed.held \cup routed.bound

\* "Enqueue a sub-task for the calling agent" (src/mcp/register.ts:93).
TaskOfCaller == \A c \in Managed : \A t \in tasks[c] : owner[t] \in Managed => owner[t] = c
================================================================================
