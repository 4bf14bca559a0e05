-------------------------------- MODULE MCServer --------------------------------
(***************************************************************************)
(* What the server does besides sending and watching, for TLC: the chat view *)
(* of a browser, what it says of an agent, the reads it keeps, the tokens of  *)
(* its agents, a request to act in a window and wait, a question asked of all *)
(* windows.  As in MCHost they have no variable in common, and a behaviour     *)
(* follows one of them.                                                        *)
(***************************************************************************)
EXTENDS ChatView

CONSTANTS
  Askers, ProbeTtl, MaxProbe,
  ListedChats, MsgTtl, MaxMessages,
  Tokens, MaxEvents,
  Timeout, FallbackMost, MaxChanges

VARIABLES
  part,
  working, up, row, idleAge, probed, call, said,
  rowBusy, messages, past, kept, counted, headers, readable, named, list, disk,
  owner, due, history, binds, routed, tasks, events,
  reached, pages, front, running, dialog, changes, request, stage, before, clock,
  attempts, failed, began, ended, held, result,
  tab, works, focus, asked, told

\* A turn under way, one completed, one aborted with a tool unfinished.
Row(s, l, t) == [generating |-> FALSE, status |-> s, last |-> l, tool |-> t]
ChatRows == {Row("generating", "user", FALSE), Row("completed", "agent", FALSE), Row("aborted", "agent", TRUE)}

\* The server has no chat of its own; an agent's MCP process is told one.
ProcessChats == [server |-> None, mcp |-> "a"]
HomeWindows == [a |-> "left", b |-> "left", c |-> "right"]

\* The left window's title is part of the right one's.
WindowOrder  == <<"left", "right">>
WindowHints  == [a |-> {"left"}, b |-> {"right"}]
TitlesWithin == [left |-> {"left", "right"}, right |-> {"right"}]

Am == INSTANCE AgentModel WITH Rows <- ChatRows
Cs == INSTANCE ChatStore WITH Chats <- ListedChats, busy <- rowBusy, shown <- counted
At == INSTANCE AgentTokens WITH
        Composers <- {"a", "b", "c"}, Managed <- {"a", "b"}, Primary <- "a", Environment <- ProcessChats
Sr == INSTANCE StepRunner WITH Home <- HomeWindows, up <- reached, shown <- front, working <- running
Wi == INSTANCE WindowProbe WITH
        Pages <- WindowOrder, Chats <- {"a", "b"}, Hints <- WindowHints, TitleIn <- TitlesWithin

\* What the parts ask of their constants.
ASSUME PartsAssumption ==
  /\ ViewAssumption
  /\ Am!RowsAssumption /\ Am!LimitsAssumption
  /\ Cs!StoreAssumption
  /\ At!TargetsAssumption /\ At!EnvironmentAssumption /\ At!EventsAssumption
  /\ Sr!LimitAssumption
  /\ Wi!ChatsAssumption /\ Wi!HintsAssumption /\ Wi!TitleInAssumption

viewVars  == vars
agentVars == <<working, up, row, idleAge, probed, call, said>>
storeVars == <<rowBusy, messages, past, kept, counted, headers, readable, named, list, disk>>
tokenVars == <<owner, due, history, binds, routed, tasks, events>>
stepVars  == <<reached, pages, front, running, dialog, changes, request, stage, before, clock,
               attempts, failed, began, ended, held, result>>
probeVars == <<tab, works, focus, asked, told>>
allVars   == <<part, viewVars, agentVars, storeVars, tokenVars, stepVars, probeVars>>

ServerInit ==
  /\ part \in {"view", "agent", "store", "tokens", "step", "probe"}
  /\ Init /\ Am!Init /\ Cs!Init /\ At!Init /\ Sr!Init /\ Wi!Init
  /\ part # "agent" => row.status = "completed"
  /\ front["left"] = "a"  \* or "b", which is the same
  /\ part # "step" => running = {} /\ pages = <<"left", "right">>
  /\ part # "probe" => \A w \in Wi!Windows : tab[w] = None

ServerNext ==
  /\ UNCHANGED part
  /\ \/ part = "view" /\ Next /\ UNCHANGED <<agentVars, storeVars, tokenVars, stepVars, probeVars>>
     \/ part = "agent" /\ Am!Next /\ UNCHANGED <<viewVars, storeVars, tokenVars, stepVars, probeVars>>
     \/ part = "store" /\ Cs!Next /\ UNCHANGED <<viewVars, agentVars, tokenVars, stepVars, probeVars>>
     \/ part = "tokens" /\ At!Next /\ UNCHANGED <<viewVars, agentVars, storeVars, stepVars, probeVars>>
     \/ part = "step" /\ Sr!Next /\ UNCHANGED <<viewVars, agentVars, storeVars, tokenVars, probeVars>>
     \/ part = "probe" /\ Wi!Next /\ UNCHANGED <<viewVars, agentVars, storeVars, tokenVars, stepVars>>

ServerSpec == ServerInit /\ [][ServerNext]_allVars

\* Only the view has Composers, and does not tell them apart.
Symmetry == Permutations(Composers)

---------------------------------------------------------------------------------
\* The types of the six modules, where they move.
ServerTypeOK ==
  /\ part = "view"   => TypeOK
  /\ part = "agent"  => Am!TypeOK
  /\ part = "store"  => Cs!TypeOK
  /\ part = "tokens" => At!TypeOK
  /\ part = "step"   => Sr!TypeOK
  /\ part = "probe"  => Wi!TypeOK

\* What is kept of an agent, of messages and of the chat list serves within its
\* time, and is not lost to an index that cannot be read; what is put together
\* from several windows is right of those that stood still.
ReadsHold == [](Am!IdleWasSeen /\ Cs!ShowsRecent /\ Wi!AnswersHold) /\ Cs!ListKept

\* A token leads to the chat of the agent that registered it, or nowhere.
TokenGoesHome == At!TokenGoesHome

\* "Enqueue a sub-task for the calling agent" (src/mcp/register.ts:93).
TaskOfCaller == At!TaskOfCaller

\* The verdict of a step is about what happened since its first look.
VerdictIsTrue == Sr!VerdictIsTrue
=================================================================================
