------------------------------- MODULE StepRunner -------------------------------
(***************************************************************************)
(* One request to /api/cursor/interact/step or /wait: the window is looked  *)
(* at, acted on, and looked at again until the expectation is met or the     *)
(* time is up; then, if asked for, the open dialogs are dismissed and it is   *)
(* looked at for a while more (cursor/interaction/).  Between any two looks   *)
(* agents, people and other programs change the windows.  The running tool,   *)
(* the draft, the model and the slow labels, of which a look also tells, are  *)
(* left out, and so is the expectation activeTool.                             *)
(***************************************************************************)
EXTENDS Sequences, FiniteSetsExt, Naturals

CONSTANTS
  None,
  Home,          \* the window of each chat
  Timeout,       \* wait.timeoutMs, in intervals
  FallbackMost,  \* the longest wait after a fallback: 8000 ms, in intervals
  MaxChanges     \* bound on what happens to the windows during a request

Chats == DOMAIN Home
Windows == {Home[c] : c \in Chats}

LimitAssumption == Timeout \in Nat \ {0} /\ FallbackMost \in Nat \ {0} /\ MaxChanges \in Nat

VARIABLES
  up,        \* CDP answers
  pages,     \* the windows in the order of CDP's listing
  shown,     \* the chat each window shows
  working,   \* the chats whose agent works
  dialog,    \* for each window "none", "modal" (holds a submission) or "quick" (quick open)
  changes,
  request,   \* the request, or None
  stage,     \* where its handler is
  before,    \* the window as first seen
  clock,     \* time since the wait began
  attempts,  \* looks of the wait
  failed,    \* the action has thrown
  began,     \* history: the chats whose agent has begun since before
  ended,     \* history: ... has ended since before
  held,      \* history: the expectation has been met ever since the wait began
  result     \* what is answered, or None

worldVars == <<up, pages, shown, working, dialog, changes>>
vars == <<worldVars, request, stage, before, clock, attempts, failed, began, ended, held, result>>

Actions == {"wait", "noop", "stop", "send", "dismiss", "switchComposer"}
Expects == {"anyChange", "unchanged", "agentStarted", "agentIdle", "sendBlocked"}
Requests == [action : Actions, window : Windows \cup {None}, expect : Expects, fallback : BOOLEAN]

-----------------------------------------------------------------------------
(* What is seen *)

emptyInteractionSnapshot == [chat |-> None, busy |-> FALSE, dialog |-> "none"]

\* The page of the window that is named, or the first of the listing.
Candidates(w) == {i \in DOMAIN pages : w \in {pages[i], None}}
Target(w) == pages[Min(Candidates(w))]
Listed(w) == {pages[i] : i \in Candidates(w)}

\* The look is one evaluation in the page; without CDP or a page it is empty.
captureSnapshot(w) ==
  IF ~up \/ Candidates(w) = {} THEN emptyInteractionSnapshot
  ELSE LET p == Target(w) IN
       [chat |-> shown[p], busy |-> shown[p] \in working, dialog |-> dialog[p]]

\* The fingerprint is blind to the chat, but tells an empty snapshot from an idle agent.
Fingerprint(s) == <<s.chat = None, s.busy, s.dialog>>

agentIdle_NowIdle(b, a) == ~a.busy
agentIdle(b, a) == b.busy /\ ~a.busy

Matches(e, b, a) ==
  \/ e = "anyChange" /\ Fingerprint(b) # Fingerprint(a)
  \/ e = "unchanged" /\ Fingerprint(b) = Fingerprint(a)
  \/ e = "agentStarted" /\ ~b.busy /\ a.busy
  \/ e = "agentIdle" /\ agentIdle(b, a)
  \/ e = "sendBlocked" /\ a.dialog # "none"

VerdictOf ==
  [anyChange |-> "matched", unchanged |-> "unchanged", agentStarted |-> "started",
   agentIdle |-> "finished", sendBlocked |-> "blocked"]

Met == Matches(request.expect, before, captureSnapshot(request.window))

\* To be joined to a step that changes the windows; the action's own starts the wait.
Witness ==
  /\ began' = began \cup (working' \ working)
  /\ ended' = ended \cup (working \ working')
  /\ UNCHANGED <<request, before>>
  /\ held' = (Met' /\ (held \/ stage = "acting"))

Init ==
  /\ up = TRUE
  /\ pages \in {s \in [1..Cardinality(Windows) -> Windows] : \A i, j \in DOMAIN s : s[i] = s[j] => i = j}
  /\ shown \in {f \in [Windows -> Chats] : \A w \in Windows : Home[f[w]] = w}
  /\ working \in SUBSET Chats
  /\ dialog = [w \in Windows |-> "none"]
  /\ changes = 0
  /\ request = None /\ stage = "idle" /\ before = emptyInteractionSnapshot
  /\ clock = 0 /\ attempts = 0 /\ failed = FALSE
  /\ began = {} /\ ended = {} /\ held = FALSE /\ result = None

-----------------------------------------------------------------------------
(* The handler *)

\* The request is answered, and what its handler held is gone.
Finish(verdict, ok, after) ==
  /\ result' = [ok |-> ok, verdict |-> verdict, chat |-> after.chat]
  /\ stage' = "done"
  /\ request' = None /\ before' = emptyInteractionSnapshot
  /\ clock' = 0 /\ attempts' = 0 /\ failed' = FALSE
  /\ began' = {} /\ ended' = {} /\ held' = FALSE

\* A wait begins: time and attempts are counted from here.
StartWait ==
  /\ clock' = 0 /\ attempts' = 0

\* A request comes in; the first look is its baseline.
Begin(r) ==
  /\ stage = "idle"
  /\ r.action = "wait" => ~r.fallback
  /\ request' = r
  /\ before' = captureSnapshot(r.window)
  /\ stage' = IF r.action = "wait" THEN "looking" ELSE "acting"
  /\ StartWait
  /\ began' = {} /\ ended' = {}
  /\ held' = Matches(r.expect, before', before')
  /\ UNCHANGED <<worldVars, failed, result>>

\* Dialogs are dismissed in every page that answers: the submission one holds
\* goes ahead or is given up, or its button is not found.
Submissions(gone) == {shown[w] : w \in gone}
dismissModals ==
  \E gone \in SUBSET {w \in Windows : dialog[w] = "modal"} :
    /\ up
    /\ dialog' = [w \in Windows |-> IF w \in gone THEN "none" ELSE dialog[w]]
    /\ \E sent \in SUBSET Submissions(gone) : working' = working \cup sent
    /\ UNCHANGED <<up, pages, shown>>

\* Any page may be chosen for a prompt that names no window.
Send(p) ==
  /\ shown[p] \notin working
  /\ working' = working \cup {shown[p]}
  /\ dialog' = [dialog EXCEPT ![p] = IF @ = "modal" THEN "none" ELSE @]
  /\ UNCHANGED <<up, pages, shown>>

stopAgent(p) == working' = working \ {shown[p]} /\ UNCHANGED <<up, pages, shown, dialog>>

switchComposer(c) ==
  /\ shown' = [shown EXCEPT ![Home[c]] = c]
  /\ UNCHANGED <<up, pages, working, dialog>>

Acted ==
  \/ request.action = "noop" /\ UNCHANGED <<up, pages, shown, working, dialog>>
  \/ request.action = "dismiss" /\ (dismissModals \/ UNCHANGED <<up, pages, shown, working, dialog>>)
  \/ /\ request.action = "send" /\ up
     /\ \E p \in Listed(request.window) : Send(p)
  \/ /\ request.action = "stop"
     /\ IF up /\ Candidates(request.window) # {}
          THEN stopAgent(Target(request.window))
          ELSE UNCHANGED <<up, pages, shown, working, dialog>>
  \/ /\ request.action = "switchComposer" /\ up
     /\ \E c \in Chats : Home[c] \in Listed(request.window) /\ switchComposer(c)

\* The action is done, in full or until it throws; a throw is noted, not passed on.
Act ==
  /\ stage = "acting"
  /\ stage' = "looking"
  /\ \/ Acted /\ failed' = FALSE
     \/ /\ request.action # "noop"
        /\ failed' = TRUE
        /\ UNCHANGED <<up, pages, shown, working, dialog>>
  /\ Witness
  /\ UNCHANGED <<changes, clock, attempts, result>>

Limit == IF stage = "looking again" THEN IF Timeout < FallbackMost THEN Timeout ELSE FallbackMost
         ELSE Timeout

Looking == stage \in {"looking", "looking again"}

\* A look: the request is answered, or the next look is an interval away.
Look ==
  /\ Looking /\ clock < Limit
  /\ LET after == captureSnapshot(request.window) IN
       IF Matches(request.expect, before, after)
         THEN IF failed /\ stage = "looking"
                THEN Finish("error", FALSE, after)
                ELSE Finish(VerdictOf[request.expect], TRUE, after)
         ELSE /\ attempts' = attempts + 1 /\ clock' = clock + 1
              /\ UNCHANGED <<request, stage, before, failed, began, ended, held, result>>
  /\ UNCHANGED worldVars

\* The answer of a wait whose time is up; after a fallback it says nothing of a failed action.
TimedOut ==
  Finish(IF failed /\ stage # "looking again" THEN "error" ELSE "timeout", FALSE,
         captureSnapshot(request.window))

GiveUp ==
  /\ Looking /\ clock >= Limit
  /\ stage = "looking" => ~request.fallback
  /\ TimedOut
  /\ UNCHANGED worldVars

Baseline == before

\* The fallback: if it found a dialog open, the window is looked at again, and
\* still compared with what it was before the action.
Fallback ==
  /\ stage = "looking" /\ clock >= Limit /\ request.fallback
  /\ \/ /\ up /\ \E w \in Windows : dialog[w] = "modal"
        /\ dismissModals
        /\ stage' = "looking again"
        /\ StartWait
        /\ UNCHANGED <<request, failed, result>>
        /\ before' = Baseline
        /\ began' = began \cup (working' \ working)
        /\ ended' = ended \cup (working \ working')
        /\ held' = Matches(request.expect, before, captureSnapshot(request.window)')
     \/ /\ ~up \/ \A w \in Windows : dialog[w] # "modal"
        /\ TimedOut
        /\ UNCHANGED <<up, pages, shown, working, dialog>>
  /\ UNCHANGED changes

\* A look, a listing or the fallback rejects: the request is answered with status 400.
Reject ==
  /\ stage \in {"acting", "looking", "looking again"}
  /\ Finish("rejected", FALSE, emptyInteractionSnapshot)
  /\ UNCHANGED worldVars

\* A listing, an action or a look takes its time.
Elapse ==
  /\ stage \in {"acting", "looking", "looking again"} /\ clock < Limit
  /\ clock' = clock + 1
  /\ UNCHANGED <<worldVars, request, stage, before, attempts, failed, began, ended, held, result>>

\* Agents begin and end, people switch chats and windows, dialogs open and close, Cursor goes.
Change ==
  /\ stage \notin {"idle", "done"}
  /\ changes < MaxChanges
  /\ changes' = changes + 1
  /\ \/ \E c \in Chats :
          /\ working' = IF c \in working THEN working \ {c} ELSE working \cup {c}
          /\ UNCHANGED <<up, pages, shown, dialog>>
     \/ \E c \in Chats : shown[Home[c]] # c /\ switchComposer(c)
     \/ \E w \in Windows : \E d \in {"none", "modal", "quick"} \ {dialog[w]} :
          /\ dialog' = [dialog EXCEPT ![w] = d]
          /\ UNCHANGED <<up, pages, shown, working>>
     \/ up' = ~up /\ UNCHANGED <<pages, shown, working, dialog>>
     \/ /\ Len(pages) > 1
        /\ pages' \in {Tail(pages), Tail(pages) \o <<Head(pages)>>}
        /\ UNCHANGED <<up, shown, working, dialog>>
  /\ Witness
  /\ UNCHANGED <<stage, clock, attempts, failed, result>>

Next ==
  \/ \E r \in Requests : Begin(r)
  \/ Act \/ Look \/ GiveUp \/ Fallback \/ Reject \/ Elapse \/ Change

Spec == Init /\ [][Next]_vars

-----------------------------------------------------------------------------
Snapshot == [chat : Chats \cup {None}, busy : BOOLEAN, dialog : {"none", "modal", "quick"}]

TypeOK ==
  /\ up \in BOOLEAN /\ working \subseteq Chats /\ changes \in 0..MaxChanges
  /\ \A w \in Windows : Home[shown[w]] = w
  /\ dialog \in [Windows -> {"none", "modal", "quick"}]
  /\ before \in Snapshot /\ clock \in 0..Timeout /\ attempts \in 0..Timeout
  /\ result = None \/ result \in
       [ok : BOOLEAN, chat : Chats \cup {None},
        verdict : {"matched", "unchanged", "started", "finished", "blocked", "timeout", "error", "rejected"}]

\* An agent that is said to have begun or finished did so since the first look,
\* if both looks reached the same chat (an empty snapshot counts as an idle
\* agent, and chats are not told apart); and a time-out is not declared of what
\* was so all along, unless the action used up the time and nobody looked.
VerdictIsTrue ==
  [][result' # result =>
       LET v == result'.verdict
           c == before.chat
       IN /\ v = "finished" /\ c # None /\ result'.chat = c => c \in ended
          /\ v = "started" /\ c # None /\ result'.chat = c => c \in began
          /\ v = "timeout" => attempts = 0 \/ ~held]_vars
=================================================================================
