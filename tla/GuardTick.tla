------------------------------ MODULE GuardTick ------------------------------
(***************************************************************************)
(* The guard: the process loop.sh starts every five minutes to look at the  *)
(* composer of one target and, if its agent is idle, to prompt it for the   *)
(* next step.  One tick is                                                  *)
(*   Look     the session and the usage of the windows, asked of the server *)
(*   Study    the chat is read, the agent's state judged, a nudge planned;  *)
(*            an agent that hangs is stopped first (StopHung)               *)
(*   Admit    CursorModel.send: the loop guard again, unless forced         *)
(*   Land     cdp.sendMessage                                               *)
(*   Record   orchestration entry, SESSION.md, the guard's own state file   *)
(* and it may return, throw or die in between.  Around it the agent, which  *)
(* answers, marks its step done or does not, and queues its own next step   *)
(* at the server; the server's drain; a person; time.                       *)
(*                                                                         *)
(* The returns of a tick that change nothing (usage, cycle and model        *)
(* limits, an open modal, a supervisor alert, a missing directory, a failed *)
(* request) are stuttering steps: no action stands for them.                *)
(***************************************************************************)
EXTENDS LoopGuard, PickNext

CONSTANTS GuardTail,     \* user messages the guard's own check looks back at (6)
          RecoveryTail,  \* those its plan looks back at (8)
          StuckTicks,    \* CR_STUCK_ABORTED_TICKS
          Recovery,      \* the key of the recovery prompt
          RoleKey,       \* the key of the prompt of each role
          PlanRefresh,   \* the key of the Planner prompt of a stuck Driver
          SelfKeys,      \* steps the agent may put on its SELF_QUEUE
          StepMatches,   \* pairs: the text STEP=<first> occurs in STEP=<second>
          AgentKeys,     \* steps the agent may queue at the server
          Events,        \* the kinds of events that may happen
          MaxEvents,     \* bounds the events, of whatever kind
          MaxCrashes,    \* bounds the ends of the guard in mid-tick, and lost answers
          MaxTurns       \* bounds driver_turns_since_plan

\* The roles a rotation or an idle track may ask of the main project.
OtherRoles == {"Orchestrator", "Backlog", "Meta", "Cleaner", "Planner", "Monitor",
               "Critic", "Reviewer", "Researcher"}

\* Every prompt of the guard names a role and a step, and only the Driver's
\* numbered ones are steps of the track.
ASSUME GuardKeyAssumption ==
  /\ TrackSteps \in Seq(Keys \ {Keyless})
  /\ SelfKeys \subseteq Keys \ {Keyless} /\ AgentKeys \subseteq Keys
  /\ OtherRoles \subseteq DOMAIN RoleKey
  /\ {Recovery, PlanRefresh} \cup {RoleKey[r] : r \in DOMAIN RoleKey}
       \subseteq Keys \ ({Keyless} \cup {TrackSteps[i] : i \in DOMAIN TrackSteps})
ASSUME GuardCountAssumption == StuckTicks \in Nat /\ RecoveryTail \in Nat \ {0}

VARIABLES
  chat,       \* the last messages of the composer
  reply,      \* what the answers since the last keyed prompt look like
  running,    \* the agent is generating
  aborted,    \* the database calls its last turn aborted
  window,     \* a window shows the composer
  orch,       \* its entry in cr-orch-state.json
  track,      \* the TRACK file
  session,    \* SESSION.md: driver_turns_since_plan and role_last
  selfQueue,  \* the pending lines of SELF_QUEUE.md
  queue,      \* the server's send queue for the composer
  entry,      \* the target's entry in the guard's state file
  agentFile,  \* its entry in cr-agent-state.json
  pc,         \* where the tick is
  seen,       \* what Look saw
  read,       \* the chat Study read
  plan,       \* the prompt the tick is to send
  prompted,   \* keys that ever reached the chat
  dones,      \* turn_done lines TURNLOG has of the present turn
  completed,  \* self-queued items marked [x]
  events,     \* events so far
  crashes     \* crashes so far

tickvars == <<pc, seen, read, plan>>
files    == <<orch, track, session, selfQueue, entry, agentFile>>
outer    == <<chat, reply, running, aborted, window, queue>>
past     == <<prompted, dones, completed>>
bounds   == <<events, crashes>>
vars     == <<tickvars, files, outer, past, bounds>>

NoPlan == [key |-> NoKey, role |-> "", force |-> FALSE]
Blank  == [cooling |-> FALSE, token |-> FALSE, away |-> FALSE,
           hungKey |-> NoKey, hungTicks |-> 0, doneKey |-> NoKey]
Unseen == [busy |-> FALSE, aborted |-> FALSE, window |-> FALSE, queued |-> FALSE,
           stuck |-> "no"]
Replies == {"none", "incomplete", "ok"}
Verdicts == {"none", "pending", "incomplete", "ok"}
AgentPhases == {"idle", "running", "turn_pending", "turn_done", "turn_incomplete",
                "stuck_reconnecting", "stuck_slow"}
Roles == DOMAIN RoleKey \cup {"Driver"}

TypeOK ==
  /\ chat \in Seq(Message) /\ read \in Seq(Message)
  /\ reply \in Replies
  /\ {running, aborted, window} \subseteq BOOLEAN
  /\ orch \in Entry /\ track \in Track
  /\ session.turns \in Nat /\ session.role \in Roles \cup {""}
  /\ selfQueue \in Seq(SelfKeys) /\ queue \in Seq(Keys)
  /\ entry \in [cooling : BOOLEAN, token : BOOLEAN, away : BOOLEAN,
                hungKey : Keys \cup {NoKey}, hungTicks : 0 .. StuckTicks,
                doneKey : Keys \cup {NoKey}]
  /\ agentFile \in [phase : AgentPhases, key : Keys \cup {NoKey}]
  /\ pc \in {"idle", "looked", "stopping", "planned", "admitted", "landed"}
  /\ plan \in [key : Keys \cup {NoKey}, role : Roles \cup {""}, force : BOOLEAN]
  /\ (plan = NoPlan) <=> pc \in {"idle", "looked", "stopping"}
  /\ events \in Nat /\ crashes \in Nat
  /\ prompted \subseteq Keys /\ dones \in Nat /\ completed \subseteq SelfKeys

Init ==
  /\ chat = <<>> /\ reply = "none" /\ queue = <<>>
  /\ running = FALSE /\ aborted = FALSE /\ window = TRUE
  /\ orch = NoEntry
  /\ \/ track = [done |-> {}, header |-> NoKey]
     \/ TrackSteps # <<>> /\ track = [done |-> {}, header |-> TrackSteps[1]]
  /\ session = [turns |-> 0, role |-> ""]
  /\ selfQueue = <<>>
  /\ entry = Blank
  /\ agentFile = [phase |-> "idle", key |-> NoKey]
  /\ pc = "idle" /\ seen = Unseen /\ read = <<>> /\ plan = NoPlan
  /\ prompted = {} /\ dones = 0 /\ completed = {}
  /\ events = 0 /\ crashes = 0

(***************************************************************************)
(* The events: "slip", an answer that leaves the step unmarked or looks     *)
(* unfinished; "hang", "stop" of the agent; "person", "self", "queued",     *)
(* prompts of a person and of the agent; "away", the window out of sight;   *)
(* "stuck", a window that shows it is reconnecting or slow.                 *)
(***************************************************************************)
Event(kind) == /\ kind \in Events
               /\ events < MaxEvents
               /\ events' = events + 1
               /\ UNCHANGED crashes

Crash == /\ crashes < MaxCrashes
         /\ crashes' = crashes + 1
         /\ UNCHANGED events

------------------------------------------------------------------------------
(* agent-state.ts *)

verifyTurn(msgs, answers) ==
  IF lastUserPromptKey(msgs) = NoKey THEN "none"
  ELSE IF ~LastIsAssistant(msgs) \/ answers = "none" THEN "pending"
  ELSE answers

\* The phase syncAgentState gives the agent.
PhaseOf(busy, stuck, verdict) ==
  IF busy
  THEN IF stuck # "no" THEN stuck
       ELSE IF verdict = "pending" THEN "turn_pending" ELSE "running"
  ELSE IF verdict = "pending" THEN "turn_pending"
  ELSE IF verdict = "incomplete" THEN "turn_incomplete"
  ELSE IF verdict = "ok" THEN "turn_done" ELSE "idle"

------------------------------------------------------------------------------
(* The next step and the plan of a nudge *)

\* The one track as pick-next.ts reads it.
Tracks ==
  << [focus |-> 1, status |-> "in progress", statusStep |-> 0, blockedSkip |-> FALSE,
      bold |-> IF track.header = NoKey THEN 0
               ELSE CHOOSE i \in DOMAIN TrackSteps : TrackSteps[i] = track.header,
      rows |-> [i \in DOMAIN TrackSteps |->
                  [step |-> i, meta |-> FALSE,
                   cell |-> IF TrackSteps[i] \in track.done THEN "done" ELSE "pending"]]] >>

KeyOf(next) == IF next.role = "Driver" THEN TrackSteps[next.step] ELSE RoleKey[next.role]

Keyed(next) == [role |-> next.role, key |-> KeyOf(next)]

\* pickNextAgentStep: the first self-queued item before anything else.
NextStep(items) ==
  IF items # <<>>
  THEN [role |-> "Driver", key |-> Head(items)]
  ELSE Keyed(pickNextAgentStep(Tracks, session.turns, session.role, Nobody, FALSE, {}))

\* The guard's own queue is empty: it sees none of the server's pending texts.
Check(key, msgs) == checkEnqueueLoop(key, msgs, {}, orch, track, GuardTail)

Skip           == [action |-> "skip", key |-> NoKey, role |-> ""]
Recover        == [action |-> "recovery", key |-> Recovery, role |-> "Driver"]
Nudge(role, k) == [action |-> "send", key |-> k, role |-> role]

Recovered(msgs) == countRecentSameKey(msgs, Recovery, RecoveryTail) >= 1

Waits(msgs) == msgs # <<>> /\ ~LastIsAssistant(msgs) /\ lastUserPromptKey(msgs) # NoKey

Loops(key, msgs) == \/ LastIsAssistant(msgs) /\ lastUserPromptKey(msgs) = key
                    \/ countRecentSameKey(msgs, key, RecoveryTail) >= 2

(***************************************************************************)
(* planGuardNudge: from the prompt the agent is due to ever blunter ones,   *)
(* by what the chat and the orchestration entry refuse.  d is the decision  *)
(* on the key of next; fallback is the Driver step of the tracks, if any.   *)
(***************************************************************************)
\* Mutant: the fallbacks are gone, a refused step is a recovery or nothing.
Plan_NoFallback(msgs, next, d, fallback) ==
  IF ~Waits(msgs) /\ d.reason = "none" THEN Nudge(next.role, d.key) ELSE Skip

Plan(msgs, next, d, fallback) ==
  IF Waits(msgs)
  THEN Skip
  ELSE IF next.role = "Driver" /\ Loops(next.key, msgs) /\ ~Recovered(msgs) THEN Recover
  ELSE IF d.reason = "none" THEN Nudge(next.role, d.key)
  ELSE IF ~Recovered(msgs) /\ d.reason \in {"already ran", "waiting in chat"} THEN Recover
  ELSE IF next.role = "Driver" /\ d.reason = "already ran" THEN Nudge("Driver", next.key)
  ELSE IF /\ next.role = "Driver" /\ d.reason = "already sent"
          /\ Check(PlanRefresh, msgs).reason = "none"
       THEN Nudge("Planner", PlanRefresh)
  ELSE IF fallback # Nobody /\ Check(KeyOf(fallback), msgs).reason = "none"
       THEN Nudge("Driver", Check(KeyOf(fallback), msgs).key)
  ELSE IF d.reason = "already sent" /\ Check(Recovery, msgs).reason = "none" THEN Recover
  ELSE Skip

PlanFor(msgs, next) == Plan(msgs, next, Check(next.key, msgs), pickDriverStep(Tracks))

planGuardNudge(msgs, items) == PlanFor(msgs, NextStep(items))

------------------------------------------------------------------------------
(* The tick *)

\* Mutant: the prompt of the last tick is still there in the next.
Return_KeepsPlan == /\ pc' = "idle" /\ seen' = Unseen /\ read' = <<>> /\ UNCHANGED plan
Return == /\ pc' = "idle" /\ seen' = Unseen /\ read' = <<>> /\ plan' = NoPlan

Look ==
  /\ pc = "idle"
  /\ pc' = "looked"
  /\ \E s \in {"no", "stuck_reconnecting", "stuck_slow"} :
       /\ IF s = "no" THEN UNCHANGED bounds ELSE Event("stuck")
       /\ seen' = [busy |-> running, aborted |-> aborted, window |-> window,
                   queued |-> queue # <<>>, stuck |-> s]
  /\ UNCHANGED <<read, plan, files, outer, past>>

\* The server has prompts queued: it is asked to drain and the tick ends.
FlushServerQueue ==
  /\ pc = "looked" /\ seen.queued
  /\ Return
  /\ UNCHANGED <<files, outer, past, bounds>>

NoWindow ==
  /\ pc = "looked" /\ ~seen.queued /\ ~seen.window
  /\ entry' = [entry EXCEPT !.away = TRUE]
  /\ Return
  /\ UNCHANGED <<orch, track, session, selfQueue, agentFile, outer, past, bounds>>

\* The backoff of a window that was away outlasts its return.
TooSoon ==
  /\ pc = "looked" /\ ~seen.queued /\ seen.window
  /\ entry.away \/ entry.cooling
  /\ Return
  /\ UNCHANGED <<files, outer, past, bounds>>

Studies == pc = "looked" /\ ~seen.queued /\ seen.window /\ ~entry.away /\ ~entry.cooling
Key     == lastUserPromptKey(chat)
Phase   == PhaseOf(seen.busy, seen.stuck, verifyTurn(chat, reply))
Hung    == seen.busy /\ seen.aborted /\ Key # NoKey
Stuck   == seen.stuck = "stuck_reconnecting" \/ (seen.stuck = "stuck_slow" /\ seen.busy)

\* A turn found done is written to TURNLOG unless its key is the last written.
\* Mutant: the key written last is not looked at.
AuditsDone_Always == Phase = "turn_done"
AuditsDone == Phase = "turn_done" /\ entry.doneKey # Key
Audited    == IF AuditsDone THEN [entry EXCEPT !.doneKey = Key] ELSE entry
AuditTurn  == dones' = IF AuditsDone THEN dones + 1 ELSE dones

SyncAgentState == agentFile' = [phase |-> Phase, key |-> Key]

\* Reconnecting or slow; or busy, and not hung: the tick leaves it alone.
StudyBusy ==
  /\ Studies
  /\ Stuck \/ (seen.busy /\ ~Hung)
  /\ entry' = Audited
  /\ AuditTurn /\ SyncAgentState
  /\ Return
  /\ UNCHANGED <<orch, track, session, selfQueue, outer, prompted, completed, bounds>>

\* The ticks that found the agent hung; the first with a key is not counted.
\* Mutant: the count is read and not increased.
HungTicks_NotIncreased == entry.hungTicks
HungTicks == entry.hungTicks + (IF entry.hungKey = Key THEN 1 ELSE 0)

\* Busy, but aborted in the database: one more tick of it is counted, or the
\* agent is to be stopped.
StudyHung ==
  LET ticks == HungTicks
  IN  /\ Studies /\ ~Stuck /\ Hung
      /\ SyncAgentState
      /\ IF ticks >= StuckTicks
         THEN /\ pc' = "stopping" /\ read' = chat
              /\ entry' = [entry EXCEPT !.hungKey = NoKey, !.hungTicks = 0]
              /\ UNCHANGED <<seen, plan>>
         ELSE /\ entry' = [entry EXCEPT !.hungKey = Key, !.hungTicks = ticks]
              /\ Return
      /\ UNCHANGED <<orch, track, session, selfQueue, outer, past, bounds>>

\* planGuardNudge's outcome: the tick ends, or goes on with the prompt.
Follow(p) ==
  IF p.action = "skip"
  THEN Return
  ELSE /\ pc' = "planned" /\ seen' = Unseen /\ read' = <<>>
       /\ plan' = [key |-> p.key, role |-> p.role, force |-> p.action = "send"]

Decide(msgs, items) ==
  /\ orch' = syncOrchFromChat(orch, msgs)
  /\ Follow(planGuardNudge(msgs, items))

\* The agent is stopped and waited for; the plan is made from the chat as it
\* was read before.
StopHung ==
  /\ pc = "stopping"
  /\ running' = FALSE
  /\ Decide(read, selfQueue)
  /\ UNCHANGED <<track, session, selfQueue, entry, agentFile, chat, reply, aborted,
                 window, queue, past, bounds>>

Idle == Studies /\ ~Stuck /\ ~seen.busy

\* It could not be stopped; the tick goes on all the same.
StopFails ==
  /\ pc = "stopping"
  /\ Decide(read, selfQueue)
  /\ UNCHANGED <<track, session, selfQueue, entry, agentFile, outer, past, bounds>>

\* The hang of a turn that ended is forgotten, if a tick was counted for it.
Unhung(e) == IF e.hungTicks # 0 THEN [e EXCEPT !.hungKey = NoKey, !.hungTicks = 0] ELSE e

\* The turn looks unfinished: recovery, not planned and not forced.
StudyIncomplete ==
  /\ Idle /\ Phase = "turn_incomplete"
  /\ SyncAgentState
  /\ entry' = Unhung(entry)
  /\ pc' = "planned" /\ seen' = Unseen
  /\ plan' = [key |-> Recovery, role |-> "Meta", force |-> FALSE]
  /\ UNCHANGED <<read, orch, track, session, selfQueue, outer, past, bounds>>

\* completeSelfQueueItem marks the first line that holds the text STEP=<step>.
\* Mutant: the first line is marked, whatever it says.
Completes_First == {1} \cap DOMAIN selfQueue
Completes == {i \in DOMAIN selfQueue : <<Key, selfQueue[i]>> \in StepMatches}

StudyIdle ==
  LET marked == Phase = "turn_done" /\ entry.token /\ Completes # {}
      i      == LeastOf(Completes)
      items  == IF marked
                THEN SubSeq(selfQueue, 1, i - 1) \o SubSeq(selfQueue, i + 1, Len(selfQueue))
                ELSE selfQueue
  IN  /\ Idle /\ Phase # "turn_incomplete"
      /\ SyncAgentState /\ AuditTurn
      /\ entry' = Unhung(Audited)
      /\ selfQueue' = items
      /\ completed' = IF marked THEN completed \cup {selfQueue[i]} ELSE completed
      /\ Decide(chat, items)
      /\ UNCHANGED <<track, session, outer, prompted, bounds>>

\* cursor.send reads the chat again and asks the loop guard, unless forced; a
\* refusal ends the tick.
Admit ==
  LET d == checkEnqueueLoop(plan.key, chat, {}, orch, track, HistoryTail)
  IN  /\ pc = "planned"
      /\ orch' = IF plan.force THEN orch ELSE d.entry
      /\ IF plan.force \/ d.reason = "none"
         THEN pc' = "admitted" /\ UNCHANGED <<seen, read, plan>>
         ELSE Return
      /\ UNCHANGED <<track, session, selfQueue, entry, agentFile, outer, past, bounds>>

\* Only what the code looks back at is kept of a chat.
Recent(msgs) ==
  LET users == UserAt(msgs)
      old   == {i \in users : Cardinality({j \in users : j > i}) >= RecoveryTail}
  IN  IF old = {} THEN msgs ELSE SubSeq(msgs, Latest(old) + 1, Len(msgs))

\* A prompt reaches the chat and the agent starts on it.
Prompt(key) ==
  /\ ~running
  /\ chat' = Recent(Append(chat, [role |-> "user", key |-> key]))
  /\ running' = TRUE /\ aborted' = FALSE
  /\ reply' = IF key = Keyless THEN reply ELSE "none"
  /\ dones' = IF key = Keyless THEN dones ELSE 0
  /\ prompted' = prompted \cup {key}
  /\ UNCHANGED <<window, completed>>

Land ==
  /\ pc = "admitted"
  /\ session.turns < MaxTurns
  /\ Prompt(plan.key)
  /\ pc' = "landed"
  /\ UNCHANGED <<seen, read, plan, files, queue, bounds>>

\* The window is gone, the agent is running, a person is typing.
Throw ==
  /\ pc = "admitted"
  /\ Return
  /\ UNCHANGED <<files, outer, past, bounds>>

Record ==
  /\ pc = "landed"
  /\ orch' = recordEnqueue(orch, plan.key)
  /\ session' = [turns |-> session.turns + (IF plan.role = "Driver" THEN 1 ELSE 0),
                 role  |-> plan.role]
  /\ entry' = [Blank EXCEPT !.cooling = TRUE, !.token = TRUE]
  /\ Return
  /\ UNCHANGED <<track, selfQueue, agentFile, outer, past, bounds>>

\* The guard is killed, or the answer of CDP is lost after the prompt landed.
Die ==
  /\ pc # "idle"
  /\ Crash
  /\ Return
  /\ UNCHANGED <<files, outer, past>>

\* It is killed with the TURNLOG line written and the key of it not saved.
DieAuditing ==
  /\ Studies /\ AuditsDone
  /\ Crash
  /\ AuditTurn /\ SyncAgentState
  /\ Return
  /\ UNCHANGED <<orch, track, session, selfQueue, entry, outer, prompted, completed>>

Tick == \/ Look \/ FlushServerQueue \/ NoWindow \/ TooSoon
        \/ StudyBusy \/ StudyHung \/ StopHung \/ StudyIncomplete \/ StudyIdle
        \/ Admit \/ Land \/ Record

------------------------------------------------------------------------------
(* The agent, the server, people and time *)

Ends(verdict) ==
  /\ running
  /\ running' = FALSE
  /\ chat' = Append(chat, [role |-> "assistant", key |-> NoKey])
  /\ reply' = IF reply = "ok" THEN "ok" ELSE verdict

\* The step is done, marked done, and the header moved on.
MarkDone(key, header) ==
  LET done == [track EXCEPT !.done = @ \cup {key}]
  IN  track' = IF header /\ PendingSteps(done) # {} /\ track.header # NoKey
               THEN [done EXCEPT !.header = FirstPending(done)] ELSE done

IsStep(key) == \E i \in DOMAIN TrackSteps : TrackSteps[i] = key

\* Asked for a step, the agent does it; asked to recover, it does what is due.
AnswerWell ==
  /\ ~aborted /\ Ends("ok") /\ aborted' = FALSE
  /\ IF IsStep(LastUserKey(chat)) THEN MarkDone(LastUserKey(chat), TRUE)
     ELSE IF LastUserKey(chat) = Recovery /\ PendingSteps(track) # {}
     THEN MarkDone(FirstPending(track), TRUE)
     ELSE UNCHANGED track
  /\ UNCHANGED <<tickvars, orch, session, selfQueue, entry, agentFile, window, queue, past, bounds>>

\* The step is not marked, or the header not moved, or the answer looks
\* unfinished.
AnswerPoorly ==
  /\ ~aborted /\ Event("slip") /\ aborted' = FALSE
  /\ \E verdict \in {"incomplete", "ok"} : Ends(verdict)
  /\ \/ UNCHANGED track
     \/ IsStep(LastUserKey(chat)) /\ MarkDone(LastUserKey(chat), FALSE)
  /\ UNCHANGED <<tickvars, orch, session, selfQueue, entry, agentFile, window, queue, past>>

\* The agent hangs: it shows as busy, and the database calls the turn aborted.
Hang ==
  /\ running /\ ~aborted /\ Event("hang")
  /\ aborted' = TRUE
  /\ UNCHANGED <<tickvars, files, chat, reply, running, window, queue, past>>

\* A person stops it, before or after it has said something.
Stopped ==
  /\ running /\ Event("stop")
  /\ aborted' = TRUE
  /\ \/ Ends("incomplete")
     \/ running' = FALSE /\ UNCHANGED <<chat, reply>>
  /\ UNCHANGED <<tickvars, files, window, queue, past>>

SelfAppend(key) ==
  /\ running /\ Event("self")
  /\ selfQueue' = Append(selfQueue, key)
  /\ UNCHANGED <<tickvars, orch, track, session, entry, agentFile, outer, past>>

Pending == {queue[i] : i \in DOMAIN queue}

\* The agent queues a step for itself at the server, by cursor_enqueue.
AgentQueues(key) ==
  LET d == checkEnqueueLoop(key, chat, Pending, orch, track, HistoryTail)
  IN  /\ running /\ Event("queued")
      /\ d.reason = "none"
      /\ queue' = Append(queue, d.key)
      /\ orch' = recordEnqueue(d.entry, d.key)
      /\ UNCHANGED <<tickvars, track, session, selfQueue, entry, agentFile, chat, reply,
                     running, aborted, window, past>>

\* drainSendQueue of the server, in one step.
ServerDrains ==
  LET d == checkEnqueueLoop(Head(queue), chat, {queue[i] : i \in 2 .. Len(queue)}, orch,
                            track, HistoryTail)
  IN  /\ queue # <<>> /\ window
      /\ d.reason = "none"
      /\ Prompt(Head(queue))
      /\ queue' = Tail(queue)
      /\ orch' = recordEnqueue(d.entry, Head(queue))
      /\ UNCHANGED <<tickvars, track, session, selfQueue, entry, agentFile, bounds>>

Person ==
  /\ Event("person")
  /\ Prompt(Keyless)
  /\ UNCHANGED <<tickvars, files, queue>>

WindowGoes ==
  /\ window /\ Event("away")
  /\ window' = FALSE
  /\ UNCHANGED <<tickvars, files, chat, reply, running, aborted, queue, past>>

WindowReturns ==
  /\ ~window
  /\ window' = TRUE
  /\ UNCHANGED <<tickvars, files, chat, reply, running, aborted, queue, past, bounds>>

\* CR_COOLDOWN_MS, or NO_WINDOW_BACKOFF_MS, has passed.
Elapse ==
  /\ entry.cooling \/ entry.away
  /\ entry' \in {[entry EXCEPT !.cooling = FALSE], [entry EXCEPT !.away = FALSE]}
  /\ entry' # entry
  /\ UNCHANGED <<tickvars, orch, track, session, selfQueue, agentFile, outer, past, bounds>>

Age ==
  /\ orch.age # "old"
  /\ orch' = [orch EXCEPT !.age = IF @ = "fresh" THEN "recent" ELSE "old"]
  /\ UNCHANGED <<tickvars, track, session, selfQueue, entry, agentFile, outer, past, bounds>>

Next == \/ Tick \/ StopFails \/ Throw \/ Die \/ DieAuditing
        \/ AnswerWell \/ AnswerPoorly \/ Hang \/ Stopped
        \/ \E k \in SelfKeys : SelfAppend(k)
        \/ \E k \in AgentKeys : AgentQueues(k)
        \/ ServerDrains \/ Person \/ WindowGoes \/ WindowReturns \/ Elapse \/ Age

Spec == Init /\ [][Next]_vars

(***************************************************************************)
(* loop.sh starts a tick every five minutes, for ever, and each comes to    *)
(* its end: some step of the guard is enabled in every state.  A stop that  *)
(* is tried again and again, and a submission, succeed in the end.  A turn  *)
(* ends, and time passes.  No event and no crash has to happen.  (Weak      *)
(* fairness of the ticks is written out, for TLC's sake.)                   *)
(***************************************************************************)
Fairness ==
  /\ []<>(pc = "looked") /\ []<>(pc = "idle")
  /\ []<>(pc = "stopping") => []<>~running
  /\ SF_vars(Land)
  /\ WF_vars(AnswerWell) /\ WF_vars(ServerDrains)
  /\ WF_vars(WindowReturns) /\ WF_vars(Elapse) /\ WF_vars(Age)

FairSpec == Spec /\ Fairness

------------------------------------------------------------------------------
(* Properties *)

(***************************************************************************)
(* TURNLOG counts a finished turn once, however often a tick finds it       *)
(* finished: the key written last is kept in the guard's state file, which  *)
(* a nudge, a backoff or a hang counted in between rewrites.  Only a guard  *)
(* killed between the line and the file writes it again.                    *)
(***************************************************************************)
AuditedOnce == dones <= 1 + crashes

(***************************************************************************)
(* The guard asks for a step that is done only if the track's header names  *)
(* a done step: every way to a prompt goes through the redirect of done     *)
(* steps, the forced ones as well.                                          *)
(***************************************************************************)
PlansPendingSteps ==
  [][pc # "planned" /\ pc' = "planned" /\ IsStep(plan'.key) =>
       plan'.key \notin track.done \/ track.header \in track.done]_vars

(***************************************************************************)
(* A self-queued item is not marked done before the agent was asked for it. *)
(***************************************************************************)
SelfDoneWasPrompted == completed \subseteq prompted

(***************************************************************************)
(* The track gets done, whatever was stopped, lost, refused, left unmarked  *)
(* or crashed on the way: the guard always finds a prompt that moves the    *)
(* work on.  It is at its wits' end in three states only: a prompt that was *)
(* stopped stays unanswered; a recovery was answered in a way that looks    *)
(* unfinished, and the loop guard refuses the next; the server's queue is   *)
(* not empty, and its head is refused.                                      *)
(***************************************************************************)
Unanswered == chat # <<>> /\ ~LastIsAssistant(chat) /\ ~running
Unfinished == LastIsAssistant(chat) /\ reply = "incomplete" /\ LastUserKey(chat) = Recovery
TrackGetsDone ==
  <>(\/ \A i \in DOMAIN TrackSteps : TrackSteps[i] \in track.done
     \/ [](Unanswered \/ Unfinished \/ queue # <<>>))

(***************************************************************************)
(* An agent that hangs does not hang for ever, unless the server has a      *)
(* prompt queued for it: the guard then asks for a drain, which the busy    *)
(* agent blocks, and never comes to count the hang.                         *)
(***************************************************************************)
HangEnds == (running /\ aborted) ~> (~running \/ ~aborted \/ queue # <<>>)
==============================================================================
