----------------------------- MODULE SendPipeline -----------------------------
(***************************************************************************)
(* The send pipeline of one process (the server or the MCP process): its    *)
(* CursorModel with the in-memory send queue, the drain that empties it,    *)
(* and the requests that enqueue a prompt or send one directly.             *)
(*                                                                         *)
(* JavaScript runs one of them at a time, but each gives way at every await *)
(* on the CDP connection, so an operation is as many steps as it has        *)
(* stretches between such awaits:                                           *)
(*   enqueueSend    EnqueueAdmit (loop guard) ... EnqueueCommit (push)      *)
(*   send           SendAdmit (loop guard) ... Land ... Return              *)
(*   drainSendQueue DrainBegin (pick) ... DrainTake (remove, loop guard)    *)
(*                  ... Land ... Return (record, pick the next)             *)
(* Around it: the chats, which agents answer in and other processes and     *)
(* people write to; the orchestration entries, which outlive the process;   *)
(* the TRACK files the agents edit; and the time that lets windows expire.  *)
(***************************************************************************)
EXTENDS LoopGuard

CONSTANTS Composers,    \* composer ids prompts are sent to
          Managed,      \* those of AGENT_TARGETS
          Callers,      \* requests that can be in progress at a time
          Drainers,     \* drain calls that can overlap: timer, flush, watchdog
          All,          \* the scope of a drain that names no composer
          None,
          Faults,       \* the faults that may happen
          MaxRequests,  \* bounds the prompts accepted
          MaxOutside,   \* bounds direct sends and prompts of other senders
          MaxFaults     \* bounds the faults

ASSUME ComposerAssumption == Managed \subseteq Composers
ASSUME ActorAssumption == Callers \cap Drainers = {}
ASSUME NoneAssumption ==
  None \notin [id : Nat, composer : Composers, key : Keys, checked : Keys]
ASSUME ScopeAssumption == All \notin Composers
ASSUME BoundAssumption ==
  /\ MaxRequests \in Nat
  /\ MaxOutside \in Nat
  /\ MaxFaults \in Nat
ASSUME FaultAssumption == Faults \subseteq {"ambiguous", "unsent", "restart"}

VARIABLES
  queue,     \* SendQueue.items
  draining,  \* the flag that lets one drain at a time past its first line
  pc,        \* where each actor waits
  load,      \* the prompt each actor works on
  scope,     \* the composer each drain is for, or All
  settling,  \* composers the SendGate saw busy less than SEND_SETTLE_MS ago
  orch,      \* cr-orch-state.json: an entry per composer
  chat,      \* the messages of each composer
  running,   \* composers whose agent is generating
  track,     \* the TRACK file of each managed composer
  nextId,    \* the next prompt id, given in the order of acceptance
  acked,     \* ids the drain counted as sent
  landed,    \* ids whose text reached a chat
  lost,      \* ids a restart of the process dropped
  outside,   \* direct sends and foreign prompts so far
  faults     \* faults so far

memory  == <<queue, draining, pc, load, scope, settling>>
world   == <<orch, chat, running, track>>
history == <<nextId, acked, landed, lost, outside, faults>>
vars    == <<memory, world, history>>

Actors == Callers \cup Drainers
Item   == [id : Nat, composer : Composers, key : Keys]
\* checked: the key the loop guard took its decision for.
Load   == [id : Nat, composer : Composers, key : Keys, checked : Keys]
Scopes == Composers \cup {All}
\* idle; enqueuing and probing await the CDP connection before the queue is
\* touched; sending and landed are the two halves of cdp.sendMessage.
Phases == {"idle", "enqueuing", "probing", "sending", "landed"}

TypeOK ==
  /\ queue \in Seq(Item)
  /\ pc \in [Actors -> Phases]
  /\ load \in [Actors -> Load \cup {None}]
  /\ \A a \in Actors : pc[a] = "idle" <=> load[a] = None
  /\ \A d \in Drainers : pc[d] # "enqueuing"
  /\ \A a \in Callers : pc[a] # "probing"
  /\ draining \in BOOLEAN
  /\ scope \in [Drainers -> Scopes]
  /\ settling \subseteq Composers
  /\ orch \in [Composers -> Entry]
  /\ chat \in [Composers -> Seq(Message)]
  /\ running \subseteq Composers
  /\ track \in [Composers -> Track]
  /\ nextId \in Nat \ {0}
  /\ acked \subseteq Nat /\ landed \subseteq Nat /\ lost \subseteq Nat
  /\ outside \in Nat /\ faults \in Nat

Init ==
  /\ queue = <<>>
  /\ pc = [a \in Actors |-> "idle"]
  /\ load = [a \in Actors |-> None]
  /\ draining = FALSE
  /\ scope = [d \in Drainers |-> All]
  /\ settling = {}
  /\ orch = [c \in Composers |-> NoEntry]
  /\ chat = [c \in Composers |-> <<>>]
  /\ running = {}
  /\ track = [c \in Composers |-> [done |-> {}, header |-> NoKey]]
  /\ nextId = 1
  /\ acked = {} /\ landed = {} /\ lost = {}
  /\ outside = 0 /\ faults = 0

------------------------------------------------------------------------------
(* Helpers *)

Without(q, i) == SubSeq(q, 1, i - 1) \o SubSeq(q, i + 1, Len(q))
Remove(q, id) ==  \* SendQueue.remove
  IF \E i \in DOMAIN q : q[i].id = id
  THEN Without(q, CHOOSE i \in DOMAIN q : q[i].id = id)
  ELSE q

Prompt(l) == [id |-> l.id, composer |-> l.composer, key |-> l.key]
\* Mutants: the prompt goes back to the tail; it is not put back at all.
Unshift_Tail(q, l) == Append(q, Prompt(l))
Unshift_Drop(q, l) == q
Unshift(q, l) == <<Prompt(l)>> \o q  \* SendQueue.unshift

\* pendingTexts: the keys of the composer's queued prompts.
PendingKeys(q, c) == {q[i].key : i \in {j \in DOMAIN q : q[j].composer = c}}

Decide(c, k, q) ==
  checkEnqueueLoop(k, chat[c], PendingKeys(q, c), orch[c], track[c], HistoryTail)

\* The positions a drain may take: its composer's, or those of every
\* composer of AGENT_TARGETS.
Eligible(q, s) == {i \in DOMAIN q : IF s = All THEN q[i].composer \in Managed
                                               ELSE q[i].composer = s}
\* Mutant: the newest prompt is taken first.
First_Newest(S) == CHOOSE i \in S : \A j \in S : j <= i
First(S) == CHOOSE i \in S : \A j \in S : i <= j

\* SendGate: a busy agent is noted, and the gate stays shut until it has
\* been quiet for SEND_SETTLE_MS.
NoteBusy(c) == IF c \in running THEN settling \cup {c} ELSE settling
GateOpen(c) == c \notin running /\ c \notin settling

Goto(a, phase, l) == /\ pc' = [pc EXCEPT ![a] = phase]
                     /\ load' = [load EXCEPT ![a] = l]

\* The end of drainSendQueue, by its finally clause.
EndDrain(d) == /\ Goto(d, "idle", None)
               /\ draining' = FALSE
               /\ scope' = [scope EXCEPT ![d] = All]

\* The loop of drainSendQueue: probe for the next eligible prompt, or end.
PickNext(d, s) ==
  IF Eligible(queue, s) = {}
  THEN EndDrain(d)
  ELSE LET it == queue[First(Eligible(queue, s))]
       IN  /\ Goto(d, "probing", [id |-> it.id, composer |-> it.composer,
                                  key |-> it.key, checked |-> it.key])
           /\ draining' = TRUE
           /\ scope' = [scope EXCEPT ![d] = s]

Fault(f) == /\ f \in Faults
            /\ faults < MaxFaults
            /\ faults' = faults + 1

------------------------------------------------------------------------------
(* enqueueSend *)

EnqueueAdmit(a, c, k) ==
  LET d == Decide(c, k, queue)
  IN  /\ pc[a] = "idle"
      /\ nextId <= MaxRequests
      /\ orch' = [orch EXCEPT ![c] = d.entry]
      /\ IF d.reason = "none"
         THEN Goto(a, "enqueuing", [id |-> 0, composer |-> c,
                                    key |-> d.key, checked |-> d.key])
         ELSE UNCHANGED <<pc, load>>
      /\ UNCHANGED <<queue, draining, scope, settling, chat, running, track,
                     history>>

\* The outcome of canSendNow only decides which of two equal branches runs.
EnqueueCommit(a) ==
  LET l == load[a]
  IN  /\ pc[a] = "enqueuing"
      /\ queue' = Append(queue, [id |-> nextId, composer |-> l.composer,
                                 key |-> l.key])
      /\ orch' = [orch EXCEPT ![l.composer] = recordEnqueue(@, l.key)]
      /\ settling' \in {settling, NoteBusy(l.composer)}
      /\ nextId' = nextId + 1
      /\ Goto(a, "idle", None)
      /\ UNCHANGED <<draining, scope, chat, running, track, acked, landed,
                     lost, outside, faults>>

\* Mutant: the prompt of the failed request is not cleared.
EnqueueAbort_Keeps(a) ==
  /\ pc[a] = "enqueuing"
  /\ Goto(a, "idle", load[a])
  /\ UNCHANGED <<queue, draining, scope, settling, world, history>>

\* No window shows the composer and switching to it fails.
EnqueueAbort(a) ==
  /\ pc[a] = "enqueuing"
  /\ Goto(a, "idle", None)
  /\ UNCHANGED <<queue, draining, scope, settling, world, history>>

(* send, called directly by a request *)

SendAdmit(a, c, k) ==
  LET d == Decide(c, k, queue)
  IN  /\ pc[a] = "idle"
      /\ outside < MaxOutside
      /\ outside' = outside + 1
      /\ orch' = [orch EXCEPT ![c] = d.entry]
      /\ IF d.reason = "none"
         THEN Goto(a, "sending", [id |-> 0, composer |-> c,
                                  key |-> k, checked |-> d.key])
         ELSE UNCHANGED <<pc, load>>
      /\ UNCHANGED <<queue, draining, scope, settling, chat, running, track,
                     nextId, acked, landed, lost, faults>>

(* drainSendQueue: the 2 s timer, /api/send/flush, cursor_send_queue_flush  *)

\* Mutant: drains do not exclude one another.
DrainBegin_Overlap(d, s) ==
  /\ pc[d] = "idle"
  /\ Eligible(queue, s) # {}
  /\ PickNext(d, s)
  /\ UNCHANGED <<queue, settling, world, history>>

\* With another drain in progress, or nothing to do, the call returns at once.
DrainBegin(d, s) ==
  /\ ~draining
  /\ pc[d] = "idle"
  /\ Eligible(queue, s) # {}
  /\ PickNext(d, s)
  /\ UNCHANGED <<queue, settling, world, history>>

\* canSendNow is false (busy, settling, CDP not reachable) or throws.
DrainBlocked(d) ==
  /\ pc[d] = "probing"
  /\ settling' \in {settling, NoteBusy(load[d].composer)}
  /\ EndDrain(d)
  /\ UNCHANGED <<queue, world, history>>

\* canSendNow is true: the prompt leaves the queue and send asks the guard.
DrainTake(d) ==
  LET l        == load[d]
      rest     == Remove(queue, l.id)
      decision == Decide(l.composer, l.key, rest)
  IN  /\ pc[d] = "probing"
      /\ GateOpen(l.composer)
      /\ decision.reason = "none"
      /\ queue' = rest
      /\ orch' = [orch EXCEPT ![l.composer] = decision.entry]
      /\ Goto(d, "sending", [l EXCEPT !.checked = decision.key])
      /\ UNCHANGED <<draining, scope, settling, chat, running, track, history>>

\* Mutant: the loop goes on to the next prompt, which is the refused one again.
DrainRefused_Continues(d) ==
  LET l        == load[d]
      rest     == Remove(queue, l.id)
      decision == Decide(l.composer, l.key, rest)
  IN  /\ pc[d] = "probing"
      /\ GateOpen(l.composer)
      /\ decision.reason # "none"
      /\ queue' = Unshift(rest, l)
      /\ orch' = [orch EXCEPT ![l.composer] = decision.entry]
      /\ UNCHANGED <<draining, pc, load, scope, settling, chat, running, track, history>>

\* The same, but the guard refuses: "send blocked", back to the head.
DrainRefused(d) ==
  LET l        == load[d]
      rest     == Remove(queue, l.id)
      decision == Decide(l.composer, l.key, rest)
  IN  /\ pc[d] = "probing"
      /\ GateOpen(l.composer)
      /\ decision.reason # "none"
      /\ queue' = Unshift(rest, l)
      /\ orch' = [orch EXCEPT ![l.composer] = decision.entry]
      /\ EndDrain(d)
      /\ UNCHANGED <<settling, chat, running, track, history>>

------------------------------------------------------------------------------
(* cdp.sendMessage and what follows it, for a direct send and for the drain *)

\* The text is submitted: it is in the chat and the agent starts on it.
Land(a) ==
  LET l == load[a]
  IN  /\ pc[a] = "sending"
      /\ l.composer \notin running
      /\ chat' = [chat EXCEPT ![l.composer] =
                    Append(@, [role |-> "user", key |-> l.key])]
      /\ running' = running \cup {l.composer}
      /\ landed' = IF a \in Drainers THEN landed \cup {l.id} ELSE landed
      /\ Goto(a, "landed", l)
      /\ UNCHANGED <<queue, draining, scope, settling, orch, track, nextId,
                     acked, lost, outside, faults>>

\* sendMessage returned: record, and the drain goes on to its next prompt.
Acknowledge(a) ==
  LET l == load[a]
  IN  /\ orch' = [orch EXCEPT ![l.composer] = recordEnqueue(@, l.key)]
      /\ \/ /\ a \in Drainers
            /\ acked' = acked \cup {l.id}
            /\ PickNext(a, scope[a])
         \/ /\ a \in Callers
            /\ Goto(a, "idle", None)
            /\ UNCHANGED <<acked, draining, scope>>
      /\ UNCHANGED <<queue, settling, chat, running, track, nextId, landed,
                     lost, outside>>

Return(a) == pc[a] = "landed" /\ Acknowledge(a) /\ UNCHANGED faults

\* A revert modal stood open: it is dismissed with "continue without revert"
\* and sendMessage returns ok before any text was inserted.
ReturnUnsent(a) == pc[a] = "sending" /\ Fault("unsent") /\ Acknowledge(a)

\* A failed send: the drain puts the prompt back at the head and ends.
Abandon(a) ==
  /\ \/ /\ a \in Drainers
        /\ queue' = Unshift(queue, load[a])
        /\ EndDrain(a)
     \/ /\ a \in Callers
        /\ Goto(a, "idle", None)
        /\ UNCHANGED <<queue, draining, scope>>
  /\ UNCHANGED <<settling, world, nextId, acked, landed, lost, outside>>

\* No window, the switch failed, the user is typing, the agent is running.
Throw(a) == pc[a] = "sending" /\ Abandon(a) /\ UNCHANGED faults

\* Submitted, but the answer is lost: CDP timeout, or a modal came up after.
ThrowLate(a) == pc[a] = "landed" /\ Fault("ambiguous") /\ Abandon(a)

\* The process ends and starts again; the files and the chats stay.
Restart ==
  /\ Fault("restart")
  /\ queue' = <<>>
  /\ pc' = [a \in Actors |-> "idle"]
  /\ load' = [a \in Actors |-> None]
  /\ draining' = FALSE
  /\ scope' = [d \in Drainers |-> All]
  /\ settling' = {}
  /\ lost' = (1 .. (nextId - 1)) \ acked
  /\ UNCHANGED <<world, nextId, acked, landed, outside>>

------------------------------------------------------------------------------
(* The agents, the other senders and time *)

\* The agent ends its turn; it may have marked its step done in the TRACK
\* file, with or without moving the header on.
Answer(c) ==
  /\ c \in running
  /\ running' = running \ {c}
  /\ chat' = [chat EXCEPT ![c] = Append(@, [role |-> "assistant", key |-> NoKey])]
  /\ \/ UNCHANGED track
     \/ LET k    == LastUserKey(chat[c])
            done == [track[c] EXCEPT !.done = @ \cup {k}]
        IN  /\ c \in Managed
            /\ \E i \in DOMAIN TrackSteps : TrackSteps[i] = k
            /\ \/ track' = [track EXCEPT ![c] = done]
               \/ /\ PendingSteps(done) # {}
                  /\ track' = [track EXCEPT ![c] =
                                 [done EXCEPT !.header = FirstPending(done)]]
  /\ UNCHANGED <<memory, orch, history>>

\* The agent is stopped before it answers.
Stop(c) ==
  /\ c \in running
  /\ running' = running \ {c}
  /\ UNCHANGED <<memory, orch, chat, track, history>>

\* Another process (guard nudge, MCP) or a person writes to the chat; the
\* processes record what they sent.
Foreign(c, k) ==
  /\ c \notin running
  /\ outside < MaxOutside
  /\ outside' = outside + 1
  /\ running' = running \cup {c}
  /\ chat' = [chat EXCEPT ![c] = Append(@, [role |-> "user", key |-> k])]
  /\ orch' \in {orch, [orch EXCEPT ![c] = recordEnqueue(@, k)]}
  /\ UNCHANGED <<memory, track, nextId, acked, landed, lost, faults>>

Settle(c) ==
  /\ c \in settling
  /\ settling' = settling \ {c}
  /\ UNCHANGED <<queue, draining, pc, load, scope, world, history>>

\* DEDUP_MS, then LOOP_MS, have passed since the entry was written.
Age(c) ==
  /\ orch[c].age # "old"
  /\ orch' = [orch EXCEPT ![c].age = IF @ = "fresh" THEN "recent" ELSE "old"]
  /\ UNCHANGED <<memory, chat, running, track, history>>

------------------------------------------------------------------------------

Request(a) == \E c \in Composers, k \in Keys : EnqueueAdmit(a, c, k) \/ SendAdmit(a, c, k)
Step(a)    == Land(a) \/ Return(a) \/ ReturnUnsent(a) \/ Throw(a) \/ ThrowLate(a)
Drain(d)   == \/ \E s \in Scopes : DrainBegin(d, s)
              \/ DrainBlocked(d) \/ DrainTake(d) \/ DrainRefused(d)
World(c)   == \/ Answer(c) \/ Stop(c) \/ Settle(c) \/ Age(c)
              \/ \E k \in Keys : Foreign(c, k)

Next == \/ \E a \in Callers : Request(a) \/ EnqueueCommit(a) \/ EnqueueAbort(a)
        \/ \E a \in Actors : Step(a)
        \/ \E d \in Drainers : Drain(d)
        \/ Restart
        \/ \E c \in Composers : World(c)

Spec == Init /\ [][Next]_vars

(***************************************************************************)
(* The timer of startSendQueueDrain calls the drain again and again; every  *)
(* await ends, by the reply or by the 15 s CDP timeout; a running agent     *)
(* ends its turn; the clock moves on.  An agent that is idle for a while    *)
(* and a CDP connection that works for a while coincide again and again     *)
(* with a probe, so the drain's successful steps are strongly fair.  No     *)
(* request, no other sender and no fault has to happen.                     *)
(***************************************************************************)
Fairness ==
  /\ WF_vars(\E d \in Drainers : DrainBegin(d, All))
  /\ \A d \in Drainers : /\ SF_vars(DrainTake(d) \/ DrainRefused(d))
                         /\ SF_vars(Land(d))
                         /\ SF_vars(Return(d))
  /\ \A c \in Composers : WF_vars(Answer(c)) /\ WF_vars(Settle(c)) /\ WF_vars(Age(c))

FairSpec == Spec /\ Fairness

------------------------------------------------------------------------------
(* Properties *)

Sending  == {d \in Drainers : pc[d] \in {"sending", "landed"}}
InFlight == {load[d].id : d \in Sending}
Queued   == {queue[i].id : i \in DOMAIN queue}

(***************************************************************************)
(* An accepted prompt is in one place: once in the queue, or in the hands   *)
(* of the drain, never both and never twice.  The drain removes a prompt    *)
(* before it sends it and puts it back if the send fails; only the flag     *)
(* "draining" keeps a second drain from doing the same with the same        *)
(* prompt between the probe and the removal.                                *)
(***************************************************************************)
OneCopy ==
  /\ \A i, j \in DOMAIN queue : queue[i].id = queue[j].id => i = j
  /\ \A d, e \in Sending : load[d].id = load[e].id => d = e
  /\ InFlight \cap Queued = {}

(***************************************************************************)
(* No accepted prompt is forgotten: while the process lives, each one is    *)
(* queued, in flight or acknowledged, whatever fails in between, and what   *)
(* was acknowledged is not queued again.                                    *)
(***************************************************************************)
Conservation ==
  /\ 1 .. (nextId - 1) = Queued \cup InFlight \cup acked \cup lost
  /\ (Queued \cup InFlight) \cap (acked \cup lost) = {}

(***************************************************************************)
(* The prompts of one composer keep the order in which they were accepted:  *)
(* in the queue, and against the one in flight, although a failed prompt    *)
(* leaves the queue and comes back, and a flush of another composer moves   *)
(* its prompt past all others.                                              *)
(***************************************************************************)
FifoPerComposer ==
  /\ \A i, j \in DOMAIN queue :
       i < j /\ queue[i].composer = queue[j].composer => queue[i].id < queue[j].id
  /\ \A d \in Sending, i \in DOMAIN queue :
       queue[i].composer = load[d].composer => load[d].id < queue[i].id

\* The queue implements the mailbox it promises.
Owed == [c \in Composers |->
           {queue[i].id : i \in {j \in DOMAIN queue : queue[j].composer = c}}
           \cup {load[d].id : d \in {e \in Sending : load[e].composer = c}}]
Mailbox == INSTANCE PromptMailbox WITH owed <- Owed, ticket <- nextId
ImplementsMailbox == Mailbox!MailboxSpec

(***************************************************************************)
(* A chat never holds the same prompt twice in a row, so the loop guard's   *)
(* check and the submission, an await apart, act as one.  It needs every    *)
(* prompt to go through the queue of this one process: the drain is serial, *)
(* and a prompt that landed without an answer from CDP is refused when the  *)
(* drain tries it again.                                                    *)
(***************************************************************************)
NoBackToBack ==
  \A c \in Composers : \A i, j \in UserAt(chat[c]) :
    i < j /\ (\A n \in UserAt(chat[c]) : n <= i \/ n >= j)
      => chat[c][i].key # chat[c][j].key

\* A drain comes to its end, whatever CDP does.
DrainEnds == draining ~> ~draining

(***************************************************************************)
(* Every accepted prompt of a managed composer is acknowledged in the end,  *)
(* or lost with the process, unless one that the chat itself refuses stands *)
(* at the head of the queue: the guard's own dedup and loop windows, a busy *)
(* agent and failing sends only delay it.                                   *)
(***************************************************************************)
HistoryBlocked(i) ==
  LET it == queue[i]
  IN  checkHistoryAndPending(advanceIfStepDone(it.key, track[it.composer]),
                             chat[it.composer],
                             PendingKeys(Remove(queue, it.id), it.composer), HistoryTail) # "none"
HeadBlocked == \E i \in Eligible(queue, All) :
                 /\ \A j \in Eligible(queue, All) : i <= j
                 /\ HistoryBlocked(i)
AcknowledgedUnlessBlocked ==
  \A id \in 1 .. MaxRequests :
    (\E i \in DOMAIN queue : queue[i].id = id /\ queue[i].composer \in Managed)
      ~> (id \in acked \cup lost \/ HeadBlocked)

------------------------------------------------------------------------------
(* Claims of the repository's tests and tool descriptions that do not hold  *)

(***************************************************************************)
(* tests/send-queue.test.ts: "enqueue always uses server queue (drain sends *)
(* later)".  Taken at its word: every prompt accepted for a managed         *)
(* composer is sent, or lost with the process.                              *)
(***************************************************************************)
DrainSendsLater ==
  \A id \in 1 .. MaxRequests :
    (\E i \in DOMAIN queue : queue[i].id = id /\ queue[i].composer \in Managed)
      ~> id \in acked \cup lost

(***************************************************************************)
(* tests/cursor/loop-guard.test.ts: "blocks step already in pending queue". *)
(* No two queued prompts of a composer have the same key.                   *)
(***************************************************************************)
NoTwin ==
  \A i, j \in DOMAIN queue :
    queue[i].composer = queue[j].composer /\ queue[i].key = queue[j].key => i = j

(***************************************************************************)
(* tests/send-queue.test.ts: "drain keeps item when send fails".  A prompt  *)
(* whose text never reached the chat is not counted as sent.                *)
(***************************************************************************)
AckedWasLanded == acked \subseteq landed
==============================================================================
