------------------------------ MODULE LoopGuard ------------------------------
(***************************************************************************)
(* The enqueue loop guard: the decision whether a prompt may be sent to a   *)
(* composer, taken from the chat, the texts already queued and one entry    *)
(* per composer of the orchestration state file (cr-orch-state.json).       *)
(*                                                                         *)
(* A prompt is abstracted to its key "ROLE:STEP[:TRACK]", the only thing    *)
(* the guard compares.  Free text has neither ROLE nor STEP: all of it has  *)
(* the one key "?:?", here Keyless.  A message is its role and, for a user  *)
(* message, its key.  The age of an entry is kept by the two thresholds it  *)
(* is compared with: "fresh" (< DEDUP_MS), "recent" (< LOOP_MS), "old".     *)
(***************************************************************************)
EXTENDS Naturals, Sequences, FiniteSets

CONSTANTS Keys,         \* keys of the prompts
          Keyless,      \* the key "?:?" of free text
          NoKey,        \* an absent key
          HistoryTail,  \* user messages looked back at (8)
          LoopRepeat,   \* CR_ENQUEUE_LOOP_MAX
          TrackSteps    \* the numbered Driver steps of the track, in order

ASSUME KeyAssumption == /\ Keyless \in Keys
                        /\ NoKey \notin Keys
ASSUME TailAssumption == HistoryTail \in Nat /\ LoopRepeat \in Nat
ASSUME TrackAssumption == TrackSteps \in Seq(Keys)

Message == [role : {"user", "assistant"}, key : Keys \cup {NoKey}]
Ages    == {"fresh", "recent", "old"}
Entry   == [key : Keys \cup {NoKey}, age : Ages, repeat : Nat]
NoEntry == [key |-> NoKey, age |-> "old", repeat |-> 0]

\* The TRACK file: the steps marked done and the step its header names.
Track == [done : SUBSET Keys, header : Keys \cup {NoKey}]

UserAt(msgs) == {i \in DOMAIN msgs : msgs[i].role = "user"}
Latest(S)    == CHOOSE i \in S : \A j \in S : j <= i

\* The key of the last user message, free text included.
LastUserKey(msgs) ==
  IF UserAt(msgs) = {} THEN NoKey ELSE msgs[Latest(UserAt(msgs))].key

\* The key of the last user message that names a role and a step.
lastUserPromptKey(msgs) ==
  LET keyed == {i \in UserAt(msgs) : msgs[i].key # Keyless}
  IN  IF keyed = {} THEN NoKey ELSE msgs[Latest(keyed)].key

\* How often the key occurs among the last user messages, at most tail of them.
countRecentSameKey(msgs, key, tail) ==
  Cardinality({i \in UserAt(msgs) :
                 /\ msgs[i].key = key
                 /\ Cardinality({j \in UserAt(msgs) : j > i}) < tail})

LastIsAssistant(msgs) == msgs # <<>> /\ msgs[Len(msgs)].role = "assistant"

(***************************************************************************)
(* An answered prompt is no repetition: its counter starts again.           *)
(***************************************************************************)
syncOrchFromChat(entry, msgs) ==
  IF /\ LastIsAssistant(msgs)
     /\ lastUserPromptKey(msgs) # NoKey
     /\ entry.key = lastUserPromptKey(msgs)
  THEN [entry EXCEPT !.repeat = 0]
  ELSE entry

(***************************************************************************)
(* A Driver prompt for a step its track marks done is redirected to the     *)
(* step the track header names, or else to the first pending one.           *)
(***************************************************************************)
PendingSteps(track) == {i \in DOMAIN TrackSteps : TrackSteps[i] \notin track.done}
FirstPending(track) ==
  TrackSteps[CHOOSE i \in PendingSteps(track) : \A j \in PendingSteps(track) : i <= j]

advanceIfStepDone(key, track) ==
  IF /\ \E i \in DOMAIN TrackSteps : TrackSteps[i] = key
     /\ key \in track.done
     /\ PendingSteps(track) # {}
  THEN IF track.header # NoKey THEN track.header ELSE FirstPending(track)
  ELSE key

\* Mutant: an answered prompt may be sent again at once.
checkHistoryAndPending_AnsweredAgain(key, msgs, pending, tail) ==
  IF LastUserKey(msgs) = key /\ ~LastIsAssistant(msgs) THEN "waiting in chat"
  ELSE IF countRecentSameKey(msgs, key, tail) >= 2 THEN "already sent"
  ELSE IF key \in pending THEN "already queued"
  ELSE "none"

\* The reason the chat or the queue refuses the key, "none" if they do not.
checkHistoryAndPending(key, msgs, pending, tail) ==
  IF LastUserKey(msgs) = key
  THEN IF LastIsAssistant(msgs) THEN "already ran" ELSE "waiting in chat"
  ELSE IF countRecentSameKey(msgs, key, tail) >= 2 THEN "already sent"
  ELSE IF key \in pending THEN "already queued"
  ELSE "none"

\* Mutant: the duplicate window never expires.
checkOrchDedup_Forever(key, entry) ==
  IF entry.key # key THEN "none" ELSE "duplicate enqueue"

\* The reason the composer's entry refuses the key.
checkOrchDedup(key, entry) ==
  IF entry.key # key THEN "none"
  ELSE IF entry.age = "fresh" THEN "duplicate enqueue"
  ELSE IF entry.age = "recent" /\ entry.repeat >= LoopRepeat THEN "step loop"
  ELSE "none"

(***************************************************************************)
(* checkEnqueueLoop: the decision, the key of the text it was taken for     *)
(* and the composer's entry as the call leaves it.                          *)
(***************************************************************************)
checkEnqueueLoop(key, msgs, pending, entry, track, tail) ==
  LET synced   == syncOrchFromChat(entry, msgs)
      adjusted == advanceIfStepDone(key, track)
      history  == checkHistoryAndPending(adjusted, msgs, pending, tail)
  IN  [reason |-> IF history # "none" THEN history
                                      ELSE checkOrchDedup(adjusted, synced),
       key    |-> adjusted,
       entry  |-> synced]

\* recordEnqueue: what the composer's entry becomes.
recordEnqueue(entry, key) ==
  [key    |-> key,
   age    |-> "fresh",
   repeat |-> IF entry.key = key THEN entry.repeat + 1 ELSE 0]
==============================================================================
