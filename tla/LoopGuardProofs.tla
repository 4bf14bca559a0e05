--------------------------- MODULE LoopGuardProofs ---------------------------
(***************************************************************************)
(* What the loop guard's operators return, for every chat, entry and track: *)
(* the lemmas the proofs about its callers share.                           *)
(***************************************************************************)
EXTENDS LoopGuard, TLAPS, SequenceTheorems, WellFoundedInduction

------------------------------------------------------------------------------
(* Least and greatest numbers *)

LEMMA HasLeast ==
  ASSUME NEW S, S \subseteq Nat, S # {}
  PROVE  \E i \in S : \A j \in S : i <= j
<1>1. PICK x \in S : \A y \in S : ~ (<<y, x>> \in OpToRel(<, Nat))
  BY WFMin, NatLessThanWellFounded
<1>2. \A y \in S : ~ (y < x)
  BY <1>1 DEF OpToRel
<1> QED BY <1>2

LEMMA LatestIsGreatest ==
  ASSUME NEW n \in Nat, NEW S, S \subseteq 1 .. n, S # {}
  PROVE  Latest(S) \in S /\ \A j \in S : j <= Latest(S)
<1> DEFINE Back == {n - i : i \in S}
<1>1. PICK d \in Back : \A e \in Back : d <= e
  <2>1. Back \subseteq Nat
    BY SMT
  <2>2. PICK i \in S : TRUE
    OBVIOUS
  <2>3. n - i \in Back
    OBVIOUS
  <2> HIDE DEF Back
  <2> QED BY <2>1, <2>3, HasLeast
<1>2. PICK i \in S : d = n - i
  BY <1>1
<1>3. \A j \in S : j <= i
  <2> SUFFICES ASSUME NEW j \in S PROVE j <= i
    OBVIOUS
  <2>1. d <= n - j
    BY <1>1
  <2> QED BY <1>2, <2>1
<1>4. \E k \in S : \A j \in S : j <= k
  BY <1>3
<1> QED BY <1>4 DEF Latest

\* The greatest element is one.
LEMMA LatestIs ==
  ASSUME NEW S, S \subseteq Nat, NEW i \in S, \A j \in S : j <= i
  PROVE  Latest(S) = i
<1>1. \A k \in S : (\A j \in S : j <= k) => k = i
  <2> SUFFICES ASSUME NEW k \in S, \A j \in S : j <= k PROVE k = i
    OBVIOUS
  <2>1. i <= k /\ k <= i /\ i \in Nat /\ k \in Nat
    OBVIOUS
  <2> QED BY <2>1
<1>2. \E k \in S : \A j \in S : j <= k
  OBVIOUS
<1> QED BY <1>1, <1>2 DEF Latest

------------------------------------------------------------------------------
(* The track and the entry *)

LEMMA RecordType ==
  ASSUME NEW entry \in Entry, NEW key \in Keys
  PROVE  recordEnqueue(entry, key) \in Entry
BY DEF recordEnqueue, Entry, Ages

LEMMA SyncType ==
  ASSUME NEW entry \in Entry, NEW msgs
  PROVE  syncOrchFromChat(entry, msgs) \in Entry
BY DEF syncOrchFromChat, Entry

LEMMA FirstPendingIs ==
  ASSUME NEW tr, PendingSteps(tr) # {}
  PROVE  \E i \in PendingSteps(tr) : FirstPending(tr) = TrackSteps[i] /\ TrackSteps[i] \in Keys
<1>1. PendingSteps(tr) \subseteq DOMAIN TrackSteps /\ DOMAIN TrackSteps = 1 .. Len(TrackSteps)
  BY TrackAssumption, LenProperties DEF PendingSteps
<1>2. \E i \in PendingSteps(tr) : \A j \in PendingSteps(tr) : i <= j
  <2>1. PendingSteps(tr) \subseteq Nat
    BY <1>1
  <2> QED BY <2>1, HasLeast
<1>3. (CHOOSE i \in PendingSteps(tr) : \A j \in PendingSteps(tr) : i <= j) \in PendingSteps(tr)
  BY <1>2
<1>4. \A i \in PendingSteps(tr) : TrackSteps[i] \in Keys
  BY <1>1, TrackAssumption, ElementOfSeq
<1> QED BY <1>3, <1>4 DEF FirstPending

LEMMA FirstPendingType ==
  ASSUME NEW tr, PendingSteps(tr) # {}
  PROVE  FirstPending(tr) \in Keys
BY FirstPendingIs

\* What a key is redirected to: itself, the step of the header, or one that is
\* pending.
LEMMA AdvanceIs ==
  ASSUME NEW key, NEW tr
  PROVE  \/ /\ advanceIfStepDone(key, tr) = key
            /\ \/ \A i \in DOMAIN TrackSteps : TrackSteps[i] # key
               \/ key \notin tr.done
               \/ PendingSteps(tr) = {}
         \/ advanceIfStepDone(key, tr) = tr.header /\ tr.header # NoKey
         \/ \E i \in PendingSteps(tr) : advanceIfStepDone(key, tr) = TrackSteps[i]
<1>1. CASE /\ \E i \in DOMAIN TrackSteps : TrackSteps[i] = key
           /\ key \in tr.done
           /\ PendingSteps(tr) # {}
  <2>1. advanceIfStepDone(key, tr) = IF tr.header # NoKey THEN tr.header ELSE FirstPending(tr)
    BY <1>1 DEF advanceIfStepDone
  <2> QED BY <1>1, <2>1, FirstPendingIs
<1>2. CASE ~ /\ \E i \in DOMAIN TrackSteps : TrackSteps[i] = key
             /\ key \in tr.done
             /\ PendingSteps(tr) # {}
  BY <1>2 DEF advanceIfStepDone
<1> QED BY <1>1, <1>2

LEMMA AdvanceType ==
  ASSUME NEW key \in Keys, NEW tr \in Track
  PROVE  advanceIfStepDone(key, tr) \in Keys
<1>1. tr.header \in Keys \cup {NoKey}
  BY DEF Track
<1>2. \A i \in PendingSteps(tr) : TrackSteps[i] \in Keys
  BY TrackAssumption, ElementOfSeq, LenProperties DEF PendingSteps
<1> QED BY <1>1, <1>2, AdvanceIs

LEMMA CheckType ==
  ASSUME NEW key \in Keys, NEW msgs, NEW pending, NEW entry \in Entry, NEW tr \in Track, NEW tail
  PROVE  LET d == checkEnqueueLoop(key, msgs, pending, entry, tr, tail)
         IN  /\ d.entry \in Entry
             /\ d.key = advanceIfStepDone(key, tr)
             /\ d.key \in Keys
BY SyncType, AdvanceType DEF checkEnqueueLoop

------------------------------------------------------------------------------
(* The key of the last prompt in a chat *)

KeyedAt(msgs) == {i \in UserAt(msgs) : msgs[i].key # Keyless}

LEMMA KeyedIndices ==
  ASSUME NEW msgs \in Seq(Message)
  PROVE  /\ KeyedAt(msgs) \subseteq UserAt(msgs) /\ UserAt(msgs) \subseteq 1 .. Len(msgs)
         /\ Len(msgs) \in Nat
         /\ \A i \in UserAt(msgs) : msgs[i].key \in Keys \cup {NoKey}
<1>1. Len(msgs) \in Nat /\ DOMAIN msgs = 1 .. Len(msgs)
  BY LenProperties
<1>2. \A i \in UserAt(msgs) : msgs[i] \in Message
  BY <1>1, ElementOfSeq DEF UserAt
<1> QED BY <1>1, <1>2 DEF KeyedAt, UserAt, Message

LEMMA LastKeyFound ==
  ASSUME NEW msgs \in Seq(Message)
  PROVE  \/ KeyedAt(msgs) = {} /\ lastUserPromptKey(msgs) = NoKey
         \/ \E i \in KeyedAt(msgs) : /\ \A j \in KeyedAt(msgs) : j <= i
                                   /\ lastUserPromptKey(msgs) = msgs[i].key
<1>1. CASE KeyedAt(msgs) = {}
  BY <1>1 DEF lastUserPromptKey, KeyedAt
<1>2. CASE KeyedAt(msgs) # {}
  <2>1. Latest(KeyedAt(msgs)) \in KeyedAt(msgs) /\ \A j \in KeyedAt(msgs) : j <= Latest(KeyedAt(msgs))
    BY <1>2, KeyedIndices, LatestIsGreatest
  <2>2. lastUserPromptKey(msgs) = msgs[Latest(KeyedAt(msgs))].key
    BY <1>2 DEF lastUserPromptKey, KeyedAt
  <2> QED BY <2>1, <2>2
<1> QED BY <1>1, <1>2

LEMMA LastKeyType ==
  ASSUME NEW msgs \in Seq(Message)
  PROVE  lastUserPromptKey(msgs) \in Keys \cup {NoKey}
BY LastKeyFound, KeyedIndices

\* The last keyed prompt decides.
LEMMA LastKeyIs ==
  ASSUME NEW msgs \in Seq(Message), NEW i \in KeyedAt(msgs), \A j \in KeyedAt(msgs) : j <= i
  PROVE  lastUserPromptKey(msgs) = msgs[i].key
<1>1. KeyedAt(msgs) \subseteq Nat
  BY KeyedIndices
<1>2. Latest(KeyedAt(msgs)) = i
  BY <1>1, LatestIs
<1> QED BY <1>2 DEF lastUserPromptKey, KeyedAt

\* A message that is no keyed prompt changes nothing; one that is decides.
LEMMA LastKeyOfAppend ==
  ASSUME NEW msgs \in Seq(Message), NEW m \in Message
  PROVE  /\ Append(msgs, m) \in Seq(Message)
         /\ m.role = "assistant" \/ m.key = Keyless =>
              lastUserPromptKey(Append(msgs, m)) = lastUserPromptKey(msgs)
         /\ m.role = "user" /\ m.key # Keyless => lastUserPromptKey(Append(msgs, m)) = m.key
<1> DEFINE more == Append(msgs, m)
<1>1. /\ more \in Seq(Message) /\ Len(msgs) \in Nat /\ Len(more) = Len(msgs) + 1
      /\ \A i \in 1 .. Len(msgs) : more[i] = msgs[i]
      /\ more[Len(msgs) + 1] = m
  BY AppendProperties, LenProperties
<1>2. DOMAIN more = 1 .. (Len(msgs) + 1) /\ DOMAIN msgs = 1 .. Len(msgs)
  BY <1>1, LenProperties
<1> HIDE DEF more
<1>3. \A i \in 1 .. Len(msgs) : i \in KeyedAt(more) <=> i \in KeyedAt(msgs)
  BY <1>1, <1>2 DEF KeyedAt, UserAt
<1>4. KeyedAt(more) \subseteq 1 .. (Len(msgs) + 1) /\ KeyedAt(msgs) \subseteq 1 .. Len(msgs)
  BY <1>2 DEF KeyedAt, UserAt
<1>5. CASE m.role = "user" /\ m.key # Keyless
  <2>1. Len(msgs) + 1 \in KeyedAt(more)
    BY <1>1, <1>2, <1>5 DEF KeyedAt, UserAt
  <2>2. \A j \in KeyedAt(more) : j <= Len(msgs) + 1
    BY <1>1, <1>4
  <2>3. lastUserPromptKey(more) = more[Len(msgs) + 1].key
    BY <1>1, <2>1, <2>2, LastKeyIs
  <2> QED BY <1>1, <1>5, <2>3 DEF more
<1>6. CASE m.role = "assistant" \/ m.key = Keyless
  <2>1. Len(msgs) + 1 \notin KeyedAt(more)
    <3>1. ~ (m.role = "user" /\ m.key # Keyless)
      BY <1>6
    <3> QED BY <1>1, <3>1 DEF KeyedAt, UserAt
  <2>2. KeyedAt(more) = KeyedAt(msgs)
    <3>1. \A i \in KeyedAt(more) : i \in 1 .. Len(msgs)
      <4>1. \A i \in 1 .. (Len(msgs) + 1) : i \in 1 .. Len(msgs) \/ i = Len(msgs) + 1
        BY <1>1
      <4> QED BY <1>4, <2>1, <4>1
    <3> QED BY <1>3, <1>4, <3>1
  <2>3. CASE KeyedAt(msgs) = {}
    <3>1. lastUserPromptKey(msgs) = NoKey /\ lastUserPromptKey(more) = NoKey
      BY <2>2, <2>3 DEF lastUserPromptKey, KeyedAt
    <3>2. ~ (m.role = "user" /\ m.key # Keyless)
      BY <1>6
    <3> QED BY <1>1, <3>1, <3>2 DEF more
  <2>4. CASE KeyedAt(msgs) # {}
    <3>1. PICK i \in KeyedAt(msgs) : /\ \A j \in KeyedAt(msgs) : j <= i
                                   /\ lastUserPromptKey(msgs) = msgs[i].key
      BY <2>4, LastKeyFound
    <3>2. lastUserPromptKey(more) = more[i].key
      BY <1>1, <2>2, <3>1, LastKeyIs
    <3> QED BY <1>1, <1>4, <1>6, <3>1, <3>2 DEF more
  <2> QED BY <2>3, <2>4
<1>7. m.role \in {"user", "assistant"}
  BY DEF Message
<1> QED BY <1>1, <1>5, <1>6, <1>7 DEF more

\* Of a chat cut off at its beginning it is known as long as it is in the rest.
LEMMA LastKeyOfRest ==
  ASSUME NEW msgs \in Seq(Message), NEW m \in 0 .. Len(msgs)
  PROVE  LET rest == SubSeq(msgs, m + 1, Len(msgs))
         IN  /\ rest \in Seq(Message)
             /\ lastUserPromptKey(rest) \in {lastUserPromptKey(msgs), NoKey}
             /\ (\E i \in KeyedAt(msgs) : i > m) =>
                  lastUserPromptKey(rest) = lastUserPromptKey(msgs)
<1> DEFINE rest == SubSeq(msgs, m + 1, Len(msgs))
           n == Len(msgs)
<1>1. n \in Nat /\ DOMAIN msgs = 1 .. n /\ m \in Nat /\ m <= n
  BY LenProperties
<1>2. /\ rest \in Seq(Message) /\ Len(rest) = n - m
      /\ \A i \in 1 .. (n - m) : rest[i] = msgs[i + m]
  <2>1. \A i \in (m + 1) .. Len(msgs) : msgs[i] \in Message
    BY <1>1, ElementOfSeq
  <2>2. m + 1 \in Int /\ Len(msgs) \in Int
    BY <1>1
  <2>3. /\ SubSeq(msgs, m + 1, Len(msgs)) \in Seq(Message)
        /\ Len(SubSeq(msgs, m + 1, Len(msgs))) =
             IF m + 1 <= Len(msgs) THEN Len(msgs) - (m + 1) + 1 ELSE 0
        /\ \A i \in 1 .. (Len(msgs) - (m + 1) + 1) :
             SubSeq(msgs, m + 1, Len(msgs))[i] = msgs[(m + 1) + i - 1]
    BY ONLY <2>1, <2>2, SubSeqProperties
  <2>4. /\ Len(rest) = IF m + 1 <= n THEN n - (m + 1) + 1 ELSE 0
        /\ \A i \in 1 .. (n - (m + 1) + 1) : rest[i] = msgs[(m + 1) + i - 1]
    BY <2>3
  <2>5. rest \in Seq(Message)
    BY <2>3
  <2> HIDE DEF rest, n
  <2>6. \A i \in 1 .. (n - m) : i \in 1 .. (n - (m + 1) + 1) /\ (m + 1) + i - 1 = i + m
    BY <1>1
  <2>7. Len(rest) = n - m
    BY <1>1, <2>4
  <2> QED BY <2>4, <2>5, <2>6, <2>7
<1>3. DOMAIN rest = 1 .. (n - m)
  BY <1>2, LenProperties
<1> HIDE DEF rest
<1>4. \A i \in 1 .. (n - m) : i \in KeyedAt(rest) <=> i + m \in KeyedAt(msgs)
  BY <1>1, <1>2, <1>3 DEF KeyedAt, UserAt
<1>5. KeyedAt(rest) \subseteq 1 .. (n - m) /\ KeyedAt(msgs) \subseteq 1 .. n
  BY <1>1, <1>3 DEF KeyedAt, UserAt
<1>6. CASE \E i \in KeyedAt(msgs) : i > m
  <2>1. PICK i \in KeyedAt(msgs) : /\ \A j \in KeyedAt(msgs) : j <= i
                                 /\ lastUserPromptKey(msgs) = msgs[i].key
    BY <1>6, LastKeyFound
  <2>2. i > m /\ i \in 1 .. n
    BY <1>1, <1>5, <1>6, <2>1
  <2>3. i - m \in 1 .. (n - m) /\ (i - m) + m = i
    BY <1>1, <2>2
  <2>4. i - m \in KeyedAt(rest) /\ rest[i - m] = msgs[i]
    BY <1>2, <1>4, <2>3
  <2>5. \A j \in KeyedAt(rest) : j <= i - m
    <3> SUFFICES ASSUME NEW j \in KeyedAt(rest) PROVE j <= i - m
      OBVIOUS
    <3>1. j \in 1 .. (n - m) /\ j + m <= i
      BY <1>4, <1>5, <2>1
    <3> QED BY <1>1, <2>2, <3>1
  <2>6. lastUserPromptKey(rest) = rest[i - m].key
    BY <1>2, <2>4, <2>5, LastKeyIs
  <2> QED BY <1>2, <2>1, <2>4, <2>6 DEF rest
<1>7. CASE ~ \E i \in KeyedAt(msgs) : i > m
  <2>1. KeyedAt(rest) = {}
    <3> SUFFICES ASSUME NEW j \in KeyedAt(rest) PROVE FALSE
      OBVIOUS
    <3>1. j \in 1 .. (n - m) /\ j + m \in KeyedAt(msgs)
      BY <1>4, <1>5
    <3>2. j + m > m
      BY <1>1, <3>1
    <3> QED BY <1>7, <3>1, <3>2
  <2>2. lastUserPromptKey(rest) = NoKey
    BY <2>1 DEF lastUserPromptKey, KeyedAt
  <2> QED BY <1>2, <1>7, <2>2 DEF rest
<1> QED BY <1>6, <1>7
==============================================================================
