-------------------------- MODULE SendPipelineProofs --------------------------
(***************************************************************************)
(* Proofs about SendPipeline for every value of its constants.              *)
(***************************************************************************)
EXTENDS SendPipeline, LoopGuardProofs

------------------------------------------------------------------------------
(* The least element of a set, and the queue operations *)

(***************************************************************************)
(* First, by which the drain picks a prompt and the guard the first pending *)
(* step, is the least element of a non-empty set of numbers.                *)
(***************************************************************************)
LEMMA FirstIsLeast ==
  ASSUME NEW S, S \subseteq Nat, S # {}
  PROVE  /\ First(S) \in S
         /\ \A j \in S : First(S) <= j
<1>1. PICK x \in S : \A y \in S : ~ (<<y, x>> \in OpToRel(<, Nat))
  BY WFMin, NatLessThanWellFounded
<1>2. \A y \in S : ~ (y < x)
  BY <1>1 DEF OpToRel
<1>3. \A y \in S : x <= y
  BY <1>2
<1> QED
  BY <1>3 DEF First

LEMMA RemovalLemma ==
  ASSUME NEW q \in Seq(Item), NEW i \in DOMAIN q
  PROVE  /\ Without(q, i) \in Seq(Item)
         /\ Len(Without(q, i)) = Len(q) - 1
         /\ \A j \in 1 .. (Len(q) - 1) :
              Without(q, i)[j] = IF j < i THEN q[j] ELSE q[j + 1]
<1> DEFINE a == SubSeq(q, 1, i - 1)
           b == SubSeq(q, i + 1, Len(q))
<1>1. /\ Len(q) \in Nat /\ i \in 1 .. Len(q)
      /\ \A j \in 1 .. Len(q) : q[j] \in Item
  BY LenProperties, ElementOfSeq
<1>2. /\ a \in Seq(Item) /\ Len(a) = i - 1
      /\ \A j \in 1 .. (i - 1) : a[j] = q[j]
  <2>1. \A j \in 1 .. (i - 1) : q[j] \in Item
    BY <1>1
  <2> QED BY <1>1, <2>1, SubSeqProperties
<1>3. /\ b \in Seq(Item) /\ Len(b) = Len(q) - i
      /\ \A j \in 1 .. (Len(q) - i) : b[j] = q[i + j]
  <2>1. \A j \in (i + 1) .. Len(q) : q[j] \in Item
    BY <1>1
  <2> QED BY <1>1, <2>1, SubSeqProperties
<1>4. Without(q, i) = a \o b
  BY DEF Without
<1> HIDE DEF a, b
<1>5. /\ a \o b \in Seq(Item)
      /\ Len(a \o b) = Len(a) + Len(b)
      /\ \A j \in 1 .. (Len(a) + Len(b)) :
           (a \o b)[j] = IF j <= Len(a) THEN a[j] ELSE b[j - Len(a)]
  BY <1>2, <1>3, ConcatProperties
<1>6. \A j \in 1 .. (Len(q) - 1) :
         (a \o b)[j] = IF j < i THEN q[j] ELSE q[j + 1]
  <2> TAKE j \in 1 .. (Len(q) - 1)
  <2>1. CASE j < i
    BY SMTT(20), <2>1, <1>1, <1>2, <1>3, <1>5
  <2>2. CASE ~ (j < i)
    <3>1. /\ j \in 1 .. (Len(a) + Len(b))
          /\ ~ (j <= Len(a))
          /\ j - Len(a) \in 1 .. (Len(q) - i)
          /\ i + (j - Len(a)) = j + 1
      BY SMTT(20), <2>2, <1>1, <1>2, <1>3
    <3>2. (a \o b)[j] = b[j - Len(a)]
      BY <3>1, <1>5
    <3> QED BY <3>1, <3>2, <1>3, <2>2
  <2> QED BY <2>1, <2>2
<1>7. Len(a) + Len(b) = Len(q) - 1
  BY <1>1, <1>2, <1>3
<1> QED BY <1>4, <1>5, <1>6, <1>7

------------------------------------------------------------------------------
(* What an operation on the queue does to its ids and to its order *)

Ids(q)      == {q[i].id : i \in DOMAIN q}
IdsOf(q, c) == {q[i].id : i \in {j \in DOMAIN q : q[j].composer = c}}
Distinct(q) == \A i, j \in DOMAIN q : q[i].id = q[j].id => i = j
Ordered(q)  == \A i, j \in DOMAIN q :
                 i < j /\ q[i].composer = q[j].composer => q[i].id < q[j].id
\* The prompt l is older than every queued one of its composer.
Before(l, q) == \A i \in DOMAIN q : q[i].composer = l.composer => l.id < q[i].id

LEMMA RemoveLemma ==
  ASSUME NEW q \in Seq(Item), Distinct(q), Ordered(q),
         NEW l, NEW i \in DOMAIN q, q[i].id = l.id, q[i].composer = l.composer,
         \A j \in DOMAIN q : q[j].composer = l.composer => i <= j
  PROVE  /\ Remove(q, l.id) \in Seq(Item)
         /\ Distinct(Remove(q, l.id))
         /\ Ordered(Remove(q, l.id))
         /\ Before(l, Remove(q, l.id))
         /\ l.id \notin Ids(Remove(q, l.id))
         /\ Ids(q) = Ids(Remove(q, l.id)) \cup {l.id}
         /\ \A c : IdsOf(q, c) = IdsOf(Remove(q, l.id), c)
                                \cup (IF c = l.composer THEN {l.id} ELSE {})
<1> DEFINE r == Remove(q, l.id)
<1>1. r = Without(q, i)
  <2>1. (CHOOSE j \in DOMAIN q : q[j].id = l.id) = i
    BY DEF Distinct
  <2> QED BY <2>1 DEF Remove
<1>2. /\ r \in Seq(Item)
      /\ Len(r) = Len(q) - 1
      /\ \A j \in 1 .. (Len(q) - 1) : r[j] = IF j < i THEN q[j] ELSE q[j + 1]
  BY <1>1, RemovalLemma
<1> HIDE DEF r
<1>3. /\ Len(q) \in Nat /\ DOMAIN q = 1 .. Len(q) /\ i \in 1 .. Len(q)
      /\ DOMAIN r = 1 .. (Len(q) - 1)
  BY <1>2, LenProperties
<1> DEFINE at(j) == IF j < i THEN j ELSE j + 1
<1>4. \A j \in DOMAIN r : at(j) \in DOMAIN q /\ at(j) # i /\ r[j] = q[at(j)]
  BY <1>2, <1>3
<1>5. \A j, k \in DOMAIN r : (j < k => at(j) < at(k)) /\ (at(j) = at(k) => j = k)
  BY <1>3
<1>6. \A k \in DOMAIN q : k # i => \E j \in DOMAIN r : at(j) = k
  <2> TAKE k \in DOMAIN q
  <2>1. CASE k < i
    <3>1. k \in DOMAIN r /\ at(k) = k
      BY <2>1, <1>3
    <3> QED BY <3>1
  <2>2. CASE k > i
    <3>1. k - 1 \in DOMAIN r /\ at(k - 1) = k
      BY <2>2, <1>3
    <3> QED BY <3>1
  <2> QED BY <2>1, <2>2, <1>3
<1> HIDE DEF at
<1>7. Distinct(r)
  BY <1>4, <1>5 DEF Distinct
<1>8. Ordered(r)
  BY <1>4, <1>5 DEF Ordered
<1>9. Before(l, r)
  <2> SUFFICES ASSUME NEW j \in DOMAIN r, r[j].composer = l.composer
               PROVE  l.id < r[j].id
    BY DEF Before
  <2>1. at(j) \in DOMAIN q /\ at(j) # i /\ r[j] = q[at(j)]
    BY <1>4
  <2>2. i < at(j)
    BY <2>1, <1>3
  <2> QED BY <2>1, <2>2 DEF Ordered
<1>10. l.id \notin Ids(r)
  BY <1>4 DEF Ids, Distinct
<1>11. Ids(q) = Ids(r) \cup {l.id}
  <2>1. Ids(q) \subseteq Ids(r) \cup {l.id}
    BY <1>4, <1>6 DEF Ids
  <2>2. Ids(r) \cup {l.id} \subseteq Ids(q)
    BY <1>4 DEF Ids
  <2> QED BY <2>1, <2>2
<1>12. ASSUME NEW c
       PROVE  IdsOf(q, c) = IdsOf(r, c) \cup (IF c = l.composer THEN {l.id} ELSE {})
  <2>1. IdsOf(q, c) \subseteq IdsOf(r, c) \cup (IF c = l.composer THEN {l.id} ELSE {})
    BY <1>4, <1>6 DEF IdsOf
  <2>2. IdsOf(r, c) \cup (IF c = l.composer THEN {l.id} ELSE {}) \subseteq IdsOf(q, c)
    BY <1>4 DEF IdsOf
  <2> QED BY <2>1, <2>2
<1> QED BY <1>2, <1>7, <1>8, <1>9, <1>10, <1>11, <1>12 DEF r

LEMMA UnshiftLemma ==
  ASSUME NEW q \in Seq(Item), Distinct(q), Ordered(q),
         NEW l \in Load, l.id \notin Ids(q), Before(l, q)
  PROVE  /\ Unshift(q, l) \in Seq(Item)
         /\ Distinct(Unshift(q, l))
         /\ Ordered(Unshift(q, l))
         /\ Ids(Unshift(q, l)) = Ids(q) \cup {l.id}
         /\ \A c : IdsOf(Unshift(q, l), c) = IdsOf(q, c)
                                \cup (IF c = l.composer THEN {l.id} ELSE {})
<1> DEFINE r == Unshift(q, l)
<1>1. Prompt(l) \in Item /\ Prompt(l).id = l.id /\ Prompt(l).composer = l.composer
  BY DEF Load, Item, Prompt
<1>2. /\ r \in Seq(Item) /\ Len(r) = Len(q) + 1 /\ r[1] = Prompt(l)
      /\ \A j \in 2 .. (Len(q) + 1) : r[j] = q[j - 1]
  <2>1. /\ <<Prompt(l)>> \in Seq(Item) /\ Len(<<Prompt(l)>>) = 1
        /\ <<Prompt(l)>>[1] = Prompt(l)
    BY <1>1
  <2>2. Len(q) \in Nat
    BY LenProperties
  <2>3. r = <<Prompt(l)>> \o q
    BY DEF Unshift
  <2> HIDE DEF r
  <2> QED BY <2>1, <2>2, <2>3, ConcatProperties
<1> HIDE DEF r
<1>3. Len(q) \in Nat /\ DOMAIN q = 1 .. Len(q) /\ DOMAIN r = 1 .. (Len(q) + 1)
  BY <1>2, LenProperties
<1>4. \A j \in DOMAIN r : j # 1 => j - 1 \in DOMAIN q /\ r[j] = q[j - 1]
  BY <1>2, <1>3
<1>5. \A j \in DOMAIN q : j + 1 \in DOMAIN r /\ j + 1 # 1 /\ r[j + 1] = q[j]
  BY <1>2, <1>3
<1>6. 1 \in DOMAIN r /\ r[1].id = l.id /\ r[1].composer = l.composer
  BY <1>1, <1>2, <1>3
<1>7. Distinct(r)
  <2> SUFFICES ASSUME NEW j \in DOMAIN r, NEW k \in DOMAIN r, r[j].id = r[k].id
               PROVE  j = k
    BY DEF Distinct
  <2>1. CASE j = 1 \/ k = 1
    BY <2>1, <1>4, <1>6 DEF Ids
  <2>2. CASE j # 1 /\ k # 1
    <3>1. j - 1 = k - 1
      BY <2>2, <1>4 DEF Distinct
    <3> QED BY <3>1, <1>3
  <2> QED BY <2>1, <2>2
<1>8. Ordered(r)
  <2> SUFFICES ASSUME NEW j \in DOMAIN r, NEW k \in DOMAIN r, j < k,
                      r[j].composer = r[k].composer
               PROVE  r[j].id < r[k].id
    BY DEF Ordered
  <2>1. k # 1
    BY <1>3
  <2>2. CASE j = 1
    BY <2>1, <2>2, <1>4, <1>6 DEF Before
  <2>3. CASE j # 1
    <3>1. j - 1 < k - 1
      BY <1>3
    <3> QED BY <2>1, <2>3, <3>1, <1>4 DEF Ordered
  <2> QED BY <2>2, <2>3
<1>9. Ids(r) = Ids(q) \cup {l.id}
  <2>1. Ids(r) \subseteq Ids(q) \cup {l.id}
    BY <1>4, <1>6 DEF Ids
  <2>2. Ids(q) \cup {l.id} \subseteq Ids(r)
    BY <1>5, <1>6 DEF Ids
  <2> QED BY <2>1, <2>2
<1>10. ASSUME NEW c
       PROVE  IdsOf(r, c) = IdsOf(q, c) \cup (IF c = l.composer THEN {l.id} ELSE {})
  <2>1. IdsOf(r, c) \subseteq IdsOf(q, c) \cup (IF c = l.composer THEN {l.id} ELSE {})
    BY <1>4, <1>6 DEF IdsOf
  <2>2. IdsOf(q, c) \cup (IF c = l.composer THEN {l.id} ELSE {}) \subseteq IdsOf(r, c)
    BY <1>5, <1>6 DEF IdsOf
  <2> QED BY <2>1, <2>2
<1> QED BY <1>2, <1>7, <1>8, <1>9, <1>10 DEF r

LEMMA AppendLemma ==
  ASSUME NEW q \in Seq(Item), Distinct(q), Ordered(q),
         NEW it \in Item, \A id \in Ids(q) : id < it.id
  PROVE  /\ Append(q, it) \in Seq(Item)
         /\ Distinct(Append(q, it))
         /\ Ordered(Append(q, it))
         /\ Ids(Append(q, it)) = Ids(q) \cup {it.id}
         /\ \A c : IdsOf(Append(q, it), c) = IdsOf(q, c)
                                \cup (IF c = it.composer THEN {it.id} ELSE {})
<1> DEFINE r == Append(q, it)
<1>1. /\ r \in Seq(Item) /\ Len(r) = Len(q) + 1 /\ r[Len(q) + 1] = it
      /\ \A j \in 1 .. Len(q) : r[j] = q[j]
  BY AppendProperties
<1> HIDE DEF r
<1>2. Len(q) \in Nat /\ DOMAIN q = 1 .. Len(q) /\ DOMAIN r = 1 .. (Len(q) + 1)
  BY <1>1, LenProperties
<1> DEFINE n == Len(q) + 1
<1>3. /\ n \in DOMAIN r /\ r[n] = it
      /\ \A j \in DOMAIN r : j # n => j \in DOMAIN q /\ r[j] = q[j] /\ j < n
      /\ \A j \in DOMAIN q : j \in DOMAIN r /\ r[j] = q[j]
  BY <1>1, <1>2
<1>4. \A j \in DOMAIN q : q[j].id < it.id
  BY DEF Ids
<1>5. \A j \in DOMAIN q : q[j] \in Item
  BY <1>2, ElementOfSeq
<1>6. n \in Nat /\ DOMAIN r = 1 .. n
  BY <1>2
<1> HIDE DEF n
<1>7. Distinct(r)
  BY <1>3, <1>4, <1>5 DEF Distinct, Item
<1>8. Ordered(r)
  <2> SUFFICES ASSUME NEW j \in DOMAIN r, NEW k \in DOMAIN r, j < k,
                      r[j].composer = r[k].composer
               PROVE  r[j].id < r[k].id
    BY DEF Ordered
  <2>1. j # n
    BY <1>3, <1>6
  <2>2. CASE k = n
    BY <2>1, <2>2, <1>3, <1>4
  <2>3. CASE k # n
    BY <2>1, <2>3, <1>3 DEF Ordered
  <2> QED BY <2>2, <2>3
<1>9. Ids(r) = Ids(q) \cup {it.id}
  BY <1>3 DEF Ids
<1>10. ASSUME NEW c
       PROVE  IdsOf(r, c) = IdsOf(q, c) \cup (IF c = it.composer THEN {it.id} ELSE {})
  <2>1. IdsOf(r, c) \subseteq IdsOf(q, c) \cup (IF c = it.composer THEN {it.id} ELSE {})
    BY <1>3 DEF IdsOf
  <2>2. IdsOf(q, c) \cup (IF c = it.composer THEN {it.id} ELSE {}) \subseteq IdsOf(r, c)
    BY <1>3 DEF IdsOf
  <2> QED BY <2>1, <2>2
<1> QED BY <1>1, <1>7, <1>8, <1>9, <1>10 DEF r

------------------------------------------------------------------------------
(* Type correctness *)

LEMMA DecideType ==
  ASSUME TypeOK, NEW c \in Composers, NEW k \in Keys, NEW q
  PROVE  /\ Decide(c, k, q).entry \in Entry
         /\ Decide(c, k, q).key \in Keys
<1>1. orch[c] \in Entry /\ track[c] \in Track
  BY DEF TypeOK
<1>2. syncOrchFromChat(orch[c], chat[c]) \in Entry
  BY <1>1 DEF syncOrchFromChat, Entry
<1> QED BY <1>1, <1>2, AdvanceType DEF Decide, checkEnqueueLoop

\* The part of TypeOK that is about the actors.
ActorsOK ==
  /\ pc \in [Actors -> Phases]
  /\ load \in [Actors -> Load \cup {None}]
  /\ \A a \in Actors : pc[a] = "idle" <=> load[a] = None
  /\ \A d \in Drainers : pc[d] # "enqueuing"
  /\ \A a \in Callers : pc[a] # "probing"

LEMMA GotoIdle ==
  ASSUME ActorsOK, NEW a \in Actors, Goto(a, "idle", None)
  PROVE  ActorsOK'
BY ActorAssumption DEF ActorsOK, Goto, Phases, Actors

LEMMA GotoPhase ==
  ASSUME ActorsOK, NEW a \in Actors, NEW l \in Load,
         NEW phase \in Phases \ {"idle"},
         a \in Drainers => phase # "enqueuing",
         a \in Callers => phase # "probing",
         Goto(a, phase, l)
  PROVE  ActorsOK'
<1>1. l # None
  BY NoneAssumption DEF Load
<1> QED BY <1>1 DEF ActorsOK, Goto, Phases, Actors

LEMMA PickNextType ==
  ASSUME TypeOK, NEW d \in Drainers, NEW s \in Scopes, PickNext(d, s)
  PROVE  /\ ActorsOK'
         /\ draining' \in BOOLEAN
         /\ scope' \in [Drainers -> Scopes]
<1>1. ActorsOK /\ d \in Actors /\ scope \in [Drainers -> Scopes]
  BY DEF TypeOK, ActorsOK, Actors
<1>2. CASE Eligible(queue, s) = {}
  BY <1>1, <1>2, GotoIdle DEF PickNext, EndDrain, Scopes
<1>3. CASE Eligible(queue, s) # {}
  <2> DEFINE it == queue[First(Eligible(queue, s))]
             l  == [id |-> it.id, composer |-> it.composer, key |-> it.key, checked |-> it.key]
  <2>1. it \in Item
    <3>1. queue \in Seq(Item)
      BY DEF TypeOK
    <3>2. Eligible(queue, s) \subseteq 1 .. Len(queue)
      BY <3>1, LenProperties DEF Eligible
    <3>3. First(Eligible(queue, s)) \in Eligible(queue, s)
      <4>1. Eligible(queue, s) \subseteq Nat
        BY <3>2
      <4> QED BY <4>1, <1>3, FirstIsLeast
    <3> QED BY <3>1, <3>2, <3>3, ElementOfSeq
  <2>2. l \in Load
    BY <2>1 DEF Item, Load
  <2>3. Goto(d, "probing", l) /\ draining' = TRUE /\ scope' = [scope EXCEPT ![d] = s]
    BY <1>3 DEF PickNext
  <2> HIDE DEF l
  <2>4. ActorsOK'
    <3>1. d \notin Callers
      BY ActorAssumption
    <3> QED BY <1>1, <2>2, <2>3, <3>1, GotoPhase DEF Phases
  <2> QED BY <1>1, <2>3, <2>4
<1> QED BY <1>2, <1>3

LEMMA RemoveType ==
  ASSUME NEW q \in Seq(Item), NEW id
  PROVE  Remove(q, id) \in Seq(Item)
<1>1. CASE \E i \in DOMAIN q : q[i].id = id
  <2>1. (CHOOSE i \in DOMAIN q : q[i].id = id) \in DOMAIN q
    BY <1>1
  <2> QED BY <1>1, <2>1, RemovalLemma DEF Remove
<1>2. CASE ~ \E i \in DOMAIN q : q[i].id = id
  BY <1>2 DEF Remove
<1> QED BY <1>1, <1>2

LEMMA UnshiftType ==
  ASSUME NEW q \in Seq(Item), NEW l \in Load
  PROVE  Unshift(q, l) \in Seq(Item)
<1>1. Prompt(l) \in Item
  BY DEF Load, Item, Prompt
<1>2. <<Prompt(l)>> \in Seq(Item)
  BY <1>1
<1> QED BY <1>2, ConcatProperties DEF Unshift

\* The last steps of an operation of actor a, which is not idle.
LEMMA BusyLoad ==
  ASSUME TypeOK, NEW a \in Actors, pc[a] # "idle"
  PROVE  load[a] \in Load
BY DEF TypeOK

LEMMA AcknowledgeType ==
  ASSUME TypeOK, NEW a \in Actors, pc[a] # "idle", Acknowledge(a),
         faults' \in Nat
  PROVE  TypeOK'
<1>1. load[a] \in Load
  BY BusyLoad
<1>2. /\ load[a].composer \in Composers /\ load[a].key \in Keys /\ load[a].id \in Nat
  BY <1>1 DEF Load
<1>3. orch' \in [Composers -> Entry]
  BY <1>2, RecordType DEF Acknowledge, TypeOK
<1>4. /\ ActorsOK' /\ draining' \in BOOLEAN /\ scope' \in [Drainers -> Scopes]
      /\ acked' \subseteq Nat
  <2>1. CASE /\ a \in Drainers
             /\ acked' = acked \cup {load[a].id}
             /\ PickNext(a, scope[a])
    <3>1. scope[a] \in Scopes
      BY <2>1 DEF TypeOK
    <3> QED BY <1>2, <2>1, <3>1, PickNextType DEF TypeOK
  <2>2. CASE /\ a \in Callers
             /\ Goto(a, "idle", None)
             /\ UNCHANGED <<acked, draining, scope>>
    <3>1. ActorsOK
      BY DEF TypeOK, ActorsOK
    <3> QED BY <2>2, <3>1, GotoIdle DEF TypeOK
  <2> QED BY <2>1, <2>2 DEF Acknowledge
<1>5. UNCHANGED <<queue, settling, chat, running, track, nextId, landed, lost, outside>>
  BY DEF Acknowledge
<1> QED BY <1>3, <1>4, <1>5 DEF TypeOK, ActorsOK

LEMMA AbandonType ==
  ASSUME TypeOK, NEW a \in Actors, pc[a] # "idle", Abandon(a), faults' \in Nat
  PROVE  TypeOK'
<1>1. load[a] \in Load /\ ActorsOK
  BY BusyLoad DEF TypeOK, ActorsOK
<1>2. /\ ActorsOK' /\ draining' \in BOOLEAN /\ scope' \in [Drainers -> Scopes]
      /\ queue' \in Seq(Item)
  <2>1. CASE /\ a \in Drainers
             /\ queue' = Unshift(queue, load[a])
             /\ EndDrain(a)
    BY <1>1, <2>1, GotoIdle, UnshiftType DEF EndDrain, TypeOK, Scopes
  <2>2. CASE /\ a \in Callers
             /\ Goto(a, "idle", None)
             /\ UNCHANGED <<queue, draining, scope>>
    BY <1>1, <2>2, GotoIdle DEF TypeOK
  <2> QED BY <2>1, <2>2 DEF Abandon
<1>3. UNCHANGED <<settling, world, nextId, acked, landed, lost, outside>>
  BY DEF Abandon
<1> QED BY <1>2, <1>3 DEF TypeOK, ActorsOK, world

LEMMA InitType == Init => TypeOK
<1> SUFFICES ASSUME Init PROVE TypeOK
  OBVIOUS
<1>1. NoEntry \in Entry /\ [done |-> {}, header |-> NoKey] \in Track
  BY DEF NoEntry, Entry, Ages, Track
<1>2. <<>> \in Seq(Item) /\ <<>> \in Seq(Message)
  BY EmptySeq
<1>3. ActorsOK
  BY DEF Init, ActorsOK, Phases, Actors
<1>4. scope \in [Drainers -> Scopes] /\ queue \in Seq(Item) /\ draining \in BOOLEAN
  BY <1>2 DEF Init, Scopes
<1>5. /\ orch \in [Composers -> Entry]
      /\ chat \in [Composers -> Seq(Message)]
      /\ track \in [Composers -> Track]
      /\ settling \subseteq Composers /\ running \subseteq Composers
  BY <1>1, <1>2 DEF Init
<1>6. /\ nextId \in Nat \ {0} /\ acked \subseteq Nat /\ landed \subseteq Nat
      /\ lost \subseteq Nat /\ outside \in Nat /\ faults \in Nat
  BY DEF Init
<1> QED BY <1>3, <1>4, <1>5, <1>6 DEF TypeOK, ActorsOK

LEMMA RequestType ==
  ASSUME TypeOK, NEW a \in Callers, NEW c \in Composers, NEW k \in Keys,
         EnqueueAdmit(a, c, k) \/ SendAdmit(a, c, k)
  PROVE  TypeOK'
<1> DEFINE d == Decide(c, k, queue)
<1>1. d.entry \in Entry /\ d.key \in Keys
  BY DecideType
<1>2. a \in Actors /\ a \notin Drainers /\ ActorsOK
  BY ActorAssumption DEF Actors, TypeOK, ActorsOK
<1> HIDE DEF d
<1>3. CASE EnqueueAdmit(a, c, k)
  <2>1. orch' \in [Composers -> Entry]
    BY <1>1, <1>3 DEF EnqueueAdmit, TypeOK, d
  <2>2. ActorsOK'
    <3> DEFINE l == [id |-> 0, composer |-> c, key |-> d.key, checked |-> d.key]
    <3>1. l \in Load
      BY <1>1 DEF Load
    <3>2. Goto(a, "enqueuing", l) \/ UNCHANGED <<pc, load>>
      BY <1>3 DEF EnqueueAdmit, d
    <3> HIDE DEF l
    <3>3. CASE Goto(a, "enqueuing", l)
      BY <1>2, <3>1, <3>3, GotoPhase DEF Phases
    <3>4. CASE UNCHANGED <<pc, load>>
      BY <1>2, <3>4 DEF ActorsOK
    <3> QED BY <3>2, <3>3, <3>4
  <2> QED BY <1>3, <2>1, <2>2 DEF EnqueueAdmit, TypeOK, ActorsOK, history
<1>4. CASE SendAdmit(a, c, k)
  <2>1. orch' \in [Composers -> Entry]
    BY <1>1, <1>4 DEF SendAdmit, TypeOK, d
  <2>2. ActorsOK'
    <3> DEFINE l == [id |-> 0, composer |-> c, key |-> k, checked |-> d.key]
    <3>1. l \in Load
      BY <1>1 DEF Load
    <3>2. Goto(a, "sending", l) \/ UNCHANGED <<pc, load>>
      BY <1>4 DEF SendAdmit, d
    <3> HIDE DEF l
    <3>3. CASE Goto(a, "sending", l)
      BY <1>2, <3>1, <3>3, GotoPhase DEF Phases
    <3>4. CASE UNCHANGED <<pc, load>>
      BY <1>2, <3>4 DEF ActorsOK
    <3> QED BY <3>2, <3>3, <3>4
  <2>3. outside' \in Nat
    BY <1>4 DEF SendAdmit, TypeOK
  <2> QED BY <1>4, <2>1, <2>2, <2>3 DEF SendAdmit, TypeOK, ActorsOK
<1> QED BY <1>3, <1>4

LEMMA EnqueueType ==
  ASSUME TypeOK, NEW a \in Callers, EnqueueCommit(a) \/ EnqueueAbort(a)
  PROVE  TypeOK'
<1>1. a \in Actors /\ ActorsOK
  BY DEF Actors, TypeOK, ActorsOK
<1>2. CASE EnqueueCommit(a)
  <2>1. load[a] \in Load
    BY <1>1, <1>2, BusyLoad DEF EnqueueCommit
  <2>2. load[a].composer \in Composers /\ load[a].key \in Keys
    BY <2>1 DEF Load
  <2>3. queue' \in Seq(Item)
    <3>1. [id |-> nextId, composer |-> load[a].composer, key |-> load[a].key] \in Item
      BY <2>2 DEF Item, TypeOK
    <3> QED BY <1>2, <3>1, AppendProperties DEF EnqueueCommit, TypeOK
  <2>4. orch' \in [Composers -> Entry]
    BY <1>2, <2>2, RecordType DEF EnqueueCommit, TypeOK
  <2>5. settling' \subseteq Composers
    BY <1>2, <2>2 DEF EnqueueCommit, NoteBusy, TypeOK
  <2>6. nextId' \in Nat \ {0}
    BY <1>2 DEF EnqueueCommit, TypeOK
  <2>7. ActorsOK'
    BY <1>1, <1>2, GotoIdle DEF EnqueueCommit
  <2> QED BY <1>2, <2>3, <2>4, <2>5, <2>6, <2>7 DEF EnqueueCommit, TypeOK, ActorsOK
<1>3. CASE EnqueueAbort(a)
  <2>1. ActorsOK'
    BY <1>1, <1>3, GotoIdle DEF EnqueueAbort
  <2> QED BY <1>3, <2>1 DEF EnqueueAbort, TypeOK, ActorsOK, world, history
<1> QED BY <1>2, <1>3

LEMMA DrainType ==
  ASSUME TypeOK, NEW d \in Drainers, Drain(d)
  PROVE  TypeOK'
<1>1. d \in Actors /\ d \notin Callers /\ ActorsOK
  BY ActorAssumption DEF Actors, TypeOK, ActorsOK
<1>2. ASSUME NEW s \in Scopes, DrainBegin(d, s)
      PROVE  TypeOK'
  <2>1. ActorsOK' /\ draining' \in BOOLEAN /\ scope' \in [Drainers -> Scopes]
    BY <1>2, PickNextType DEF DrainBegin
  <2> QED BY <1>2, <2>1 DEF DrainBegin, TypeOK, ActorsOK, world, history
<1>3. CASE DrainBlocked(d)
  <2>1. load[d] \in Load
    BY <1>1, <1>3, BusyLoad DEF DrainBlocked
  <2>2. settling' \subseteq Composers
    BY <1>3, <2>1 DEF DrainBlocked, NoteBusy, Load, TypeOK
  <2>3. ActorsOK' /\ draining' \in BOOLEAN /\ scope' \in [Drainers -> Scopes]
    BY <1>1, <1>3, GotoIdle DEF DrainBlocked, EndDrain, TypeOK, Scopes
  <2> QED BY <1>3, <2>2, <2>3 DEF DrainBlocked, TypeOK, ActorsOK, world, history
<1>4. CASE DrainTake(d)
  <2> DEFINE rest == Remove(queue, load[d].id)
             decision == Decide(load[d].composer, load[d].key, rest)
             l == [load[d] EXCEPT !.checked = decision.key]
  <2>1. load[d] \in Load
    BY <1>1, <1>4, BusyLoad DEF DrainTake
  <2>2. load[d].composer \in Composers /\ load[d].key \in Keys
    BY <2>1 DEF Load
  <2>3. decision.entry \in Entry /\ decision.key \in Keys
    BY <2>2, DecideType
  <2>4. rest \in Seq(Item)
    BY RemoveType DEF TypeOK
  <2>5. /\ queue' = rest
        /\ orch' = [orch EXCEPT ![load[d].composer] = decision.entry]
        /\ Goto(d, "sending", l)
        /\ UNCHANGED <<draining, scope, settling, chat, running, track, history>>
    BY <1>4 DEF DrainTake
  <2> HIDE DEF rest, decision
  <2>6. l \in Load
    BY <2>1, <2>3 DEF Load
  <2> HIDE DEF l
  <2>7. ActorsOK'
    BY <1>1, <2>5, <2>6, GotoPhase DEF Phases
  <2>8. orch' \in [Composers -> Entry]
    BY <2>2, <2>3, <2>5 DEF TypeOK
  <2> QED BY <2>4, <2>5, <2>7, <2>8 DEF TypeOK, ActorsOK, history
<1>5. CASE DrainRefused(d)
  <2> DEFINE rest == Remove(queue, load[d].id)
             decision == Decide(load[d].composer, load[d].key, rest)
  <2>1. load[d] \in Load
    BY <1>1, <1>5, BusyLoad DEF DrainRefused
  <2>2. load[d].composer \in Composers /\ load[d].key \in Keys
    BY <2>1 DEF Load
  <2>3. decision.entry \in Entry
    BY <2>2, DecideType
  <2>4. Unshift(rest, load[d]) \in Seq(Item)
    BY <2>1, RemoveType, UnshiftType DEF TypeOK
  <2>5. /\ queue' = Unshift(rest, load[d])
        /\ orch' = [orch EXCEPT ![load[d].composer] = decision.entry]
        /\ EndDrain(d)
        /\ UNCHANGED <<settling, chat, running, track, history>>
    BY <1>5 DEF DrainRefused
  <2> HIDE DEF rest, decision
  <2>6. ActorsOK' /\ draining' \in BOOLEAN /\ scope' \in [Drainers -> Scopes]
    BY <1>1, <2>5, GotoIdle DEF EndDrain, TypeOK, Scopes
  <2>7. orch' \in [Composers -> Entry]
    BY <2>2, <2>3, <2>5 DEF TypeOK
  <2> QED BY <2>4, <2>5, <2>6, <2>7 DEF TypeOK, ActorsOK, history
<1> QED BY <1>2, <1>3, <1>4, <1>5 DEF Drain

LEMMA StepType ==
  ASSUME TypeOK, NEW a \in Actors, Step(a)
  PROVE  TypeOK'
<1>1. CASE Land(a)
  <2>1. load[a] \in Load /\ ActorsOK
    BY <1>1, BusyLoad DEF Land, TypeOK, ActorsOK
  <2>2. load[a].composer \in Composers /\ load[a].key \in Keys /\ load[a].id \in Nat
    BY <2>1 DEF Load
  <2>3. chat' \in [Composers -> Seq(Message)]
    <3>1. [role |-> "user", key |-> load[a].key] \in Message
      BY <2>2 DEF Message
    <3>2. Append(chat[load[a].composer], [role |-> "user", key |-> load[a].key]) \in Seq(Message)
      BY <2>2, <3>1, AppendProperties DEF TypeOK
    <3> QED BY <1>1, <2>2, <3>2 DEF Land, TypeOK
  <2>4. ActorsOK'
    BY <1>1, <2>1, GotoPhase DEF Land, Phases
  <2>5. running' \subseteq Composers /\ landed' \subseteq Nat
    BY <1>1, <2>2 DEF Land, TypeOK
  <2> QED BY <1>1, <2>3, <2>4, <2>5 DEF Land, TypeOK, ActorsOK
<1>2. CASE Return(a)
  BY <1>2, AcknowledgeType DEF Return, TypeOK
<1>3. CASE ReturnUnsent(a)
  BY <1>3, AcknowledgeType DEF ReturnUnsent, Fault, TypeOK
<1>4. CASE Throw(a)
  BY <1>4, AbandonType DEF Throw, TypeOK
<1>5. CASE ThrowLate(a)
  BY <1>5, AbandonType DEF ThrowLate, Fault, TypeOK
<1> QED BY <1>1, <1>2, <1>3, <1>4, <1>5 DEF Step

LEMMA RestartType == ASSUME TypeOK, Restart PROVE TypeOK'
<1>1. queue' \in Seq(Item)
  BY EmptySeq DEF Restart
<1>2. lost' \subseteq Nat
  BY DEF Restart, TypeOK
<1>3. ActorsOK'
  BY DEF Restart, ActorsOK, Phases, Actors
<1>4. scope' \in [Drainers -> Scopes]
  BY DEF Restart, Scopes
<1>5. faults' \in Nat
  BY DEF Restart, Fault, TypeOK
<1> QED BY <1>1, <1>2, <1>3, <1>4, <1>5 DEF Restart, TypeOK, ActorsOK, world

LEMMA WorldType ==
  ASSUME TypeOK, NEW c \in Composers, World(c)
  PROVE  TypeOK'
<1>1. CASE Answer(c)
  <2>1. chat' \in [Composers -> Seq(Message)]
    <3>1. [role |-> "assistant", key |-> NoKey] \in Message
      BY DEF Message
    <3>2. Append(chat[c], [role |-> "assistant", key |-> NoKey]) \in Seq(Message)
      BY <3>1, AppendProperties DEF TypeOK
    <3> QED BY <1>1, <3>2 DEF Answer, TypeOK
  <2>2. track' \in [Composers -> Track]
    <3> DEFINE k == LastUserKey(chat[c])
               done == [track[c] EXCEPT !.done = @ \cup {k}]
    <3>1. \/ UNCHANGED track
          \/ /\ \E i \in DOMAIN TrackSteps : TrackSteps[i] = k
             /\ \/ track' = [track EXCEPT ![c] = done]
                \/ /\ PendingSteps(done) # {}
                   /\ track' = [track EXCEPT ![c] = [done EXCEPT !.header = FirstPending(done)]]
      BY <1>1 DEF Answer
    <3>2. CASE UNCHANGED track
      BY <3>2 DEF TypeOK
    <3>3. ASSUME \E i \in DOMAIN TrackSteps : TrackSteps[i] = k
          PROVE  done \in Track
      <4>1. k \in Keys
        BY <3>3, TrackAssumption, ElementOfSeq, LenProperties
      <4> HIDE DEF k
      <4>2. track[c] \in Track
        BY DEF TypeOK
      <4> QED BY <4>1, <4>2 DEF Track
    <3> HIDE DEF done, k
    <3>4. ASSUME done \in Track, PendingSteps(done) # {}
          PROVE  [done EXCEPT !.header = FirstPending(done)] \in Track
      <4>1. FirstPending(done) \in Keys
        BY <3>4, FirstPendingType
      <4> QED BY <3>4, <4>1 DEF Track
    <3> QED BY <3>1, <3>2, <3>3, <3>4 DEF TypeOK
  <2>3. running' \subseteq Composers
    BY <1>1 DEF Answer, TypeOK
  <2> QED BY <1>1, <2>1, <2>2, <2>3 DEF Answer, TypeOK, memory, history
<1>2. CASE Stop(c)
  BY <1>2 DEF Stop, TypeOK, memory, history
<1>3. CASE Settle(c)
  BY <1>3 DEF Settle, TypeOK, world, history
<1>4. CASE Age(c)
  <2>1. orch' \in [Composers -> Entry]
    BY ZenonT(60), <1>4 DEF Age, TypeOK, Entry, Ages
  <2> QED BY <1>4, <2>1 DEF Age, TypeOK, memory, history
<1>5. ASSUME NEW k \in Keys, Foreign(c, k)
      PROVE  TypeOK'
  <2>1. chat' \in [Composers -> Seq(Message)]
    <3>1. [role |-> "user", key |-> k] \in Message
      BY DEF Message
    <3>2. Append(chat[c], [role |-> "user", key |-> k]) \in Seq(Message)
      BY <3>1, AppendProperties DEF TypeOK
    <3> QED BY <1>5, <3>2 DEF Foreign, TypeOK
  <2>2. orch' \in [Composers -> Entry]
    <3>1. orch[c] \in Entry
      BY DEF TypeOK
    <3>2. recordEnqueue(orch[c], k) \in Entry
      BY <3>1, RecordType
    <3> QED BY <1>5, <3>2 DEF Foreign, TypeOK
  <2>3. running' \subseteq Composers /\ outside' \in Nat
    BY <1>5 DEF Foreign, TypeOK
  <2> QED BY <1>5, <2>1, <2>2, <2>3 DEF Foreign, TypeOK, memory
<1> QED BY <1>1, <1>2, <1>3, <1>4, <1>5 DEF World

LEMMA NextType == ASSUME TypeOK, [Next]_vars PROVE TypeOK'
<1>1. CASE UNCHANGED vars
  BY <1>1 DEF TypeOK, vars, memory, world, history
<1>2. CASE Next
  BY <1>2, RequestType, EnqueueType, DrainType, StepType, RestartType, WorldType
     DEF Next, Request
<1> QED BY <1>1, <1>2

(***************************************************************************)
(* Every state of the pipeline has the types TypeOK states: an actor is     *)
(* idle exactly if it holds no prompt, and the guard's decisions, the       *)
(* redirected key and the recorded entry never leave their domains.         *)
(***************************************************************************)
THEOREM TypeCorrect == Spec => []TypeOK
<1>1. Init => TypeOK
  BY InitType
<1>2. TypeOK /\ [Next]_vars => TypeOK'
  BY NextType
<1> QED BY <1>1, <1>2, PTL DEF Spec

------------------------------------------------------------------------------
(* The inductive invariant *)

\* One drain at a time is past its first line.
Mutex == /\ \A d \in Drainers : pc[d] # "idle" => draining
         /\ \A d, e \in Drainers : pc[d] # "idle" /\ pc[e] # "idle" => d = e

\* The prompt a drain probes for is still in the queue, the first of its composer.
ProbingQueued ==
  \A d \in Drainers : pc[d] = "probing" =>
    \E i \in DOMAIN queue :
      /\ queue[i].id = load[d].id
      /\ queue[i].composer = load[d].composer
      /\ \A j \in DOMAIN queue : queue[j].composer = load[d].composer => i <= j

\* The queue q and the ids S in flight account, with the ids done, for all
\* ids below n.
Accounted(q, S, n, done) ==
  /\ Distinct(q) /\ Ordered(q)
  /\ Ids(q) \cap S = {}
  /\ (Ids(q) \cup S) \cap done = {}
  /\ 1 .. (n - 1) = Ids(q) \cup S \cup done

Ahead == \A d \in Sending : Before(load[d], queue)

Safe == /\ Mutex
        /\ ProbingQueued
        /\ Ahead
        /\ Accounted(queue, InFlight, nextId, acked \cup lost)

LEMMA SafeImplies == Safe => OneCopy /\ Conservation /\ FifoPerComposer
<1> SUFFICES ASSUME Safe PROVE OneCopy /\ Conservation /\ FifoPerComposer
  OBVIOUS
<1>1. Queued = Ids(queue)
  BY DEF Queued, Ids
<1>2. OneCopy
  <2>1. \A d, e \in Sending : d = e
    BY DEF Safe, Mutex, Sending
  <2> QED BY <1>1, <2>1 DEF OneCopy, Safe, Accounted, Distinct
<1>3. Conservation
  BY <1>1 DEF Conservation, Safe, Accounted
<1>4. FifoPerComposer
  BY DEF FifoPerComposer, Safe, Accounted, Ordered, Ahead, Before
<1> QED BY <1>2, <1>3, <1>4

\* A step that leaves the queue and the drains alone; a prompt may land.
LEMMA FrameSafe ==
  ASSUME Safe, UNCHANGED <<queue, draining, nextId, acked, lost>>,
         \A d \in Drainers : /\ load'[d] = load[d]
                             /\ \/ pc'[d] = pc[d]
                                \/ pc[d] = "sending" /\ pc'[d] = "landed"
  PROVE  Safe'
<1>1. Sending' = Sending
  BY DEF Sending
<1>2. InFlight' = InFlight
  BY <1>1 DEF InFlight, Sending
<1>3. Mutex'
  BY DEF Safe, Mutex
<1>4. ProbingQueued'
  BY DEF Safe, ProbingQueued
<1>5. Ahead'
  BY <1>1 DEF Safe, Ahead, Sending
<1> QED BY <1>2, <1>3, <1>4, <1>5 DEF Safe

\* A drain that is not idle is the only one, and what Goto leaves alone.
LEMMA Alone ==
  ASSUME TypeOK, Safe, NEW d \in Drainers, pc[d] # "idle" \/ ~draining,
         NEW phase, NEW l, Goto(d, phase, l)
  PROVE  /\ pc'[d] = phase /\ load'[d] = l
         /\ \A e \in Drainers \ {d} : pc[e] = "idle" /\ pc'[e] = "idle"
<1>1. pc \in [Actors -> Phases] /\ d \in Actors /\ load \in [Actors -> Load \cup {None}]
  BY DEF TypeOK, Actors
<1>2. \A e \in Drainers \ {d} : pc[e] = "idle"
  BY DEF Safe, Mutex
<1> QED BY <1>1, <1>2 DEF Goto, Actors

\* What PickNext does: the drain ends, or it probes for the first of a composer.
LEMMA PickNextSafe ==
  ASSUME TypeOK, Safe, NEW d \in Drainers, pc[d] # "idle" \/ ~draining,
         NEW s \in Scopes, PickNext(d, s), queue' = queue
  PROVE  /\ Mutex' /\ ProbingQueued'
         /\ Sending' = {}
<1>1. CASE Eligible(queue, s) = {}
  <2>1. Goto(d, "idle", None)
    BY <1>1 DEF PickNext, EndDrain
  <2>2. \A e \in Drainers : pc'[e] = "idle"
    BY <2>1, Alone
  <2> QED BY <2>2 DEF Mutex, ProbingQueued, Sending
<1>2. CASE Eligible(queue, s) # {}
  <2> DEFINE i  == First(Eligible(queue, s))
             l  == [id |-> queue[i].id, composer |-> queue[i].composer,
                    key |-> queue[i].key, checked |-> queue[i].key]
  <2>1. Goto(d, "probing", l) /\ draining' = TRUE
    BY <1>2 DEF PickNext
  <2>2. /\ i \in Eligible(queue, s)
        /\ \A j \in Eligible(queue, s) : i <= j
    <3>1. Eligible(queue, s) \subseteq Nat
      BY LenProperties DEF Eligible, TypeOK
    <3> HIDE DEF i
    <3> QED BY <1>2, <3>1, FirstIsLeast DEF i
  <2>3. l.id = queue[i].id /\ l.composer = queue[i].composer
    OBVIOUS
  <2> HIDE DEF i, l
  <2>4. i \in DOMAIN queue
    BY <2>2 DEF Eligible
  <2>5. \A j \in DOMAIN queue : queue[j].composer = l.composer => i <= j
    BY <2>2, <2>3 DEF Eligible
  <2>6. /\ pc'[d] = "probing" /\ load'[d] = l
        /\ \A e \in Drainers \ {d} : pc'[e] = "idle"
    BY <2>1, Alone
  <2>7. Mutex'
    BY <2>1, <2>6 DEF Mutex
  <2>8. ProbingQueued'
    BY <2>3, <2>4, <2>5, <2>6 DEF ProbingQueued
  <2>9. Sending' = {}
    BY <2>6 DEF Sending
  <2> QED BY <2>7, <2>8, <2>9
<1> QED BY <1>1, <1>2

\* The prompt a drain has in flight, and the only one.
LEMMA InFlightOf ==
  ASSUME Safe, NEW d \in Drainers, pc[d] \in {"sending", "landed"}
  PROVE  Sending = {d} /\ InFlight = {load[d].id}
<1>1. Sending = {d}
  BY DEF Safe, Mutex, Sending
<1> QED BY <1>1 DEF InFlight

\* With a drain that is idle or probing, none is in flight.
LEMMA NoneInFlight ==
  ASSUME Safe, NEW d \in Drainers, pc[d] = "probing" \/ ~draining
  PROVE  Sending = {} /\ InFlight = {}
<1>1. Sending = {}
  BY DEF Safe, Mutex, Sending
<1> QED BY <1>1 DEF InFlight

LEMMA CommitSafe ==
  ASSUME TypeOK, Safe, NEW a \in Callers, EnqueueCommit(a)
  PROVE  Safe'
<1> DEFINE it == [id |-> nextId, composer |-> load[a].composer, key |-> load[a].key]
<1>1. a \in Actors /\ a \notin Drainers /\ load[a] \in Load
  BY ActorAssumption, BusyLoad DEF Actors, EnqueueCommit
<1>2. /\ queue' = Append(queue, it) /\ nextId' = nextId + 1
      /\ Goto(a, "idle", None)
      /\ UNCHANGED <<draining, acked, lost>>
  BY DEF EnqueueCommit
<1>3. it \in Item /\ it.id = nextId /\ nextId \in Nat \ {0} /\ queue \in Seq(Item)
  BY <1>1 DEF Load, Item, TypeOK
<1> HIDE DEF it
<1>4. \A d \in Drainers : pc'[d] = pc[d] /\ load'[d] = load[d]
  BY <1>1, <1>2 DEF Goto, TypeOK, Actors
<1>5. \A id \in Ids(queue) \cup InFlight \cup acked \cup lost : id < nextId
  BY <1>3 DEF Safe, Accounted
<1>6. /\ Distinct(queue') /\ Ordered(queue')
      /\ Ids(queue') = Ids(queue) \cup {nextId}
  BY <1>2, <1>3, <1>5, AppendLemma DEF Safe, Accounted
<1>7. Sending' = Sending /\ InFlight' = InFlight
  BY <1>4 DEF Sending, InFlight
<1>8. Accounted(queue', InFlight', nextId', acked' \cup lost')
  <2>1. 1 .. (nextId' - 1) = (1 .. (nextId - 1)) \cup {nextId}
    BY <1>2, <1>3
  <2>2. nextId \notin InFlight \cup acked \cup lost
    BY <1>3, <1>5
  <2> QED BY <1>2, <1>6, <1>7, <2>1, <2>2 DEF Safe, Accounted
<1>9. /\ DOMAIN queue' = 1 .. (Len(queue) + 1) /\ DOMAIN queue = 1 .. Len(queue)
      /\ Len(queue) \in Nat
      /\ queue'[Len(queue) + 1] = it
      /\ \A i \in 1 .. Len(queue) : queue'[i] = queue[i]
  BY <1>2, <1>3, AppendProperties, LenProperties
<1>10. Ahead'
  <2> SUFFICES ASSUME NEW d \in Sending, NEW i \in DOMAIN queue',
                      queue'[i].composer = load[d].composer
               PROVE  load[d].id < queue'[i].id
    BY <1>4, <1>7 DEF Ahead, Before, Sending
  <2>1. CASE i = Len(queue) + 1
    BY <2>1, <1>3, <1>5, <1>9 DEF InFlight
  <2>2. CASE i \in 1 .. Len(queue)
    BY <2>2, <1>9 DEF Safe, Ahead, Before
  <2> QED BY <2>1, <2>2, <1>9
<1>11. ProbingQueued'
  <2> SUFFICES ASSUME NEW d \in Drainers, pc[d] = "probing"
               PROVE  \E i \in DOMAIN queue' :
                        /\ queue'[i].id = load[d].id
                        /\ queue'[i].composer = load[d].composer
                        /\ \A j \in DOMAIN queue' :
                             queue'[j].composer = load[d].composer => i <= j
    BY <1>4 DEF ProbingQueued
  <2>1. PICK i \in DOMAIN queue :
          /\ queue[i].id = load[d].id
          /\ queue[i].composer = load[d].composer
          /\ \A j \in DOMAIN queue : queue[j].composer = load[d].composer => i <= j
    BY DEF Safe, ProbingQueued
  <2>2. \A j \in DOMAIN queue' : queue'[j].composer = load[d].composer => i <= j
    <3> TAKE j \in DOMAIN queue'
    <3>1. CASE j = Len(queue) + 1
      BY <3>1, <1>9
    <3>2. CASE j \in 1 .. Len(queue)
      BY <3>2, <1>9, <2>1
    <3> QED BY <3>1, <3>2, <1>9
  <2> QED BY <1>9, <2>1, <2>2
<1>12. Mutex'
  BY <1>2, <1>4 DEF Safe, Mutex
<1> QED BY <1>8, <1>10, <1>11, <1>12 DEF Safe

\* A drain that probed ends: the queue holds what it held, its prompt first.
LEMMA DrainBeginSafe ==
  ASSUME TypeOK, Safe, NEW d \in Drainers, NEW s \in Scopes, DrainBegin(d, s)
  PROVE  Safe'
<1>1. /\ ~draining /\ PickNext(d, s) /\ queue' = queue
      /\ UNCHANGED <<nextId, acked, lost>>
  BY DEF DrainBegin, history
<1>2. Mutex' /\ ProbingQueued' /\ Sending' = {}
  BY <1>1, PickNextSafe
<1>3. InFlight = {} /\ InFlight' = {}
  BY <1>1, <1>2, NoneInFlight DEF InFlight
<1> QED BY <1>1, <1>2, <1>3 DEF Safe, Ahead

LEMMA DrainBlockedSafe ==
  ASSUME TypeOK, Safe, NEW d \in Drainers, DrainBlocked(d)
  PROVE  Safe'
<1>1. /\ pc[d] = "probing" /\ Goto(d, "idle", None) /\ queue' = queue
      /\ UNCHANGED <<nextId, acked, lost>>
  BY DEF DrainBlocked, EndDrain, history
<1>2. \A e \in Drainers : pc'[e] = "idle"
  BY <1>1, Alone
<1>3. Mutex' /\ ProbingQueued' /\ Sending' = {}
  BY <1>2 DEF Mutex, ProbingQueued, Sending
<1>4. InFlight = {} /\ InFlight' = {}
  BY <1>1, <1>3, NoneInFlight DEF InFlight
<1> QED BY <1>1, <1>3, <1>4 DEF Safe, Ahead

\* Taking the prompt a drain probed for out of the queue.
LEMMA ProbedRemoval ==
  ASSUME TypeOK, Safe, NEW d \in Drainers, pc[d] = "probing"
  PROVE  LET r == Remove(queue, load[d].id)
         IN  /\ r \in Seq(Item) /\ Distinct(r) /\ Ordered(r)
             /\ Before(load[d], r)
             /\ load[d].id \notin Ids(r)
             /\ Ids(queue) = Ids(r) \cup {load[d].id}
             /\ \A c : IdsOf(queue, c) = IdsOf(r, c)
                         \cup (IF c = load[d].composer THEN {load[d].id} ELSE {})
<1>1. PICK i \in DOMAIN queue :
        /\ queue[i].id = load[d].id
        /\ queue[i].composer = load[d].composer
        /\ \A j \in DOMAIN queue : queue[j].composer = load[d].composer => i <= j
  BY DEF Safe, ProbingQueued
<1>2. queue \in Seq(Item) /\ Distinct(queue) /\ Ordered(queue)
  BY DEF TypeOK, Safe, Accounted
<1> QED BY <1>1, <1>2, RemoveLemma

LEMMA DrainTakeSafe ==
  ASSUME TypeOK, Safe, NEW d \in Drainers, DrainTake(d)
  PROVE  Safe'
<1> DEFINE r == Remove(queue, load[d].id)
<1>1. PICK l : /\ l.id = load[d].id /\ l.composer = load[d].composer
               /\ Goto(d, "sending", l)
  <2> DEFINE dk == Decide(load[d].composer, load[d].key, r).key
             l  == [load[d] EXCEPT !.checked = dk]
  <2>1. load[d] \in Load
    BY BusyLoad DEF DrainTake, Actors
  <2>2. l.id = load[d].id /\ l.composer = load[d].composer
    BY <2>1 DEF Load
  <2> QED BY <2>2 DEF DrainTake
<1>2. /\ pc[d] = "probing" /\ queue' = r
      /\ UNCHANGED <<draining, nextId, acked, lost>>
  BY DEF DrainTake, history
<1>3. /\ Distinct(r) /\ Ordered(r) /\ Before(load[d], r) /\ load[d].id \notin Ids(r)
      /\ Ids(queue) = Ids(r) \cup {load[d].id}
  BY <1>2, ProbedRemoval
<1> HIDE DEF r
<1>4. /\ pc'[d] = "sending" /\ load'[d] = l
      /\ \A e \in Drainers \ {d} : pc'[e] = "idle"
  BY <1>1, <1>2, Alone
<1>5. Sending' = {d} /\ InFlight' = {load[d].id} /\ InFlight = {}
  <2>1. Sending' = {d}
    BY <1>4 DEF Sending
  <2> QED BY <2>1, <1>1, <1>2, <1>4, NoneInFlight DEF InFlight
<1>6. Mutex' /\ ProbingQueued'
  BY <1>2, <1>4 DEF Safe, Mutex, ProbingQueued
<1>7. Ahead'
  BY <1>1, <1>2, <1>3, <1>4, <1>5 DEF Ahead, Before
<1>8. Accounted(queue', InFlight', nextId', acked' \cup lost')
  BY <1>2, <1>3, <1>5 DEF Safe, Accounted
<1> QED BY <1>6, <1>7, <1>8 DEF Safe

LEMMA DrainRefusedSafe ==
  ASSUME TypeOK, Safe, NEW d \in Drainers, DrainRefused(d)
  PROVE  Safe'
<1> DEFINE r == Remove(queue, load[d].id)
<1>1. /\ pc[d] = "probing" /\ queue' = Unshift(r, load[d]) /\ Goto(d, "idle", None)
      /\ UNCHANGED <<nextId, acked, lost>>
  BY DEF DrainRefused, EndDrain, history
<1>2. load[d] \in Load
  BY <1>1, BusyLoad DEF Actors
<1>3. /\ r \in Seq(Item) /\ Distinct(r) /\ Ordered(r)
      /\ Before(load[d], r) /\ load[d].id \notin Ids(r)
      /\ Ids(queue) = Ids(r) \cup {load[d].id}
  BY <1>1, ProbedRemoval
<1> HIDE DEF r
<1>4. Distinct(queue') /\ Ordered(queue') /\ Ids(queue') = Ids(queue)
  BY <1>1, <1>2, <1>3, UnshiftLemma
<1>5. \A e \in Drainers : pc'[e] = "idle"
  BY <1>1, Alone
<1>6. Mutex' /\ ProbingQueued' /\ Sending' = {}
  BY <1>5 DEF Mutex, ProbingQueued, Sending
<1>7. InFlight = {} /\ InFlight' = {}
  BY <1>1, <1>6, NoneInFlight DEF InFlight
<1> QED BY <1>1, <1>4, <1>6, <1>7 DEF Safe, Ahead, Accounted

LEMMA AcknowledgeSafe ==
  ASSUME TypeOK, Safe, NEW a \in Actors, pc[a] \in {"sending", "landed"},
         Acknowledge(a)
  PROVE  Safe'
<1>1. UNCHANGED <<queue, nextId, lost>>
  BY DEF Acknowledge
<1>2. CASE /\ a \in Callers
           /\ Goto(a, "idle", None)
           /\ UNCHANGED <<acked, draining, scope>>
  <2>1. \A d \in Drainers : pc'[d] = pc[d] /\ load'[d] = load[d]
    BY <1>2, ActorAssumption DEF Goto, TypeOK, Actors
  <2> QED BY <1>1, <1>2, <2>1, FrameSafe
<1>3. CASE /\ a \in Drainers
           /\ acked' = acked \cup {load[a].id}
           /\ PickNext(a, scope[a])
  <2>1. scope[a] \in Scopes
    BY <1>3 DEF TypeOK
  <2>2. Mutex' /\ ProbingQueued' /\ Sending' = {}
    BY <1>1, <1>3, <2>1, PickNextSafe
  <2>3. InFlight = {load[a].id} /\ InFlight' = {}
    BY <1>3, <2>2, InFlightOf DEF InFlight
  <2>4. Accounted(queue', InFlight', nextId', acked' \cup lost')
    BY <1>1, <1>3, <2>3 DEF Safe, Accounted
  <2> QED BY <2>2, <2>4 DEF Safe, Ahead
<1> QED BY <1>2, <1>3 DEF Acknowledge

LEMMA AbandonSafe ==
  ASSUME TypeOK, Safe, NEW a \in Actors, pc[a] \in {"sending", "landed"},
         Abandon(a)
  PROVE  Safe'
<1>1. UNCHANGED <<nextId, acked, lost>>
  BY DEF Abandon
<1>2. CASE /\ a \in Callers
           /\ Goto(a, "idle", None)
           /\ UNCHANGED <<queue, draining, scope>>
  <2>1. \A d \in Drainers : pc'[d] = pc[d] /\ load'[d] = load[d]
    BY <1>2, ActorAssumption DEF Goto, TypeOK, Actors
  <2> QED BY <1>1, <1>2, <2>1, FrameSafe
<1>3. CASE /\ a \in Drainers
           /\ queue' = Unshift(queue, load[a])
           /\ Goto(a, "idle", None)
  <2>1. Sending = {a} /\ InFlight = {load[a].id} /\ load[a] \in Load
    BY <1>3, InFlightOf, BusyLoad
  <2>2. /\ Distinct(queue) /\ Ordered(queue) /\ Before(load[a], queue)
        /\ load[a].id \notin Ids(queue) /\ queue \in Seq(Item)
    BY <2>1 DEF Safe, Accounted, Ahead, TypeOK
  <2>3. /\ Distinct(queue') /\ Ordered(queue')
        /\ Ids(queue') = Ids(queue) \cup {load[a].id}
    BY <1>3, <2>1, <2>2, UnshiftLemma
  <2>4. \A e \in Drainers : pc'[e] = "idle"
    BY <1>3, Alone
  <2>5. Mutex' /\ ProbingQueued' /\ Sending' = {}
    BY <2>4 DEF Mutex, ProbingQueued, Sending
  <2>6. InFlight' = {}
    BY <2>5 DEF InFlight
  <2> QED BY <1>1, <2>1, <2>3, <2>5, <2>6 DEF Safe, Ahead, Accounted
<1> QED BY <1>2, <1>3 DEF Abandon, EndDrain

LEMMA RestartSafe == ASSUME TypeOK, Safe, Restart PROVE Safe'
<1>1. \A e \in Drainers : pc'[e] = "idle"
  BY DEF Restart, Actors
<1>2. Mutex' /\ ProbingQueued' /\ Sending' = {}
  BY <1>1 DEF Mutex, ProbingQueued, Sending
<1>3. InFlight' = {}
  BY <1>2 DEF InFlight
<1>4. queue' = <<>> /\ Ids(queue') = {} /\ Distinct(queue') /\ Ordered(queue')
  <2>1. queue' = <<>>
    BY DEF Restart
  <2> QED BY <2>1 DEF Ids, Distinct, Ordered
<1>5. 1 .. (nextId' - 1) = acked' \cup lost'
  <2>1. acked \subseteq 1 .. (nextId - 1)
    BY DEF Safe, Accounted
  <2> QED BY <2>1 DEF Restart
<1> QED BY <1>2, <1>3, <1>4, <1>5 DEF Safe, Ahead, Accounted

LEMMA InitSafe == Init => Safe
<1> SUFFICES ASSUME Init PROVE Safe
  OBVIOUS
<1>1. \A d \in Drainers : pc[d] = "idle"
  BY DEF Init, Actors
<1>2. Mutex /\ ProbingQueued /\ Sending = {} /\ InFlight = {}
  BY <1>1 DEF Mutex, ProbingQueued, Sending, InFlight
<1>3. Ids(queue) = {} /\ Distinct(queue) /\ Ordered(queue)
  BY DEF Init, Ids, Distinct, Ordered
<1>4. 1 .. (nextId - 1) = {}
  BY DEF Init
<1> QED BY <1>2, <1>3, <1>4 DEF Init, Safe, Ahead, Accounted

LEMMA NextSafe == ASSUME TypeOK, Safe, [Next]_vars PROVE Safe'
<1>1. ASSUME UNCHANGED <<queue, draining, pc, load, nextId, acked, lost>>
      PROVE  Safe'
  BY <1>1, FrameSafe
<1>2. CASE UNCHANGED vars
  BY <1>1, <1>2 DEF vars, memory, history
<1>3. ASSUME NEW a \in Callers, Request(a) \/ EnqueueAbort(a)
      PROVE  Safe'
  <2>1. \A d \in Drainers : pc'[d] = pc[d] /\ load'[d] = load[d]
    BY <1>3, ActorAssumption
       DEF Request, EnqueueAdmit, SendAdmit, EnqueueAbort, Goto, TypeOK, Actors
  <2>2. UNCHANGED <<queue, draining, nextId, acked, lost>>
    BY <1>3 DEF Request, EnqueueAdmit, SendAdmit, EnqueueAbort, history
  <2> QED BY <2>1, <2>2, FrameSafe
<1>4. ASSUME NEW a \in Callers, EnqueueCommit(a)
      PROVE  Safe'
  BY <1>4, CommitSafe
<1>5. ASSUME NEW a \in Actors, Land(a)
      PROVE  Safe'
  <2>1. \A d \in Drainers : /\ load'[d] = load[d]
                            /\ \/ pc'[d] = pc[d]
                               \/ pc[d] = "sending" /\ pc'[d] = "landed"
    BY <1>5 DEF Land, Goto, TypeOK, Actors
  <2> QED BY <1>5, <2>1, FrameSafe DEF Land
<1>6. ASSUME NEW a \in Actors, Return(a) \/ ReturnUnsent(a)
      PROVE  Safe'
  BY <1>6, AcknowledgeSafe DEF Return, ReturnUnsent
<1>7. ASSUME NEW a \in Actors, Throw(a) \/ ThrowLate(a)
      PROVE  Safe'
  BY <1>7, AbandonSafe DEF Throw, ThrowLate
<1>8. ASSUME NEW d \in Drainers, Drain(d)
      PROVE  Safe'
  BY <1>8, DrainBeginSafe, DrainBlockedSafe, DrainTakeSafe, DrainRefusedSafe DEF Drain
<1>9. ASSUME NEW c \in Composers, World(c)
      PROVE  Safe'
  BY <1>1, <1>9 DEF World, Answer, Stop, Settle, Age, Foreign, memory, history
<1> QED BY <1>2, <1>3, <1>4, <1>5, <1>6, <1>7, <1>8, <1>9, RestartSafe DEF Next, Step

THEOREM SafeAlways == Spec => [](TypeOK /\ Safe)
<1>1. Init => TypeOK /\ Safe
  BY InitType, InitSafe
<1>2. TypeOK /\ Safe /\ [Next]_vars => (TypeOK /\ Safe)'
  BY NextType, NextSafe
<1> QED BY <1>1, <1>2, PTL DEF Spec

(***************************************************************************)
(* An accepted prompt is in one place, once: the flag "draining" is enough  *)
(* to keep two drains, whose probes await CDP, from taking the same prompt. *)
(***************************************************************************)
THEOREM OneCopyAlways == Spec => []OneCopy
BY SafeAlways, SafeImplies, PTL

(***************************************************************************)
(* No accepted prompt is forgotten: it is queued, in flight, acknowledged   *)
(* or lost with the process, and no longer queued once it is acknowledged.  *)
(***************************************************************************)
THEOREM ConservationAlways == Spec => []Conservation
BY SafeAlways, SafeImplies, PTL

(***************************************************************************)
(* The prompts of one composer keep the order of their acceptance, although *)
(* refused and failed ones are put back at the head of the one queue all    *)
(* composers share.                                                         *)
(***************************************************************************)
THEOREM FifoAlways == Spec => []FifoPerComposer
BY SafeAlways, SafeImplies, PTL

------------------------------------------------------------------------------
(* The queue implements the mailbox *)

FlightOf(c) == {load[d].id : d \in {e \in Sending : load[e].composer = c}}

LEMMA OwedIs ==
  /\ Owed = [c \in Composers |-> IdsOf(queue, c) \cup FlightOf(c)]
  /\ Owed' = [c \in Composers |-> IdsOf(queue', c) \cup FlightOf(c)']
BY DEF Owed, IdsOf, FlightOf

\* A step that moves a prompt between the queue and a drain, or does nothing.
LEMMA SameOwed ==
  ASSUME \A c \in Composers : IdsOf(queue', c) \cup FlightOf(c)'
                              = IdsOf(queue, c) \cup FlightOf(c)
  PROVE  Owed' = Owed
BY OwedIs

LEMMA FrameOwed ==
  ASSUME Safe, queue' = queue,
         \A d \in Drainers : /\ load'[d] = load[d]
                             /\ \/ pc'[d] = pc[d]
                                \/ pc[d] = "sending" /\ pc'[d] = "landed"
  PROVE  Owed' = Owed
<1>1. Sending' = Sending
  BY DEF Sending
<1>2. \A c : FlightOf(c)' = FlightOf(c)
  BY <1>1 DEF FlightOf, Sending
<1> QED BY <1>2, SameOwed

\* What the flight holds when no drain, or only drain d, is sending.
LEMMA FlightEmpty ==
  (Sending = {} => \A c : FlightOf(c) = {}) /\ (Sending' = {} => \A c : FlightOf(c)' = {})
BY DEF FlightOf

LEMMA FlightOne ==
  ASSUME NEW d \in Drainers
  PROVE  /\ Sending = {d} =>
              \A c : FlightOf(c) = IF c = load[d].composer THEN {load[d].id} ELSE {}
         /\ Sending' = {d} =>
              \A c : FlightOf(c)' = IF c = load'[d].composer THEN {load'[d].id} ELSE {}
BY DEF FlightOf

LEMMA CommitAccepts ==
  ASSUME TypeOK, Safe, NEW a \in Callers, EnqueueCommit(a)
  PROVE  Mailbox!Accept(load[a].composer) /\ load[a].composer \in Composers
<1> DEFINE it == [id |-> nextId, composer |-> load[a].composer, key |-> load[a].key]
<1>1. a \in Actors /\ a \notin Drainers /\ load[a] \in Load
  BY ActorAssumption, BusyLoad DEF Actors, EnqueueCommit
<1>2. /\ queue' = Append(queue, it) /\ nextId' = nextId + 1 /\ Goto(a, "idle", None)
  BY DEF EnqueueCommit
<1>3. /\ it \in Item /\ it.id = nextId /\ it.composer = load[a].composer
      /\ nextId \in Nat \ {0} /\ queue \in Seq(Item) /\ load[a].composer \in Composers
  BY <1>1 DEF Load, Item, TypeOK
<1> HIDE DEF it
<1>4. \A d \in Drainers : pc'[d] = pc[d] /\ load'[d] = load[d]
  BY <1>1, <1>2 DEF Goto, TypeOK, Actors
<1>5. Sending' = Sending
  BY <1>4 DEF Sending
<1>6. \A c : FlightOf(c)' = FlightOf(c)
  BY <1>4, <1>5 DEF FlightOf, Sending
<1>7. \A id \in Ids(queue) : id < nextId
  BY <1>3 DEF Safe, Accounted
<1>8. \A c : IdsOf(queue', c) = IdsOf(queue, c)
                 \cup (IF c = load[a].composer THEN {nextId} ELSE {})
  BY <1>2, <1>3, <1>7, AppendLemma DEF Safe, Accounted
<1>9. Owed' = [Owed EXCEPT ![load[a].composer] = @ \cup {nextId}]
  BY <1>3, <1>6, <1>8, OwedIs
<1> QED BY <1>2, <1>3, <1>9 DEF Mailbox!Accept

LEMMA DrainKeepsOwed ==
  ASSUME TypeOK, Safe, NEW d \in Drainers, Drain(d)
  PROVE  Owed' = Owed
<1>1. ASSUME NEW s \in Scopes, DrainBegin(d, s)
      PROVE  Owed' = Owed
  <2>1. ~draining /\ PickNext(d, s) /\ queue' = queue
    BY <1>1 DEF DrainBegin
  <2>2. Sending = {} /\ Sending' = {}
    BY <2>1, NoneInFlight, PickNextSafe
  <2> QED BY <2>1, <2>2, FlightEmpty, SameOwed
<1>2. CASE DrainBlocked(d)
  <2>1. pc[d] = "probing" /\ Goto(d, "idle", None) /\ queue' = queue
    BY <1>2 DEF DrainBlocked, EndDrain
  <2>2. \A e \in Drainers : pc'[e] = "idle"
    BY <2>1, Alone
  <2>3. Sending = {} /\ Sending' = {}
    BY <2>1, <2>2, NoneInFlight DEF Sending
  <2> QED BY <2>1, <2>3, FlightEmpty, SameOwed
<1>3. CASE DrainTake(d)
  <2> DEFINE r == Remove(queue, load[d].id)
  <2>1. PICK l : /\ l.id = load[d].id /\ l.composer = load[d].composer
                 /\ Goto(d, "sending", l)
    <3> DEFINE dk == Decide(load[d].composer, load[d].key, r).key
               l  == [load[d] EXCEPT !.checked = dk]
    <3>1. load[d] \in Load
      BY <1>3, BusyLoad DEF DrainTake, Actors
    <3>2. l.id = load[d].id /\ l.composer = load[d].composer
      BY <3>1 DEF Load
    <3> QED BY <1>3, <3>2 DEF DrainTake
  <2>2. pc[d] = "probing" /\ queue' = r
    BY <1>3 DEF DrainTake
  <2>3. /\ pc'[d] = "sending" /\ load'[d] = l
        /\ \A e \in Drainers \ {d} : pc'[e] = "idle"
    BY <2>1, <2>2, Alone
  <2>4. Sending = {} /\ Sending' = {d}
    BY <2>2, <2>3, NoneInFlight DEF Sending
  <2>5. \A c : IdsOf(queue, c) = IdsOf(queue', c)
                 \cup (IF c = load[d].composer THEN {load[d].id} ELSE {})
    BY <2>2, ProbedRemoval
  <2>6. \A c : FlightOf(c)' = IF c = load[d].composer THEN {load[d].id} ELSE {}
    BY <2>1, <2>3, <2>4, FlightOne
  <2>7. \A c : FlightOf(c) = {}
    BY <2>4, FlightEmpty
  <2> HIDE DEF r
  <2> QED BY <2>5, <2>6, <2>7, SameOwed
<1>4. CASE DrainRefused(d)
  <2> DEFINE r == Remove(queue, load[d].id)
  <2>1. pc[d] = "probing" /\ queue' = Unshift(r, load[d]) /\ Goto(d, "idle", None)
    BY <1>4 DEF DrainRefused, EndDrain
  <2>2. load[d] \in Load
    BY <2>1, BusyLoad DEF Actors
  <2>3. /\ r \in Seq(Item) /\ Distinct(r) /\ Ordered(r)
        /\ Before(load[d], r) /\ load[d].id \notin Ids(r)
        /\ \A c : IdsOf(queue, c) = IdsOf(r, c)
                     \cup (IF c = load[d].composer THEN {load[d].id} ELSE {})
    BY <2>1, ProbedRemoval
  <2> HIDE DEF r
  <2>4. \A c : IdsOf(queue', c) = IdsOf(queue, c)
    <3>1. \A c : IdsOf(Unshift(r, load[d]), c) = IdsOf(r, c)
                     \cup (IF c = load[d].composer THEN {load[d].id} ELSE {})
      BY <2>2, <2>3, UnshiftLemma
    <3> QED BY <2>1, <2>3, <3>1
  <2>5. \A e \in Drainers : pc'[e] = "idle"
    BY <2>1, Alone
  <2>6. Sending = {} /\ Sending' = {}
    BY <2>1, <2>5, NoneInFlight DEF Sending
  <2> QED BY <2>4, <2>6, FlightEmpty, SameOwed
<1> QED BY <1>1, <1>2, <1>3, <1>4 DEF Drain

LEMMA AcknowledgeDelivers ==
  ASSUME TypeOK, Safe, NEW a \in Drainers, pc[a] \in {"sending", "landed"},
         PickNext(a, scope[a]), UNCHANGED <<queue, nextId>>
  PROVE  \E c \in Composers : Mailbox!Acknowledge(c)
<1> DEFINE cm == load[a].composer
           id == load[a].id
<1>1. scope[a] \in Scopes /\ load[a] \in Load
  BY BusyLoad DEF TypeOK, Actors
<1>2. cm \in Composers
  BY <1>1 DEF Load
<1>3. Sending = {a} /\ Sending' = {}
  BY <1>1, InFlightOf, PickNextSafe
<1>4. /\ \A c : FlightOf(c) = IF c = cm THEN {id} ELSE {}
      /\ \A c : FlightOf(c)' = {}
  BY <1>3, FlightOne, FlightEmpty
<1>5. /\ id \notin IdsOf(queue, cm)
      /\ \A u \in IdsOf(queue, cm) : id <= u
  <2>1. \A i \in DOMAIN queue : queue[i].composer = cm => id < queue[i].id
    BY <1>3 DEF Safe, Ahead, Before
  <2>2. \A i \in DOMAIN queue : queue[i].id \in Nat /\ id \in Nat
    <3> TAKE i \in DOMAIN queue
    <3>1. queue[i] \in Item
      BY LenProperties, ElementOfSeq DEF TypeOK
    <3> QED BY <1>1, <3>1 DEF Item, Load
  <2> QED BY <2>1, <2>2 DEF IdsOf
<1> HIDE DEF cm, id
<1>6. /\ Owed[cm] = IdsOf(queue, cm) \cup {id}
      /\ Owed' = [Owed EXCEPT ![cm] = @ \ {id}]
  <2>1. Owed[cm] = IdsOf(queue, cm) \cup {id}
    BY <1>2, <1>4, OwedIs
  <2>2. \A c \in Composers : Owed[c] = IdsOf(queue, c) \cup FlightOf(c)
    BY OwedIs
  <2>3. Owed' = [c \in Composers |-> IdsOf(queue, c)]
    BY <1>4, OwedIs
  <2>4. (Owed[cm] \ {id}) = IdsOf(queue, cm)
    BY <1>5, <2>1
  <2>5. \A c \in Composers \ {cm} : Owed[c] = IdsOf(queue, c)
    BY <1>4, <2>2
  <2>6. Owed = [c \in Composers |-> Owed[c]]
    BY OwedIs
  <2> QED BY <1>2, <2>1, <2>3, <2>4, <2>5, <2>6
<1>7. id \in Nat
  BY <1>1 DEF id, Load
<1>8. Mailbox!Acknowledge(cm)
  <2>1. id \in Owed[cm] /\ \A u \in Owed[cm] : id <= u
    BY <1>5, <1>6, <1>7
  <2> QED BY <2>1, <1>6 DEF Mailbox!Acknowledge
<1> QED BY <1>2, <1>8

LEMMA AbandonKeepsOwed ==
  ASSUME TypeOK, Safe, NEW a \in Drainers, pc[a] \in {"sending", "landed"},
         queue' = Unshift(queue, load[a]), Goto(a, "idle", None)
  PROVE  Owed' = Owed
<1>1. Sending = {a} /\ load[a] \in Load
  BY InFlightOf, BusyLoad DEF Actors
<1>2. /\ Distinct(queue) /\ Ordered(queue) /\ Before(load[a], queue)
      /\ load[a].id \notin Ids(queue) /\ queue \in Seq(Item)
  BY <1>1, InFlightOf DEF Safe, Accounted, Ahead, TypeOK
<1>3. \A c : IdsOf(queue', c) = IdsOf(queue, c)
                 \cup (IF c = load[a].composer THEN {load[a].id} ELSE {})
  BY <1>1, <1>2, UnshiftLemma
<1>4. \A e \in Drainers : pc'[e] = "idle"
  BY Alone
<1>5. Sending' = {}
  BY <1>4 DEF Sending
<1> QED BY <1>1, <1>3, <1>5, FlightOne, FlightEmpty, SameOwed

LEMMA RestartForgets ==
  ASSUME TypeOK, Restart
  PROVE  Mailbox!Forget
<1>1. \A e \in Drainers : pc'[e] = "idle"
  BY DEF Restart, Actors
<1>2. Sending' = {}
  BY <1>1 DEF Sending
<1>3. \A c : IdsOf(queue', c) = {}
  BY DEF Restart, IdsOf
<1>4. Owed' = [c \in Composers |-> {}]
  BY <1>2, <1>3, FlightEmpty, OwedIs
<1> QED BY <1>4 DEF Mailbox!Forget, Restart

LEMMA InitEmpty == Init => Mailbox!MailboxInit
<1> SUFFICES ASSUME Init PROVE Mailbox!MailboxInit
  OBVIOUS
<1>1. Sending = {}
  BY DEF Init, Sending, Actors
<1>2. \A c : IdsOf(queue, c) = {}
  BY DEF Init, IdsOf
<1>3. Owed = [c \in Composers |-> {}]
  BY <1>1, <1>2, FlightEmpty, OwedIs
<1> QED BY <1>3 DEF Mailbox!MailboxInit, Init

LEMMA StepImplements ==
  ASSUME TypeOK, Safe, [Next]_vars
  PROVE  [Mailbox!MailboxNext]_(Mailbox!mailbox)
<1> SUFFICES Mailbox!MailboxNext \/ (Owed' = Owed /\ nextId' = nextId)
  BY DEF Mailbox!mailbox
<1>1. ASSUME UNCHANGED <<queue, pc, load, nextId>>
      PROVE  Owed' = Owed /\ nextId' = nextId
  BY <1>1, FrameOwed
<1>2. CASE UNCHANGED vars
  BY <1>1, <1>2 DEF vars, memory, history
<1>3. ASSUME NEW a \in Callers, Request(a) \/ EnqueueAbort(a)
      PROVE  Owed' = Owed /\ nextId' = nextId
  <2>1. \A d \in Drainers : pc'[d] = pc[d] /\ load'[d] = load[d]
    BY <1>3, ActorAssumption
       DEF Request, EnqueueAdmit, SendAdmit, EnqueueAbort, Goto, TypeOK, Actors
  <2>2. queue' = queue /\ nextId' = nextId
    BY <1>3 DEF Request, EnqueueAdmit, SendAdmit, EnqueueAbort, history
  <2> QED BY <2>1, <2>2, FrameOwed
<1>4. ASSUME NEW a \in Callers, EnqueueCommit(a)
      PROVE  Mailbox!MailboxNext
  BY <1>4, CommitAccepts DEF Mailbox!MailboxNext
<1>5. ASSUME NEW a \in Actors, Land(a)
      PROVE  Owed' = Owed /\ nextId' = nextId
  <2>1. \A d \in Drainers : /\ load'[d] = load[d]
                            /\ \/ pc'[d] = pc[d]
                               \/ pc[d] = "sending" /\ pc'[d] = "landed"
    BY <1>5 DEF Land, Goto, TypeOK, Actors
  <2> QED BY <1>5, <2>1, FrameOwed DEF Land
<1>6. ASSUME NEW a \in Actors, Return(a) \/ ReturnUnsent(a)
      PROVE  Mailbox!MailboxNext \/ (Owed' = Owed /\ nextId' = nextId)
  <2>1. pc[a] \in {"sending", "landed"} /\ UNCHANGED <<queue, nextId>>
    BY <1>6 DEF Return, ReturnUnsent, Acknowledge
  <2>2. CASE a \in Drainers /\ PickNext(a, scope[a])
    BY <2>1, <2>2, AcknowledgeDelivers DEF Mailbox!MailboxNext
  <2>3. CASE a \in Callers /\ Goto(a, "idle", None)
    <3>1. \A d \in Drainers : pc'[d] = pc[d] /\ load'[d] = load[d]
      BY <2>3, ActorAssumption DEF Goto, TypeOK, Actors
    <3> QED BY <2>1, <3>1, FrameOwed
  <2> QED BY <1>6, <2>2, <2>3 DEF Return, ReturnUnsent, Acknowledge
<1>7. ASSUME NEW a \in Actors, Throw(a) \/ ThrowLate(a)
      PROVE  Owed' = Owed /\ nextId' = nextId
  <2>1. pc[a] \in {"sending", "landed"} /\ nextId' = nextId
    BY <1>7 DEF Throw, ThrowLate, Abandon
  <2>2. CASE a \in Drainers /\ queue' = Unshift(queue, load[a]) /\ Goto(a, "idle", None)
    BY <2>1, <2>2, AbandonKeepsOwed
  <2>3. CASE a \in Callers /\ Goto(a, "idle", None) /\ queue' = queue
    <3>1. \A d \in Drainers : pc'[d] = pc[d] /\ load'[d] = load[d]
      BY <2>3, ActorAssumption DEF Goto, TypeOK, Actors
    <3> QED BY <2>1, <2>3, <3>1, FrameOwed
  <2> QED BY <1>7, <2>2, <2>3 DEF Throw, ThrowLate, Abandon, EndDrain
<1>8. ASSUME NEW d \in Drainers, Drain(d)
      PROVE  Owed' = Owed /\ nextId' = nextId
  <2>1. nextId' = nextId
    BY <1>8 DEF Drain, DrainBegin, DrainBlocked, DrainTake, DrainRefused, history
  <2> QED BY <1>8, <2>1, DrainKeepsOwed
<1>9. ASSUME NEW c \in Composers, World(c)
      PROVE  Owed' = Owed /\ nextId' = nextId
  BY <1>1, <1>9 DEF World, Answer, Stop, Settle, Age, Foreign, memory, history
<1>10. CASE Restart
  BY <1>10, RestartForgets DEF Mailbox!MailboxNext
<1> QED BY <1>2, <1>3, <1>4, <1>5, <1>6, <1>7, <1>8, <1>9, <1>10 DEF Next, Step

(***************************************************************************)
(* The queue and the drain implement the mailbox: with a prompt owed while  *)
(* it is queued or in flight, every step accepts one prompt, acknowledges   *)
(* the oldest owed to its composer, forgets all at a restart, or stutters.  *)
(***************************************************************************)
THEOREM MailboxImplemented == Spec => ImplementsMailbox
<1>1. Init => Mailbox!MailboxInit
  BY InitEmpty
<1>2. TypeOK /\ Safe /\ [Next]_vars => [Mailbox!MailboxNext]_(Mailbox!mailbox)
  BY StepImplements
<1> QED BY <1>1, <1>2, SafeAlways, PTL DEF Spec, ImplementsMailbox, Mailbox!MailboxSpec


------------------------------------------------------------------------------
(* No prompt twice in a row *)

\* Prompts go through the queue of this process only, and no step is redirected.
QueueOnly == MaxOutside = 0 /\ TrackSteps = <<>>

\* No two successive prompts of a chat have the same key.
Apart(msgs) ==
  \A i, j \in UserAt(msgs) :
    i < j /\ (\A n \in UserAt(msgs) : n <= i \/ n >= j) => msgs[i].key # msgs[j].key

\* What the drain sends is not what was said last; no request sends.
NewsInv ==
  /\ \A c \in Composers : Apart(chat[c])
  /\ \A a \in Callers : pc[a] \notin {"sending", "landed"}
  /\ \A d \in Drainers : pc[d] = "sending" => LastUserKey(chat[load[d].composer]) # load[d].key

\* The prompts of a chat when a message is added.
LEMMA PromptsOfAppend ==
  ASSUME NEW msgs \in Seq(Message), NEW m \in Message
  PROVE  /\ Len(msgs) \in Nat /\ UserAt(msgs) \subseteq 1 .. Len(msgs)
         /\ \A i \in UserAt(msgs) : Append(msgs, m)[i] = msgs[i]
         /\ Append(msgs, m)[Len(msgs) + 1] = m
         /\ UserAt(Append(msgs, m)) =
              IF m.role = "user" THEN UserAt(msgs) \cup {Len(msgs) + 1} ELSE UserAt(msgs)
<1> DEFINE more == Append(msgs, m)
<1>1. /\ Len(msgs) \in Nat /\ Len(more) = Len(msgs) + 1 /\ more \in Seq(Message)
      /\ \A i \in 1 .. Len(msgs) : more[i] = msgs[i]
      /\ more[Len(msgs) + 1] = m
  BY AppendProperties, LenProperties
<1>2. DOMAIN more = 1 .. (Len(msgs) + 1) /\ DOMAIN msgs = 1 .. Len(msgs)
  BY <1>1, LenProperties
<1> HIDE DEF more
<1>3. UserAt(msgs) \subseteq 1 .. Len(msgs)
  BY <1>2 DEF UserAt
<1>4. \A i : i \in 1 .. (Len(msgs) + 1) <=> i \in 1 .. Len(msgs) \/ i = Len(msgs) + 1
  BY <1>1
<1>5. \A i \in 1 .. Len(msgs) : i \in UserAt(more) <=> i \in UserAt(msgs)
  BY <1>1, <1>2, <1>4 DEF UserAt
<1>6. Len(msgs) + 1 \in UserAt(more) <=> m.role = "user"
  BY <1>1, <1>2, <1>4 DEF UserAt
<1>7. \A i \in UserAt(more) : i \in 1 .. Len(msgs) \/ i = Len(msgs) + 1
  BY <1>2, <1>4 DEF UserAt
<1>8. UserAt(more) = IF m.role = "user" THEN UserAt(msgs) \cup {Len(msgs) + 1} ELSE UserAt(msgs)
  <2>1. \A i : i \in UserAt(more) <=> i \in UserAt(msgs) \/ (i = Len(msgs) + 1 /\ m.role = "user")
    BY <1>3, <1>5, <1>6, <1>7
  <2> QED BY <2>1
<1> QED BY <1>1, <1>3, <1>8 DEF more

\* A message that is no prompt changes neither.
LEMMA AnswerKeepsApart ==
  ASSUME NEW msgs \in Seq(Message), NEW m \in Message, m.role = "assistant", Apart(msgs)
  PROVE  Apart(Append(msgs, m)) /\ LastUserKey(Append(msgs, m)) = LastUserKey(msgs)
<1> DEFINE more == Append(msgs, m)
<1>1. /\ Len(msgs) \in Nat /\ UserAt(msgs) \subseteq 1 .. Len(msgs)
      /\ UserAt(more) = UserAt(msgs) /\ \A i \in UserAt(msgs) : more[i] = msgs[i]
  BY PromptsOfAppend
<1> HIDE DEF more
<1>2. Apart(more)
  BY <1>1 DEF Apart
<1>3. CASE UserAt(msgs) = {}
  BY <1>1, <1>2, <1>3 DEF LastUserKey, more
<1>4. CASE UserAt(msgs) # {}
  <2>1. Latest(UserAt(msgs)) \in UserAt(msgs)
    BY <1>1, <1>4, LatestIsGreatest
  <2> QED BY <1>1, <1>2, <1>4, <2>1 DEF LastUserKey, more
<1> QED BY <1>3, <1>4

\* Nor does a prompt that is not the last one again.
LEMMA NewsKeepsApart ==
  ASSUME NEW msgs \in Seq(Message), NEW m \in Message, m.role = "user",
         LastUserKey(msgs) # m.key, Apart(msgs)
  PROVE  Apart(Append(msgs, m))
<1> DEFINE more == Append(msgs, m)
           last == Len(msgs) + 1
<1>1. /\ last \in Nat /\ UserAt(msgs) \subseteq 1 .. (last - 1)
      /\ UserAt(more) = UserAt(msgs) \cup {last}
      /\ \A i \in UserAt(msgs) : more[i] = msgs[i]
      /\ more[last] = m
  <2>1. last \in Nat /\ last - 1 = Len(msgs)
    BY LenProperties
  <2> HIDE DEF last
  <2> QED BY <2>1, PromptsOfAppend DEF last
<1> HIDE DEF more, last
<1>2. last \in Nat /\ \A i \in UserAt(msgs) : i \in Nat /\ i < last
  BY <1>1
<1> SUFFICES ASSUME NEW i \in UserAt(more), NEW j \in UserAt(more), i < j,
                    \A n \in UserAt(more) : n <= i \/ n >= j
             PROVE  more[i].key # more[j].key
  BY DEF Apart, more
<1>3. i \in UserAt(msgs)
  BY <1>1, <1>2
<1>4. CASE j = last
  <2>1. \A n \in UserAt(msgs) : n <= i
    BY <1>1, <1>2, <1>3, <1>4
  <2>2. Latest(UserAt(msgs)) = i
    BY <1>2, <1>3, <2>1, LatestIs
  <2>3. LastUserKey(msgs) = msgs[i].key
    BY <1>3, <2>2 DEF LastUserKey
  <2> QED BY <1>1, <1>3, <1>4, <2>3
<1>5. CASE j \in UserAt(msgs)
  BY <1>1, <1>3, <1>5 DEF Apart
<1> QED BY <1>1, <1>4, <1>5

\* Where no step is redirected, what passes the guard was not said last.
LEMMA AdmittedIsNews ==
  ASSUME QueueOnly, NEW c, NEW k, NEW q, Decide(c, k, q).reason = "none"
  PROVE  LastUserKey(chat[c]) # k
<1>1. DOMAIN TrackSteps = {}
  BY DEF QueueOnly
<1>2. advanceIfStepDone(k, track[c]) = k
  BY <1>1 DEF advanceIfStepDone
<1>3. checkHistoryAndPending(k, chat[c], PendingKeys(q, c), HistoryTail) = "none"
  BY <1>2 DEF Decide, checkEnqueueLoop
<1> QED BY <1>3 DEF checkHistoryAndPending

\* The chats stand still and no drain begins to send.
LEMMA FrameNews ==
  ASSUME NewsInv, chat' = chat,
         \A a \in Callers : pc'[a] \notin {"sending", "landed"},
         \A d \in Drainers : pc'[d] = "sending" => pc[d] = "sending" /\ load'[d] = load[d]
  PROVE  NewsInv'
BY DEF NewsInv

LEMMA NewsStep == ASSUME QueueOnly, TypeOK, Safe, NewsInv, [Next]_vars PROVE NewsInv'
<1>0. /\ pc \in [Actors -> Phases] /\ load \in [Actors -> Load \cup {None}]
      /\ chat \in [Composers -> Seq(Message)] /\ outside \in Nat
      /\ Callers \subseteq Actors /\ Drainers \subseteq Actors /\ Callers \cap Drainers = {}
  BY ActorAssumption DEF TypeOK, Actors
<1>1. ASSUME UNCHANGED <<chat, pc, load>> PROVE NewsInv'
  BY <1>1 DEF NewsInv
<1>2. ASSUME NEW a \in Actors, NEW phase, NEW l, Goto(a, phase, l), chat' = chat,
             phase \notin {"sending", "landed"}
      PROVE  NewsInv'
  <2>1. pc'[a] = phase /\ \A b \in Actors \ {a} : pc'[b] = pc[b] /\ load'[b] = load[b]
    BY <1>0, <1>2 DEF Goto
  <2>2. \A b \in Callers : pc'[b] \notin {"sending", "landed"}
    BY <1>0, <1>2, <2>1 DEF NewsInv
  <2>3. \A d \in Drainers : pc'[d] = "sending" => pc[d] = "sending" /\ load'[d] = load[d]
    BY <1>0, <1>2, <2>1
  <2> QED BY <1>2, <2>2, <2>3, FrameNews
<1>3. ~ (outside < MaxOutside)
  BY <1>0 DEF QueueOnly
<1>4. CASE UNCHANGED vars
  BY <1>1, <1>4 DEF vars, memory, world
<1>5. ASSUME NEW a \in Callers, Request(a) \/ EnqueueCommit(a) \/ EnqueueAbort(a)
      PROVE  NewsInv'
  <2>1. ASSUME NEW c \in Composers, NEW k \in Keys, EnqueueAdmit(a, c, k) PROVE NewsInv'
    BY SMTT(20), <1>0, <1>1, <1>2, <2>1 DEF EnqueueAdmit
  <2>2. CASE EnqueueCommit(a) \/ EnqueueAbort(a)
    BY <1>0, <1>2, <2>2 DEF EnqueueCommit, EnqueueAbort, world
  <2> QED BY <1>3, <1>5, <2>1, <2>2 DEF Request, SendAdmit
<1>6. ASSUME NEW d \in Drainers, NEW s, PickNext(d, s), chat' = chat
      PROVE  NewsInv'
  BY <1>0, <1>2, <1>6 DEF PickNext, EndDrain
<1>7. ASSUME NEW a \in Actors, Land(a) PROVE NewsInv'
  <2> DEFINE c == load[a].composer
             m == [role |-> "user", key |-> load[a].key]
  <2>1. a \in Drainers /\ pc[a] = "sending" /\ pc[a] # "idle"
    BY <1>0, <1>7 DEF Land, NewsInv, Actors
  <2>2. load[a] \in Load /\ c \in Composers /\ m \in Message
    <3>1. load[a] \in Load
      BY <2>1, BusyLoad
    <3> QED BY <3>1 DEF Load, Message
  <2>3. Goto(a, "landed", load[a]) /\ chat' = [chat EXCEPT ![c] = Append(@, m)]
    BY <1>7 DEF Land
  <2>4. pc'[a] = "landed" /\ \A b \in Actors \ {a} : pc'[b] = pc[b] /\ load'[b] = load[b]
    BY <1>0, <2>3 DEF Goto
  <2>5. \A d \in Drainers : pc'[d] # "sending"
    BY <2>1, <2>3, <2>4, Alone
  <2>6. LastUserKey(chat[c]) # m.key
    BY <2>1 DEF NewsInv
  <2> HIDE DEF c, m
  <2>7. Apart(Append(chat[c], m))
    BY <1>0, <2>2, <2>6, NewsKeepsApart DEF NewsInv, m
  <2>8. \A e \in Composers : Apart(chat'[e])
    BY <1>0, <2>2, <2>3, <2>7 DEF NewsInv
  <2>9. \A b \in Callers : pc'[b] \notin {"sending", "landed"}
    BY <1>0, <2>1, <2>4 DEF NewsInv
  <2> QED BY <2>5, <2>8, <2>9 DEF NewsInv
<1>8. ASSUME NEW a \in Actors, Acknowledge(a) \/ Abandon(a) PROVE NewsInv'
  BY <1>0, <1>2, <1>6, <1>8 DEF Acknowledge, Abandon, EndDrain, world
<1>9. ASSUME NEW d \in Drainers, Drain(d) PROVE NewsInv'
  <2>1. CASE (\E s \in Scopes : DrainBegin(d, s)) \/ DrainBlocked(d) \/ DrainRefused(d)
    BY <1>0, <1>2, <1>6, <2>1 DEF DrainBegin, DrainBlocked, DrainRefused, EndDrain, world
  <2>2. CASE DrainTake(d)
    <3> DEFINE l == load[d]
               k == Decide(l.composer, l.key, Remove(queue, l.id)).key
    <3>1. pc[d] = "probing" /\ l \in Load
      BY <1>0, <2>2, BusyLoad DEF DrainTake
    <3>2. /\ Goto(d, "sending", [l EXCEPT !.checked = k]) /\ chat' = chat
          /\ Decide(l.composer, l.key, Remove(queue, l.id)).reason = "none"
      BY <2>2 DEF DrainTake
    <3>3. LastUserKey(chat[l.composer]) # l.key
      BY <3>2, AdmittedIsNews
    <3>4. /\ load'[d] = [l EXCEPT !.checked = k]
          /\ \A b \in Actors \ {d} : pc'[b] = pc[b] /\ load'[b] = load[b]
      BY <1>0, <3>2 DEF Goto
    <3>5. load'[d].composer = l.composer /\ load'[d].key = l.key
      BY <3>1, <3>4 DEF Load
    <3> HIDE DEF l, k
    <3> QED BY <1>0, <3>2, <3>3, <3>4, <3>5 DEF NewsInv
  <2> QED BY <1>9, <2>1, <2>2 DEF Drain
<1>10. CASE Restart
  <2>1. \A a \in Actors : pc'[a] = "idle"
    BY <1>10 DEF Restart
  <2>2. chat' = chat
    BY <1>10 DEF Restart, world
  <2> QED BY <1>0, <2>1, <2>2, FrameNews
<1>11. ASSUME NEW c \in Composers, World(c) PROVE NewsInv'
  <2>1. CASE Answer(c)
    <3> DEFINE m == [role |-> "assistant", key |-> NoKey]
    <3>1. chat' = [chat EXCEPT ![c] = Append(@, m)] /\ UNCHANGED <<pc, load>>
      BY <2>1 DEF Answer, memory
    <3>2. m \in Message /\ m.role = "assistant"
      BY DEF Message
    <3> HIDE DEF m
    <3>3. Apart(Append(chat[c], m)) /\ LastUserKey(Append(chat[c], m)) = LastUserKey(chat[c])
      BY <1>0, <3>2, AnswerKeepsApart DEF NewsInv
    <3>4. \A e \in Composers : Apart(chat'[e]) /\ LastUserKey(chat'[e]) = LastUserKey(chat[e])
      BY <1>0, <3>1, <3>3 DEF NewsInv
    <3>5. \A d \in Drainers : pc[d] = "sending" => load[d].composer \in Composers
      BY <1>0, BusyLoad DEF Load
    <3> QED BY <3>1, <3>4, <3>5 DEF NewsInv
  <2> QED BY <1>1, <1>3, <1>11, <2>1 DEF World, Stop, Settle, Age, Foreign, memory, world
<1> QED BY <1>4, <1>5, <1>7, <1>8, <1>9, <1>10, <1>11
       DEF Next, Step, Return, ReturnUnsent, Throw, ThrowLate

(***************************************************************************)
(* A chat never holds the same prompt twice in a row, and so the check of   *)
(* the loop guard and the submission, with the whole of CDP between them,    *)
(* act as one: through lost answers, refusals, restarts and any number of     *)
(* requests and drains.  It takes what the run takes: no one else writes to    *)
(* the chats, and no done step is redirected, for send would then submit a      *)
(* prompt the guard has not judged.                                             *)
(***************************************************************************)
THEOREM NoPromptTwice == ASSUME QueueOnly PROVE Spec => []NoBackToBack
<1>1. Init => NewsInv
  <2> SUFFICES ASSUME Init PROVE NewsInv
    OBVIOUS
  <2>1. \A a \in Actors : pc[a] = "idle"
    BY DEF Init
  <2>2. \A c \in Composers : UserAt(chat[c]) = {}
    BY DEF Init, UserAt
  <2> QED BY <2>1, <2>2 DEF NewsInv, Apart, Actors
<1>2. TypeOK /\ Safe /\ NewsInv /\ [Next]_vars => NewsInv'
  BY NewsStep
<1>3. NewsInv => NoBackToBack
  BY DEF NewsInv, Apart, NoBackToBack
<1> QED BY <1>1, <1>2, <1>3, SafeAlways, PTL DEF Spec
==============================================================================
