--------------------------- MODULE GuardTickProofs ---------------------------
(***************************************************************************)
(* Proofs about GuardTick for every track, chat and number of ticks.        *)
(***************************************************************************)
EXTENDS GuardTick, LoopGuardProofs, FiniteSetTheorems

------------------------------------------------------------------------------
(* The inductive invariant *)

\* What Look can have seen.
Sights == [busy : BOOLEAN, aborted : BOOLEAN, window : BOOLEAN, queued : BOOLEAN,
           stuck : {"no", "stuck_reconnecting", "stuck_slow"}]

\* What of the types TypeOK does not say: the header names a step of the
\* track, and no plan is free text.
TypeInv ==
  /\ TypeOK
  /\ seen \in Sights
  /\ track.header # NoKey => IsStep(track.header)
  /\ plan = NoPlan \/ plan.key \in Keys \ {Keyless}

\* A turn was counted in TURNLOG more often than the guard was killed only if
\* its key is the one the state file remembers, or is out of sight.
AuditInv ==
  /\ dones <= 1 + crashes
  /\ entry.doneKey # Key /\ Key # NoKey => dones <= crashes
  /\ pc = "landed" => dones <= crashes

\* What the chat asks for reached the chat as a prompt.
PromptedInv ==
  /\ \A i \in UserAt(chat) : chat[i].key \in prompted
  /\ completed \subseteq prompted

------------------------------------------------------------------------------
(* The next step *)

LEMMA StepIsKey ==
  ASSUME NEW i \in DOMAIN TrackSteps
  PROVE  /\ TrackSteps[i] \in Keys \ {Keyless} /\ IsStep(TrackSteps[i])
         /\ i \in Nat /\ i # 0
<1>1. DOMAIN TrackSteps = 1 .. Len(TrackSteps) /\ Len(TrackSteps) \in Nat
  BY TrackAssumption, LenProperties
<1>2. TrackSteps[i] \in Keys \ {Keyless}
  BY <1>1, GuardKeyAssumption, ElementOfSeq
<1> QED BY <1>1, <1>2 DEF IsStep

LEMMA LeastIs ==
  ASSUME NEW S, S \subseteq Nat, S # {}
  PROVE  LeastOf(S) \in S /\ \A j \in S : LeastOf(S) <= j
<1>1. \E i \in S : \A j \in S : i <= j
  BY HasLeast
<1> QED BY <1>1 DEF LeastOf

\* The keys other than steps.
LEMMA OtherKeys ==
  /\ \A r \in OtherRoles : RoleKey[r] \in Keys \ {Keyless} /\ ~ IsStep(RoleKey[r])
  /\ \A k \in {Recovery, PlanRefresh} : k \in Keys \ {Keyless} /\ ~ IsStep(k)
BY GuardKeyAssumption DEF IsStep

\* The one track: its rows are the steps, in order and none of them meta.
LEMMA TheTrack ==
  /\ DOMAIN Tracks = {1} /\ Tracks[1].status = "in progress" /\ Tracks[1].statusStep = 0
  /\ Tracks[1].blockedSkip = FALSE
  /\ Tracks[1].bold = IF track.header = NoKey THEN 0
                      ELSE CHOOSE i \in DOMAIN TrackSteps : TrackSteps[i] = track.header
  /\ DOMAIN Tracks[1].rows = DOMAIN TrackSteps
  /\ \A i \in DOMAIN TrackSteps : /\ Tracks[1].rows[i].step = i
                                  /\ Tracks[1].rows[i].meta = FALSE
                                  /\ isStepOpen(Tracks[1].rows[i].cell)
                                       <=> i \in PendingSteps(track)
<1> DEFINE rows == [i \in DOMAIN TrackSteps |->
                     [step |-> i, meta |-> FALSE,
                      cell |-> IF TrackSteps[i] \in track.done THEN "done" ELSE "pending"]]
           bold == IF track.header = NoKey THEN 0
                   ELSE CHOOSE i \in DOMAIN TrackSteps : TrackSteps[i] = track.header
           t    == [focus |-> 1, status |-> "in progress", statusStep |-> 0,
                    blockedSkip |-> FALSE, bold |-> bold, rows |-> rows]
<1>1. Tracks = <<t>>
  BY DEF Tracks
<1>2. DOMAIN Tracks = {1} /\ Tracks[1] = t
  <2> HIDE DEF t
  <2> QED BY <1>1
<1>3. /\ Tracks[1].rows = rows /\ Tracks[1].bold = bold
      /\ Tracks[1].status = "in progress" /\ Tracks[1].statusStep = 0
      /\ Tracks[1].blockedSkip = FALSE
  <2>1. /\ t.rows = rows /\ t.bold = bold /\ t.status = "in progress" /\ t.statusStep = 0
        /\ t.blockedSkip = FALSE
    <3> HIDE DEF rows, bold
    <3> QED OBVIOUS
  <2> HIDE DEF rows, bold, t
  <2> QED BY <1>2, <2>1
<1>4. DOMAIN rows = DOMAIN TrackSteps
  OBVIOUS
<1>5. \A i \in DOMAIN TrackSteps :
        /\ rows[i].step = i /\ rows[i].meta = FALSE
        /\ isStepOpen(rows[i].cell) <=> i \in PendingSteps(track)
  BY DEF isStepOpen, classifyStepStatus, PendingSteps
<1> HIDE DEF rows
<1> QED BY <1>2, <1>3, <1>4, <1>5

LEMMA TheHeader ==
  ASSUME TypeInv
  PROVE  \/ track.header = NoKey /\ Tracks[1].bold = 0
         \/ /\ track.header # NoKey /\ Tracks[1].bold \in DOMAIN TrackSteps
            /\ TrackSteps[Tracks[1].bold] = track.header
<1>1. Tracks[1].bold = IF track.header = NoKey THEN 0
                       ELSE CHOOSE i \in DOMAIN TrackSteps : TrackSteps[i] = track.header
  BY TheTrack, Zenon
<1>2. track.header # NoKey => \E i \in DOMAIN TrackSteps : TrackSteps[i] = track.header
  BY DEF TypeInv, IsStep
<1> QED BY <1>1, <1>2

\* Its pending steps, its rows and the step it asks for.
LEMMA PendingIs ==
  ASSUME TypeInv
  PROVE  /\ pendingSteps(Tracks[1]) = PendingSteps(track)
         /\ pendingMeta(Tracks[1]) = {}
         /\ \A n \in DOMAIN TrackSteps : RowsOf(Tracks[1], n) = {n}
         /\ PendingSteps(track) # {} =>
              /\ nextStep(Tracks[1]) \in DOMAIN TrackSteps
              /\ \/ nextStep(Tracks[1]) \in PendingSteps(track)
                 \/ TrackSteps[nextStep(Tracks[1])] = track.header
<1> DEFINE t == Tracks[1]
<1>1. tableSteps(t) = PendingSteps(track)
  <2>1. {j \in DOMAIN t.rows : isStepOpen(t.rows[j].cell)} = PendingSteps(track)
    BY TheTrack DEF PendingSteps
  <2>2. \A i \in PendingSteps(track) : t.rows[i].step = i
    BY TheTrack DEF PendingSteps
  <2>3. tableSteps(t) = {t.rows[i].step : i \in PendingSteps(track)}
    BY <2>1, Zenon DEF tableSteps
  <2> HIDE DEF t
  <2> QED BY <2>2, <2>3
<1>2. pendingMeta(t) = {}
  BY TheTrack DEF pendingMeta
<1>3. \A n \in DOMAIN TrackSteps : RowsOf(t, n) = {n}
  BY ZenonT(60), TheTrack DEF RowsOf
<1>4. \A n \in DOMAIN TrackSteps : LeastOf({n}) = n
  <2> SUFFICES ASSUME NEW n \in DOMAIN TrackSteps PROVE LeastOf({n}) = n
    OBVIOUS
  <2>1. {n} \subseteq Nat
    BY StepIsKey
  <2> QED BY <2>1, LeastIs
<1>5. t.bold # 0 => t.bold \in DOMAIN TrackSteps /\ TrackSteps[t.bold] = track.header
  BY TheHeader
<1>6. pendingSteps(t) = PendingSteps(track)
  <2>1. CASE tableSteps(t) # {}
    BY <1>1, <2>1 DEF pendingSteps
  <2>2. CASE tableSteps(t) = {}
    <3>1. inferPendingFromHeader(t) = {}
      <4>1. CASE t.bold = 0
        BY <4>1, TheTrack DEF inferPendingFromHeader
      <4>2. CASE t.bold # 0
        <5>1. RowsOf(t, t.bold) = {t.bold} /\ LeastOf({t.bold}) = t.bold
          BY <1>3, <1>4, <1>5, <4>2
        <5>2. ~ isStepOpen(t.rows[t.bold].cell)
          BY <1>1, <1>5, <2>2, <4>2, TheTrack
        <5> HIDE DEF t
        <5> QED BY <4>2, <5>1, <5>2 DEF inferPendingFromHeader
      <4> QED BY <4>1, <4>2
    <3> QED BY <1>1, <2>2, <3>1 DEF pendingSteps
  <2> QED BY <2>1, <2>2
<1>7. ASSUME PendingSteps(track) # {}
      PROVE  /\ nextStep(t) \in DOMAIN TrackSteps
             /\ nextStep(t) \in PendingSteps(track) \/ TrackSteps[nextStep(t)] = track.header
  <2>1. PendingSteps(track) \subseteq Nat /\ PendingSteps(track) \subseteq DOMAIN TrackSteps
    BY StepIsKey DEF PendingSteps
  <2>2. LeastOf(PendingSteps(track)) \in PendingSteps(track)
    BY <1>7, <2>1, LeastIs
  <2> QED BY <1>5, <1>6, <2>1, <2>2 DEF nextStep
<1> QED BY <1>2, <1>3, <1>6, <1>7

\* The Driver's step, if any is pending.
LEMMA DriverIs ==
  ASSUME TypeInv
  PROVE  /\ PendingSteps(track) = {} => pickDriverFromTracks(Tracks) = Nobody
         /\ PendingSteps(track) # {} =>
              pickDriverFromTracks(Tracks)
                = [role |-> "Driver", step |-> nextStep(Tracks[1]), track |-> 1]
         /\ openTracksWithPending(Tracks) = IF PendingSteps(track) = {} THEN {} ELSE {1}
         /\ FirstByFocus(Tracks, {1}) = 1
<1>1. WithWork(Tracks) = IF PendingSteps(track) = {} THEN {} ELSE {1}
  BY TheTrack, PendingIs DEF WithWork
<1>2. /\ activeTracksWithPending(Tracks) = WithWork(Tracks)
      /\ openTracksWithPending(Tracks) = WithWork(Tracks)
  <2>1. \A i \in WithWork(Tracks) : i = 1
    BY <1>1
  <2> QED BY <2>1, TheTrack
          DEF activeTracksWithPending, openTracksWithPending, inProgress, closed
<1>3. FirstByFocus(Tracks, {1}) = 1
  BY DEF FirstByFocus
<1>4. CASE PendingSteps(track) = {}
  BY <1>1, <1>2, <1>3, <1>4 DEF pickDriverFromTracks
<1>5. CASE PendingSteps(track) # {}
  <2>1. activeTracksWithPending(Tracks) = {1}
    BY <1>1, <1>2, <1>5
  <2>2. nextStep(Tracks[1]) \notin pendingMeta(Tracks[1])
    BY PendingIs
  <2>3. pickDriverFromTracks(Tracks)
          = [role |-> "Driver", step |-> nextStep(Tracks[1]), track |-> 1]
    BY <1>3, <2>1, <2>2 DEF pickDriverFromTracks
  <2> QED BY <1>1, <1>2, <1>3, <1>5, <2>3
<1> QED BY <1>4, <1>5

\* The redirection of a done step leads to the step it came from.
LEMMA AdvancedDriver ==
  ASSUME TypeInv, PendingSteps(track) # {}, NEW next,
         next = [role |-> "Driver", step |-> nextStep(Tracks[1]), track |-> 1]
  PROVE  /\ advanceDoneDriverStep(next, Tracks).role = "Driver"
         /\ advanceDoneDriverStep(next, Tracks).step = nextStep(Tracks[1])
<1>1. openTracksWithPending(Tracks) = {1} /\ FirstByFocus(Tracks, {1}) = 1
  BY DriverIs
<1>2. \/ advanceDoneDriverStep(next, Tracks) = next
      \/ advanceDoneDriverStep(next, Tracks)
           = [next EXCEPT !.step = nextStep(Tracks[1]), !.track = 1]
  BY <1>1 DEF advanceDoneDriverStep
<1> DEFINE moved == [next EXCEPT !.step = nextStep(Tracks[1]), !.track = 1]
<1>3. moved.role = "Driver" /\ moved.step = nextStep(Tracks[1])
  OBVIOUS
<1>4. next.role = "Driver" /\ next.step = nextStep(Tracks[1])
  OBVIOUS
<1> HIDE DEF moved
<1> QED BY <1>2, <1>3, <1>4 DEF moved

LEMMA FallbackIs ==
  ASSUME TypeInv, pickDriverStep(Tracks) # Nobody
  PROVE  /\ PendingSteps(track) # {}
         /\ pickDriverStep(Tracks).role = "Driver"
         /\ pickDriverStep(Tracks).step = nextStep(Tracks[1])
<1> DEFINE driver == [role |-> "Driver", step |-> nextStep(Tracks[1]), track |-> 1]
<1>1. PendingSteps(track) # {}
  BY DriverIs DEF pickDriverStep
<1>2. pickDriverFromTracks(Tracks) = driver
  BY <1>1, DriverIs
<1>3. driver # Nobody
  BY DEF Nobody
<1>4. pickDriverStep(Tracks) = advanceDoneDriverStep(driver, Tracks)
  <2> HIDE DEF driver
  <2> QED BY <1>2, <1>3 DEF pickDriverStep
<1> QED BY <1>1, <1>4, AdvancedDriver

\* The main project's rotation.
LEMMA RotationIs ==
  ASSUME NEW turns \in Nat
  PROVE  pickRoleByRotation(turns, FALSE, {}) \in OtherRoles \cup {""}
<1> DEFINE applies(i) == /\ turns % Rules[i][1] = 0
                         /\ Rules[i][3] = "all" \/ ~FALSE
                         /\ Rules[i][3] \in {"blog", "orchDev"} => Rules[i][3] \in {}
           hits == {i \in DOMAIN Rules : applies(i)}
<1>1. DOMAIN Rules = 1 .. 10
  BY DEF Rules
<1>2. \A i \in 1 .. 10 : Rules[i][3] \notin {"blog", "orchDev"} => Rules[i][2] \in OtherRoles
  BY DEF Rules, OtherRoles
<1>3. \A i \in hits : i \in 1 .. 10 /\ Rules[i][3] \notin {"blog", "orchDev"}
  BY <1>1
<1>4. pickRoleByRotation(turns, FALSE, {})
        = IF turns <= 0 \/ hits = {} THEN "" ELSE Rules[LeastOf(hits)][2]
  BY DEF pickRoleByRotation
<1> HIDE DEF hits
<1>5. CASE hits = {}
  BY <1>4, <1>5
<1>6. CASE hits # {}
  <2>1. hits \subseteq Nat
    BY <1>3
  <2>2. LeastOf(hits) \in hits
    BY <1>6, <2>1, LeastIs
  <2> QED BY <1>2, <1>3, <1>4, <2>2
<1> QED BY <1>5, <1>6

(***************************************************************************)
(* The next step is the first on the agent's own queue; or the pending step *)
(* of the track, or the one its header names; or, with nothing pending, the *)
(* turn of another role.                                                    *)
(***************************************************************************)
LEMMA NextStepIs ==
  ASSUME TypeInv, NEW items \in Seq(SelfKeys)
  PROVE  \/ items # <<>> /\ NextStep(items) = [role |-> "Driver", key |-> Head(items)]
         \/ \E r \in OtherRoles : NextStep(items) = [role |-> r, key |-> RoleKey[r]]
         \/ \E i \in DOMAIN TrackSteps :
              /\ NextStep(items) = [role |-> "Driver", key |-> TrackSteps[i]]
              /\ i \in PendingSteps(track) \/ TrackSteps[i] = track.header
<1>1. CASE items # <<>>
  BY <1>1 DEF NextStep
<1>2. CASE items = <<>> /\ PendingSteps(track) # {}
  <2> DEFINE driver == [role |-> "Driver", step |-> nextStep(Tracks[1]), track |-> 1]
             next == pickNextAgentStep(Tracks, session.turns, session.role, Nobody, FALSE, {})
  <2>1. pickDriverFromTracks(Tracks) = driver /\ driver # Nobody
    BY <1>2, DriverIs DEF Nobody
  <2>2. pickNextFromState(Tracks, session.turns, session.role, Nobody, FALSE, {}) = driver
    BY <2>1 DEF pickNextFromState
  <2>3. next = advanceDoneDriverStep(driver, Tracks)
    BY <2>2, Zenon DEF pickNextAgentStep
  <2>4. next.role = "Driver" /\ next.step = nextStep(Tracks[1])
    BY <1>2, <2>3, AdvancedDriver
  <2>5. NextStep(items) = [role |-> "Driver", key |-> TrackSteps[nextStep(Tracks[1])]]
    <3>1. NextStep(items) = Keyed(next)
      BY <1>2 DEF NextStep
    <3> HIDE DEF next
    <3> QED BY <2>4, <3>1 DEF Keyed, KeyOf
  <2> QED BY <1>2, <2>5, PendingIs
<1>3. CASE items = <<>> /\ PendingSteps(track) = {}
  <2>1. \E r \in OtherRoles :
          pickNextFromState(Tracks, session.turns, session.role, Nobody, FALSE, {})
            = [Nobody EXCEPT !.role = r]
    <3>1. pickDriverFromTracks(Tracks) = Nobody
      BY <1>3, DriverIs
    <3>2. pickRoleByRotation(session.turns, FALSE, {}) \in OtherRoles \cup {""}
      BY RotationIs DEF TypeInv, TypeOK
    <3>3. idleRole(Tracks, session.role) \in OtherRoles
      BY DEF idleRole, OtherRoles
    <3> QED BY <3>1, <3>2, <3>3 DEF pickNextFromState
  <2>2. PICK r \in OtherRoles :
          pickNextFromState(Tracks, session.turns, session.role, Nobody, FALSE, {})
            = [Nobody EXCEPT !.role = r]
    BY <2>1
  <2>3. r # "Driver"
    BY DEF OtherRoles
  <2>4. [Nobody EXCEPT !.role = r].role = r
    BY DEF Nobody
  <2>5. pickNextAgentStep(Tracks, session.turns, session.role, Nobody, FALSE, {})
          = [Nobody EXCEPT !.role = r]
    BY <2>2, <2>3, <2>4 DEF pickNextAgentStep, advanceDoneDriverStep
  <2>6. NextStep(items) = [role |-> r, key |-> RoleKey[r]]
    BY <1>3, <2>3, <2>4, <2>5 DEF NextStep, Keyed, KeyOf
  <2> QED BY <2>6
<1> QED BY <1>1, <1>2, <1>3

------------------------------------------------------------------------------
(* The plan *)

Prompts == Keys \ {Keyless}

\* The key is no done step, unless the header names one, or the agent asked
\* itself for it.
Due(key) == IsStep(key) => \/ key \notin track.done \/ track.header \in track.done
                           \/ key \in SelfKeys

LEMMA StepIsPrompt ==
  ASSUME NEW key, IsStep(key)
  PROVE  key \in Prompts
BY StepIsKey DEF IsStep, Prompts

LEMMA NextIsDue ==
  ASSUME TypeInv, NEW items \in Seq(SelfKeys)
  PROVE  /\ NextStep(items).key \in Prompts /\ NextStep(items).role \in Roles
         /\ Due(NextStep(items).key)
<1>1. CASE items # <<>> /\ NextStep(items) = [role |-> "Driver", key |-> Head(items)]
  <2>1. Head(items) \in SelfKeys
    BY <1>1, HeadTailProperties
  <2> QED BY <1>1, <2>1, GuardKeyAssumption DEF Prompts, Roles, Due
<1>2. CASE \E r \in OtherRoles : NextStep(items) = [role |-> r, key |-> RoleKey[r]]
  BY <1>2, OtherKeys, GuardKeyAssumption DEF Prompts, Roles, Due
<1>3. CASE \E i \in DOMAIN TrackSteps :
             /\ NextStep(items) = [role |-> "Driver", key |-> TrackSteps[i]]
             /\ i \in PendingSteps(track) \/ TrackSteps[i] = track.header
  BY <1>3, StepIsKey DEF Prompts, Roles, Due, PendingSteps
<1> QED BY <1>1, <1>2, <1>3, NextStepIs

LEMMA AdvancedIsDue ==
  ASSUME TypeInv, NEW key \in Prompts, Due(key)
  PROVE  /\ advanceIfStepDone(key, track) \in Prompts
         /\ Due(advanceIfStepDone(key, track))
<1>1. CASE advanceIfStepDone(key, track) = key
  BY <1>1
<1>2. CASE advanceIfStepDone(key, track) = track.header /\ track.header # NoKey
  <2>1. IsStep(track.header)
    BY <1>2 DEF TypeInv
  <2> QED BY <1>2, <2>1, StepIsPrompt DEF Due
<1>3. CASE \E i \in PendingSteps(track) : advanceIfStepDone(key, track) = TrackSteps[i]
  BY <1>3, StepIsKey DEF PendingSteps, Prompts, Due
<1> QED BY <1>1, <1>2, <1>3, AdvanceIs

LEMMA CheckedIsDue ==
  ASSUME TypeInv, NEW msgs, NEW key \in Prompts, Due(key)
  PROVE  Check(key, msgs).key \in Prompts /\ Due(Check(key, msgs).key)
<1>1. Check(key, msgs).key = advanceIfStepDone(key, track)
  BY DEF Check, checkEnqueueLoop
<1> QED BY <1>1, AdvancedIsDue

\* What a plan is, if it is not to skip the tick.
Sound(p) == /\ p.action \in {"skip", "recovery", "send"}
            /\ p.action # "skip" => /\ p.key \in Prompts /\ p.role \in Roles
                                    /\ Due(p.key)

LEMMA PlanIsSound ==
  ASSUME TypeInv, NEW msgs, NEW items \in Seq(SelfKeys)
  PROVE  Sound(planGuardNudge(msgs, items))
<1> DEFINE next == NextStep(items)
           d    == Check(next.key, msgs)
           fb   == pickDriverStep(Tracks)
<1>1. next.key \in Prompts /\ next.role \in Roles /\ Due(next.key)
  BY NextIsDue
<1>2. d.key \in Prompts /\ Due(d.key)
  BY <1>1, CheckedIsDue
<1>3. fb # Nobody => LET k == Check(KeyOf(fb), msgs).key IN k \in Prompts /\ Due(k)
  <2> SUFFICES ASSUME fb # Nobody
               PROVE  LET k == Check(KeyOf(fb), msgs).key IN k \in Prompts /\ Due(k)
    OBVIOUS
  <2>1. KeyOf(fb) = TrackSteps[nextStep(Tracks[1])]
    BY FallbackIs DEF KeyOf
  <2>2. nextStep(Tracks[1]) \in DOMAIN TrackSteps
    BY FallbackIs, PendingIs
  <2>3. KeyOf(fb) \in Prompts /\ Due(KeyOf(fb))
    BY <2>1, <2>2, FallbackIs, PendingIs, StepIsKey DEF PendingSteps, Due, Prompts
  <2> QED BY <2>3, CheckedIsDue
<1>4. Sound(Skip)
  BY DEF Sound, Skip
<1>5. Sound(Recover)
  BY OtherKeys DEF Sound, Recover, Prompts, Roles, Due
<1>6. \A r \in Roles, k \in Prompts : Due(k) => Sound(Nudge(r, k))
  BY DEF Sound, Nudge
<1>7. PlanRefresh \in Prompts /\ Due(PlanRefresh) /\ {"Driver", "Planner"} \subseteq Roles
  BY OtherKeys, GuardKeyAssumption DEF Prompts, Due, Roles, OtherRoles
<1>8. planGuardNudge(msgs, items) = Plan(msgs, next, d, fb)
  BY DEF planGuardNudge, PlanFor
<1> HIDE DEF next, d, fb
<1>9. Plan(msgs, next, d, fb)
        \in {Skip, Recover, Nudge(next.role, d.key), Nudge("Driver", next.key),
             Nudge("Planner", PlanRefresh)}
          \cup (IF fb = Nobody THEN {} ELSE {Nudge("Driver", Check(KeyOf(fb), msgs).key)})
  BY DEF Plan
<1> QED BY <1>1, <1>2, <1>3, <1>4, <1>5, <1>6, <1>7, <1>8, <1>9

------------------------------------------------------------------------------
(* Type correctness *)

\* The conjuncts of the invariant, by who writes them.
ChatOK ==
  /\ chat \in Seq(Message) /\ reply \in Replies
  /\ {running, aborted, window} \subseteq BOOLEAN
  /\ queue \in Seq(Keys) /\ prompted \subseteq Keys /\ dones \in Nat

FilesOK ==
  /\ orch \in Entry
  /\ track \in Track /\ (track.header # NoKey => IsStep(track.header))
  /\ session.turns \in Nat /\ session.role \in Roles \cup {""}
  /\ selfQueue \in Seq(SelfKeys) /\ completed \subseteq SelfKeys

Entries == [cooling : BOOLEAN, token : BOOLEAN, away : BOOLEAN,
            hungKey : Keys \cup {NoKey}, hungTicks : 0 .. StuckTicks,
            doneKey : Keys \cup {NoKey}]
EntryOK == entry \in Entries
AgentOK == agentFile \in [phase : AgentPhases, key : Keys \cup {NoKey}]

TickOK ==
  /\ read \in Seq(Message) /\ seen \in Sights
  /\ pc \in {"idle", "looked", "stopping", "planned", "admitted", "landed"}
  /\ plan \in [key : Keys \cup {NoKey}, role : Roles \cup {""}, force : BOOLEAN]
  /\ (plan = NoPlan) <=> pc \in {"idle", "looked", "stopping"}
  /\ plan = NoPlan \/ plan.key \in Keys \ {Keyless}

BoundsOK == events \in Nat /\ crashes \in Nat

LEMMA TypeParts ==
  TypeInv <=> ChatOK /\ FilesOK /\ EntryOK /\ AgentOK /\ TickOK /\ BoundsOK
BY DEF TypeInv, TypeOK, ChatOK, FilesOK, EntryOK, Entries, AgentOK, TickOK, BoundsOK

LEMMA TypePartsNext ==
  ChatOK' /\ FilesOK' /\ EntryOK' /\ AgentOK' /\ TickOK' /\ BoundsOK' => TypeInv'
BY DEF TypeInv, TypeOK, ChatOK, FilesOK, EntryOK, Entries, AgentOK, TickOK, BoundsOK

LEMMA StutterParts ==
  /\ ChatOK /\ UNCHANGED <<chat, reply, running, aborted, window, queue, prompted, dones>> => ChatOK'
  /\ FilesOK /\ UNCHANGED <<orch, track, session, selfQueue, completed>> => FilesOK'
  /\ EntryOK /\ UNCHANGED entry => EntryOK'
  /\ AgentOK /\ UNCHANGED agentFile => AgentOK'
  /\ TickOK /\ UNCHANGED <<pc, seen, read, plan>> => TickOK'
  /\ BoundsOK /\ UNCHANGED <<events, crashes>> => BoundsOK'
BY DEF ChatOK, FilesOK, EntryOK, Entries, AgentOK, TickOK, BoundsOK, IsStep

LEMMA BoundsKept ==
  ASSUME BoundsOK
  PROVE  /\ \A k : Event(k) => BoundsOK'
         /\ Crash => BoundsOK'
         /\ UNCHANGED bounds => BoundsOK'
BY DEF BoundsOK, Event, Crash, bounds

LEMMA ReturnType ==
  ASSUME Return
  PROVE  TickOK'
<1>1. NoPlan \in [key : Keys \cup {NoKey}, role : Roles \cup {""}, force : BOOLEAN]
  BY DEF NoPlan
<1>2. Unseen \in Sights /\ <<>> \in Seq(Message)
  BY EmptySeq DEF Unseen, Sights
<1> QED BY <1>1, <1>2 DEF Return, TickOK

\* A prompt, if one is planned, is kept to the end of the tick.
LEMMA PlannedType ==
  ASSUME plan' \in [key : Prompts, role : Roles, force : BOOLEAN],
         pc' = "planned", seen' = Unseen, read' \in Seq(Message)
  PROVE  TickOK'
<1>1. Unseen \in Sights
  BY DEF Unseen, Sights
<1>2. plan'.key \in Keys /\ plan'.key # Keyless
  BY DEF Prompts
<1>3. plan' # NoPlan
  <2>1. NoPlan.key = NoKey
    BY DEF NoPlan
  <2> QED BY <1>2, <2>1, KeyAssumption
<1> QED BY <1>1, <1>2, <1>3 DEF TickOK, Prompts

LEMMA DecideType ==
  ASSUME TypeInv, NEW msgs \in Seq(Message), NEW items \in Seq(SelfKeys), Decide(msgs, items)
  PROVE  orch' \in Entry /\ TickOK'
<1> DEFINE p == planGuardNudge(msgs, items)
<1>1. orch' \in Entry
  BY SyncType DEF Decide, TypeInv, TypeOK
<1>2. Sound(p) /\ Follow(p)
  BY PlanIsSound DEF Decide
<1> HIDE DEF p
<1>3. CASE p.action = "skip"
  <2>1. Return
    BY <1>2, <1>3 DEF Follow
  <2> QED BY <1>1, <2>1, ReturnType
<1>4. CASE p.action # "skip"
  <2>1. /\ pc' = "planned" /\ seen' = Unseen /\ read' = <<>>
        /\ plan' = [key |-> p.key, role |-> p.role, force |-> p.action = "send"]
    BY <1>2, <1>4 DEF Follow
  <2>2. p.key \in Prompts /\ p.role \in Roles
    BY <1>2, <1>4 DEF Sound
  <2>3. (p.action = "send") \in BOOLEAN
    OBVIOUS
  <2>4. plan' \in [key : Prompts, role : Roles, force : BOOLEAN]
    BY <2>1, <2>2, <2>3
  <2> QED BY <1>1, <2>1, <2>4, EmptySeq, PlannedType
<1> QED BY <1>3, <1>4

\* Cut back to what the code looks at, a chat keeps its last message.
LEMMA RecentIs ==
  ASSUME NEW msgs \in Seq(Message), msgs # <<>>
  PROVE  \E m \in 0 .. Len(msgs) :
            /\ Recent(msgs) = SubSeq(msgs, m + 1, Len(msgs))
            /\ Len(msgs) \in UserAt(msgs) => m < Len(msgs)
<1> DEFINE users == UserAt(msgs)
           old   == {i \in users : Cardinality({j \in users : j > i}) >= RecoveryTail}
           n     == Len(msgs)
<1>1. n \in Nat /\ n # 0 /\ users \subseteq 1 .. n
  BY KeyedIndices, EmptySeq
<1>2. n \notin old
  <2>1. {j \in users : j > n} = {}
    BY <1>1
  <2>2. Cardinality({j \in users : j > n}) = 0
    BY <2>1, FS_EmptySet
  <2> QED BY <2>2, GuardCountAssumption
<1>3. Recent(msgs) = IF old = {} THEN msgs ELSE SubSeq(msgs, Latest(old) + 1, n)
  BY DEF Recent
<1>4. old \subseteq 1 .. n
  BY <1>1
<1> HIDE DEF old, users, n
<1>5. CASE old = {}
  <2>1. msgs = SubSeq(msgs, 1, Len(msgs))
    BY SubSeqFull
  <2> QED BY <1>1, <1>3, <1>5, <2>1 DEF n
<1>6. CASE old # {}
  <2>1. Latest(old) \in old
    BY <1>1, <1>4, <1>6, LatestIsGreatest
  <2>2. Latest(old) \in 1 .. n /\ Latest(old) # n
    BY <1>2, <1>4, <2>1
  <2>3. Latest(old) \in 0 .. n /\ Latest(old) < n
    BY <1>1, <2>2
  <2> QED BY <1>3, <1>6, <2>3 DEF n
<1> QED BY <1>5, <1>6

LEMMA RestAt ==
  ASSUME NEW msgs \in Seq(Message), NEW m \in 0 .. Len(msgs)
  PROVE  LET rest == SubSeq(msgs, m + 1, Len(msgs))
         IN  DOMAIN rest = 1 .. (Len(msgs) - m) /\ \A i \in DOMAIN rest : rest[i] = msgs[i + m]
<1> DEFINE n == Len(msgs)
           rest == SubSeq(msgs, m + 1, n)
<1>1. n \in Nat /\ m \in Nat /\ m <= n
  BY LenProperties
<1>2. rest = [i \in 1 .. (1 + n - (m + 1)) |-> msgs[i + (m + 1) - 1]]
  OBVIOUS
<1>3. 1 + n - (m + 1) = n - m /\ \A i \in 1 .. (n - m) : i + (m + 1) - 1 = i + m
  BY <1>1
<1> HIDE DEF rest, n
<1>4. DOMAIN rest = 1 .. (n - m) /\ \A i \in 1 .. (n - m) : rest[i] = msgs[i + m]
  BY <1>2, <1>3
<1> QED BY <1>4 DEF rest, n

\* What a prompt leaves behind.
LEMMA PromptEffect ==
  ASSUME ChatOK, NEW key \in Keys, Prompt(key)
  PROVE  /\ chat' \in Seq(Message) /\ running' = TRUE /\ aborted' = FALSE
         /\ reply' \in Replies /\ window' = window
         /\ prompted' = prompted \cup {key} /\ completed' = completed
         /\ dones' = IF key = Keyless THEN dones ELSE 0
         /\ key # Keyless => Key' = key
         /\ key = Keyless => Key' \in {Key, NoKey}
         /\ \A i \in UserAt(chat') : \/ chat'[i].key = key
                                     \/ \E j \in UserAt(chat) : chat'[i].key = chat[j].key
<1> DEFINE m    == [role |-> "user", key |-> key]
           more == Append(chat, m)
<1>1. m \in Message /\ m.role = "user" /\ m.key = key
  BY DEF Message
<1>2. chat \in Seq(Message) /\ Len(chat) \in Nat
  BY LenProperties DEF ChatOK
<1>3. /\ more \in Seq(Message)
      /\ key = Keyless => lastUserPromptKey(more) = lastUserPromptKey(chat)
      /\ key # Keyless => lastUserPromptKey(more) = key
  BY <1>1, <1>2, LastKeyOfAppend
<1>4. /\ Len(more) = Len(chat) + 1 /\ more[Len(chat) + 1] = m
      /\ \A i \in 1 .. Len(chat) : more[i] = chat[i]
      /\ more # <<>>
  BY <1>1, <1>2, AppendProperties
<1>5. chat' = Recent(more)
  BY DEF Prompt
<1> HIDE DEF more
<1>6. PICK k \in 0 .. Len(more) : /\ chat' = SubSeq(more, k + 1, Len(more))
                                  /\ Len(more) \in UserAt(more) => k < Len(more)
  BY <1>3, <1>4, <1>5, RecentIs
<1>7. Len(more) \in UserAt(more) /\ k < Len(more)
  <2>1. DOMAIN more = 1 .. Len(more)
    BY <1>3, LenProperties
  <2> QED BY <1>1, <1>2, <1>4, <1>6, <2>1 DEF UserAt
<1>8. /\ chat' \in Seq(Message)
      /\ lastUserPromptKey(chat') \in {lastUserPromptKey(more), NoKey}
      /\ (\E i \in KeyedAt(more) : i > k) => lastUserPromptKey(chat') = lastUserPromptKey(more)
  BY <1>3, <1>6, LastKeyOfRest
<1>9. key # Keyless => Len(more) \in KeyedAt(more)
  BY <1>1, <1>4, <1>7 DEF KeyedAt
<1>10. /\ key # Keyless => Key' = key
       /\ key = Keyless => Key' \in {Key, NoKey}
  <2>1. Key' = lastUserPromptKey(chat') /\ Key = lastUserPromptKey(chat)
    BY DEF Key
  <2>2. key # Keyless => \E i \in KeyedAt(more) : i > k
    BY <1>7, <1>9, <1>2, <1>4, <1>6
  <2> QED BY <1>3, <1>8, <2>1, <2>2
<1>11. \A i \in UserAt(chat') : \/ chat'[i].key = key
                                \/ \E j \in UserAt(chat) : chat'[i].key = chat[j].key
  <2> SUFFICES ASSUME NEW i \in UserAt(chat')
               PROVE  \/ chat'[i].key = key
                      \/ \E j \in UserAt(chat) : chat'[i].key = chat[j].key
    OBVIOUS
  <2>1. /\ i \in 1 .. (Len(more) - k) /\ chat'[i] = more[i + k]
    BY <1>3, <1>6, RestAt DEF UserAt
  <2>2. i + k \in 1 .. Len(more) /\ more[i + k].role = "user"
    BY <1>2, <1>4, <1>6, <2>1 DEF UserAt
  <2>3. CASE i + k = Len(more)
    BY <1>1, <1>4, <2>1, <2>3
  <2>4. CASE i + k # Len(more)
    <3>1. i + k \in 1 .. Len(chat)
      BY <1>2, <1>4, <2>2, <2>4
    <3>2. i + k \in UserAt(chat) /\ chat[i + k] = more[i + k]
      BY <1>2, <1>4, <2>2, <3>1, LenProperties DEF UserAt
    <3> QED BY <2>1, <3>2
  <2> QED BY <2>3, <2>4
<1>12. /\ running' = TRUE /\ aborted' = FALSE /\ reply' \in Replies /\ window' = window
       /\ prompted' = prompted \cup {key} /\ completed' = completed
       /\ dones' = IF key = Keyless THEN dones ELSE 0
  BY DEF Prompt, ChatOK, Replies
<1> QED BY <1>8, <1>10, <1>11, <1>12

LEMMA PromptChat ==
  ASSUME ChatOK, NEW key \in Keys, Prompt(key), queue' \in Seq(Keys)
  PROVE  ChatOK'
<1>1. {running', aborted', window'} \subseteq BOOLEAN
  BY PromptEffect DEF ChatOK
<1>2. dones' \in Nat /\ prompted' \subseteq Keys
  <2>1. dones \in Nat /\ prompted \subseteq Keys
    BY DEF ChatOK
  <2>2. dones' = (IF key = Keyless THEN dones ELSE 0) /\ prompted' = prompted \cup {key}
    BY PromptEffect
  <2> QED BY <2>1, <2>2
<1> QED BY <1>1, <1>2, PromptEffect DEF ChatOK

LEMMA StudyTypes ==
  ASSUME TypeInv
  PROVE  /\ Key \in Keys \cup {NoKey} /\ Phase \in AgentPhases
         /\ Audited \in Entries
         /\ \A e \in Entries : Unhung(e) \in Entries
         /\ Blank \in Entries
         /\ SyncAgentState => AgentOK'
         /\ AuditTurn => dones' \in Nat
<1>1. Key \in Keys \cup {NoKey}
  BY LastKeyType DEF Key, TypeInv, TypeOK
<1>2. Phase \in AgentPhases
  <2>1. verifyTurn(chat, reply) \in Verdicts
    BY DEF verifyTurn, Verdicts, TypeInv, TypeOK, Replies
  <2>2. seen.stuck \in {"no", "stuck_reconnecting", "stuck_slow"}
    BY DEF TypeInv, Sights
  <2> QED BY <2>1, <2>2 DEF Phase, PhaseOf, AgentPhases, Verdicts
<1>3. entry \in Entries
  BY DEF TypeInv, TypeOK, Entries
<1>4. Audited \in Entries
  BY <1>1, <1>3 DEF Audited, Entries
<1>5. \A e \in Entries : Unhung(e) \in Entries
  <2>1. 0 \in 0 .. StuckTicks
    BY GuardCountAssumption
  <2> QED BY <2>1 DEF Unhung, Entries
<1>6. Blank \in Entries
  BY GuardCountAssumption DEF Blank, Entries
<1>7. SyncAgentState => AgentOK'
  BY <1>1, <1>2 DEF SyncAgentState, AgentOK
<1>8. AuditTurn => dones' \in Nat
  <2>1. dones \in Nat
    BY TypeParts DEF ChatOK
  <2>2. AuditTurn => dones' = dones \/ dones' = dones + 1
    BY Zenon DEF AuditTurn
  <2> QED BY <2>1, <2>2
<1> QED BY <1>1, <1>2, <1>4, <1>5, <1>6, <1>7, <1>8

LEMMA LooksType ==
  ASSUME TypeInv, Look \/ FlushServerQueue \/ NoWindow \/ TooSoon
  PROVE  TypeInv'
<1> USE TypeParts, TypePartsNext
<1>1. CASE Look
  <2>1. PICK s \in {"no", "stuck_reconnecting", "stuck_slow"} :
          /\ IF s = "no" THEN UNCHANGED bounds ELSE Event("stuck")
          /\ seen' = [busy |-> running, aborted |-> aborted, window |-> window,
                      queued |-> queue # <<>>, stuck |-> s]
    BY <1>1 DEF Look
  <2>2. seen' \in Sights
    <3>1. (queue # <<>>) \in BOOLEAN /\ {running, aborted, window} \subseteq BOOLEAN
      BY DEF TypeInv, TypeOK
    <3> QED BY <2>1, <3>1 DEF Sights
  <2>3. TickOK'
    BY <1>1, <2>2 DEF Look, TickOK
  <2>4. BoundsOK'
    BY <2>1, BoundsKept
  <2> QED BY <1>1, <2>3, <2>4, StutterParts DEF Look, files, outer, past, bounds
<1>2. CASE FlushServerQueue \/ TooSoon
  BY <1>2, ReturnType, StutterParts DEF FlushServerQueue, TooSoon, files, outer, past, bounds
<1>3. CASE NoWindow
  <2>1. EntryOK'
    BY <1>3 DEF NoWindow, EntryOK, Entries
  <2> QED BY <1>3, <2>1, ReturnType, StutterParts DEF NoWindow, outer, past, bounds
<1> QED BY <1>1, <1>2, <1>3

LEMMA StudiesType ==
  ASSUME TypeInv, StudyBusy \/ StudyHung \/ StudyIncomplete
  PROVE  TypeInv'
<1> USE TypeParts, TypePartsNext
<1>1. CASE StudyBusy
  <2>1. ChatOK' /\ EntryOK' /\ AgentOK' /\ TickOK'
    <3>1. ChatOK'
      BY <1>1, StudyTypes DEF StudyBusy, ChatOK, outer
    <3>2. EntryOK' /\ AgentOK'
      BY <1>1, StudyTypes DEF StudyBusy, EntryOK
    <3> QED BY <1>1, <3>1, <3>2, ReturnType DEF StudyBusy
  <2> QED BY <1>1, <2>1, StutterParts DEF StudyBusy, outer, bounds
<1>2. CASE StudyHung
  <2>1. EntryOK' /\ TickOK'
    <3>1. Key \in Keys \cup {NoKey} /\ HungTicks \in Nat
      BY GuardCountAssumption, StudyTypes DEF HungTicks, EntryOK, Entries
    <3>2. CASE HungTicks >= StuckTicks
      <4>1. /\ pc' = "stopping" /\ read' = chat /\ UNCHANGED <<seen, plan>>
            /\ entry' = [entry EXCEPT !.hungKey = NoKey, !.hungTicks = 0] /\ pc = "looked"
        BY <1>2, <3>2 DEF StudyHung, Studies
      <4>2. EntryOK'
        <5>1. 0 \in 0 .. StuckTicks
          BY GuardCountAssumption
        <5> QED BY <4>1, <5>1 DEF EntryOK, Entries
      <4> QED BY <4>1, <4>2 DEF TickOK, ChatOK
    <3>3. CASE ~ (HungTicks >= StuckTicks)
      <4>1. entry' = [entry EXCEPT !.hungKey = Key, !.hungTicks = HungTicks] /\ Return
        BY <1>2, <3>3 DEF StudyHung
      <4>2. HungTicks \in 0 .. StuckTicks
        BY <3>1, <3>3, GuardCountAssumption
      <4> QED BY <3>1, <4>1, <4>2, ReturnType DEF EntryOK, Entries
    <3> QED BY <3>2, <3>3
  <2>2. AgentOK'
    BY <1>2, StudyTypes DEF StudyHung
  <2> QED BY <1>2, <2>1, <2>2, StutterParts DEF StudyHung, outer, past, bounds
<1>3. CASE StudyIncomplete
  <2>1. EntryOK' /\ AgentOK'
    BY <1>3, StudyTypes DEF StudyIncomplete, EntryOK
  <2>2. TickOK'
    <3>1. Recovery \in Prompts /\ "Meta" \in Roles
      BY OtherKeys, GuardKeyAssumption DEF Prompts, Roles, OtherRoles
    <3> QED BY <1>3, <3>1, PlannedType DEF StudyIncomplete, TickOK
  <2> QED BY <1>3, <2>1, <2>2, StutterParts DEF StudyIncomplete, outer, past, bounds
<1> QED BY <1>1, <1>2, <1>3

\* The self-queue without its i-th line.
LEMMA WithoutLine ==
  ASSUME NEW S, NEW q \in Seq(S), NEW i \in DOMAIN q
  PROVE  SubSeq(q, 1, i - 1) \o SubSeq(q, i + 1, Len(q)) \in Seq(S) /\ q[i] \in S
<1>1. i \in 1 .. Len(q) /\ Len(q) \in Nat
  BY LenProperties
<1>2. \A j \in 1 .. Len(q) : q[j] \in S
  BY ElementOfSeq
<1>3. SubSeq(q, 1, i - 1) \in Seq(S)
  <2>1. \A j \in 1 .. (i - 1) : q[j] \in S
    BY <1>1, <1>2
  <2>2. 1 \in Int /\ i - 1 \in Int
    BY <1>1
  <2> QED BY ONLY <2>1, <2>2, SubSeqProperties
<1>4. SubSeq(q, i + 1, Len(q)) \in Seq(S)
  <2>1. \A j \in (i + 1) .. Len(q) : q[j] \in S
    BY <1>1, <1>2
  <2>2. i + 1 \in Int /\ Len(q) \in Int
    BY <1>1
  <2> QED BY ONLY <2>1, <2>2, SubSeqProperties
<1> QED BY <1>1, <1>2, <1>3, <1>4, ConcatProperties

LEMMA CompletesFirst ==
  ASSUME selfQueue \in Seq(SelfKeys), Completes # {}
  PROVE  LeastOf(Completes) \in Completes /\ LeastOf(Completes) \in DOMAIN selfQueue
<1>1. Completes \subseteq DOMAIN selfQueue /\ DOMAIN selfQueue \subseteq Nat
  BY LenProperties DEF Completes
<1> QED BY <1>1, LeastIs

LEMMA StudyIdleType ==
  ASSUME TypeInv, StudyIdle
  PROVE  TypeInv'
<1> USE TypeParts, TypePartsNext
<1> DEFINE marked == Phase = "turn_done" /\ entry.token /\ Completes # {}
           i      == LeastOf(Completes)
           items  == IF marked
                     THEN SubSeq(selfQueue, 1, i - 1) \o SubSeq(selfQueue, i + 1, Len(selfQueue))
                     ELSE selfQueue
<1>1. /\ SyncAgentState /\ AuditTurn /\ entry' = Unhung(Audited) /\ selfQueue' = items
      /\ completed' = IF marked THEN completed \cup {selfQueue[i]} ELSE completed
      /\ Decide(chat, items)
      /\ UNCHANGED <<track, session, outer, prompted, bounds>>
  BY DEF StudyIdle
<1>2. items \in Seq(SelfKeys) /\ completed' \subseteq SelfKeys
  <2>1. CASE marked
    <3>1. i \in DOMAIN selfQueue
      BY <2>1, CompletesFirst DEF FilesOK
    <3>2. /\ SubSeq(selfQueue, 1, i - 1) \o SubSeq(selfQueue, i + 1, Len(selfQueue)) \in Seq(SelfKeys)
          /\ selfQueue[i] \in SelfKeys
      BY <3>1, WithoutLine DEF FilesOK
    <3> QED BY <1>1, <2>1, <3>2 DEF FilesOK
  <2>2. CASE ~ marked
    BY <1>1, <2>2 DEF FilesOK
  <2> QED BY <2>1, <2>2
<1> HIDE DEF items, marked, i
<1>3. chat \in Seq(Message)
  BY DEF ChatOK
<1>4. orch' \in Entry /\ TickOK'
  BY <1>1, <1>2, <1>3, DecideType
<1>5. FilesOK'
  BY <1>1, <1>2, <1>4 DEF FilesOK, IsStep
<1>6. EntryOK' /\ AgentOK' /\ dones' \in Nat
  BY <1>1, StudyTypes DEF EntryOK
<1>7. ChatOK'
  BY <1>1, <1>6 DEF ChatOK, outer
<1> QED BY <1>1, <1>4, <1>5, <1>6, <1>7, StutterParts DEF bounds

LEMMA StopType ==
  ASSUME TypeInv, StopHung \/ StopFails
  PROVE  TypeInv'
<1> USE TypeParts, TypePartsNext
<1>1. read \in Seq(Message) /\ selfQueue \in Seq(SelfKeys)
  BY DEF TickOK, FilesOK
<1>2. Decide(read, selfQueue)
  BY DEF StopHung, StopFails
<1>3. orch' \in Entry /\ TickOK'
  BY <1>1, <1>2, DecideType
<1>4. FilesOK'
  BY <1>3 DEF StopHung, StopFails, FilesOK, past, IsStep
<1>5. ChatOK'
  BY DEF StopHung, StopFails, ChatOK, outer, past
<1> QED BY <1>3, <1>4, <1>5, StutterParts DEF StopHung, StopFails, bounds

LEMMA PlanHasKey ==
  ASSUME TypeInv, pc \in {"planned", "admitted", "landed"}
  PROVE  plan.key \in Prompts /\ plan.role \in Roles \cup {""}
BY DEF TypeInv, TypeOK, Prompts

LEMMA SendType ==
  ASSUME TypeInv, Admit \/ Land \/ Throw \/ Record
  PROVE  TypeInv'
<1> USE TypeParts, TypePartsNext
<1>1. pc \in {"planned", "admitted", "landed"} => plan.key \in Keys /\ plan.role \in Roles \cup {""}
  BY PlanHasKey DEF Prompts
<1>2. CASE Admit
  <2>1. orch' \in Entry
    <3>1. pc = "planned"
      BY <1>2 DEF Admit
    <3>2. checkEnqueueLoop(plan.key, chat, {}, orch, track, HistoryTail).entry \in Entry
      BY <1>1, <3>1, CheckType DEF FilesOK
    <3> QED BY <1>2, <3>2 DEF Admit, FilesOK
  <2>2. TickOK'
    <3>1. Return \/ (pc = "planned" /\ pc' = "admitted" /\ UNCHANGED <<seen, read, plan>>)
      BY <1>2 DEF Admit
    <3>2. CASE pc = "planned" /\ pc' = "admitted" /\ UNCHANGED <<seen, read, plan>>
      BY <3>2 DEF TickOK
    <3> QED BY <3>1, <3>2, ReturnType
  <2>3. FilesOK'
    BY <1>2, <2>1 DEF Admit, FilesOK, past, IsStep
  <2> QED BY <1>2, <2>2, <2>3, StutterParts DEF Admit, outer, past, bounds
<1>3. CASE Land
  <2>1. pc = "admitted" /\ pc' = "landed" /\ Prompt(plan.key) /\ plan.key \in Keys
    BY <1>1, <1>3 DEF Land
  <2>2. ChatOK'
    <3>1. queue' \in Seq(Keys)
      BY <1>3 DEF Land, ChatOK
    <3> QED BY <2>1, <3>1, PromptChat
  <2>3. FilesOK'
    BY <1>3, <2>1, PromptEffect DEF Land, FilesOK, files, IsStep
  <2>4. TickOK'
    BY <1>3, <2>1 DEF Land, TickOK
  <2> QED BY <1>3, <2>2, <2>3, <2>4, StutterParts DEF Land, files, bounds
<1>4. CASE Throw
  BY <1>4, ReturnType, StutterParts DEF Throw, files, outer, past, bounds
<1>5. CASE Record
  <2>1. pc = "landed" /\ Return
    BY <1>5 DEF Record
  <2>2. FilesOK'
    <3>1. recordEnqueue(orch, plan.key) \in Entry
      BY <1>1, <2>1, RecordType DEF FilesOK
    <3>2. session' = [turns |-> session.turns + (IF plan.role = "Driver" THEN 1 ELSE 0),
                      role  |-> plan.role]
      BY <1>5 DEF Record
    <3>3. session'.turns \in Nat /\ session'.role \in Roles \cup {""}
      <4>1. session.turns \in Nat /\ session.turns + (IF plan.role = "Driver" THEN 1 ELSE 0) \in Nat
        <5>1. session.turns \in Nat
          BY DEF FilesOK
        <5>2. (IF plan.role = "Driver" THEN 1 ELSE 0) \in Nat
          OBVIOUS
        <5> QED BY <5>1, <5>2
      <4> QED BY <1>1, <2>1, <3>2, <4>1
    <3> QED BY <1>5, <3>1, <3>3 DEF Record, FilesOK, past, IsStep
  <2>3. EntryOK'
    BY <1>5, StudyTypes DEF Record, EntryOK, Entries
  <2> QED BY <1>5, <2>1, <2>2, <2>3, ReturnType, StutterParts DEF Record, outer, past, bounds
<1> QED BY <1>2, <1>3, <1>4, <1>5

LEMMA DieType ==
  ASSUME TypeInv, Die \/ DieAuditing
  PROVE  TypeInv'
<1> USE TypeParts, TypePartsNext
<1>1. CASE Die
  BY <1>1, ReturnType, BoundsKept, StutterParts DEF Die, files, outer, past
<1>2. CASE DieAuditing
  <2>1. ChatOK' /\ AgentOK'
    BY <1>2, StudyTypes DEF DieAuditing, ChatOK, outer
  <2> QED BY <1>2, <2>1, ReturnType, BoundsKept, StutterParts DEF DieAuditing
<1> QED BY <1>1, <1>2

\* The agent marks steps, and moves the header to a step.
LEMMA MarkType ==
  ASSUME TypeInv, NEW key \in Keys, NEW header \in BOOLEAN, MarkDone(key, header)
  PROVE  track' \in Track /\ (track'.header # NoKey => IsStep(track'.header))
<1> DEFINE done == [track EXCEPT !.done = @ \cup {key}]
<1>1. /\ done \in Track /\ done.header = track.header
      /\ track.header # NoKey => IsStep(track.header)
  BY DEF TypeInv, TypeOK, Track
<1>2. track' = done \/ (PendingSteps(done) # {} /\ track' = [done EXCEPT !.header = FirstPending(done)])
  BY DEF MarkDone
<1> HIDE DEF done
<1>3. CASE track' = done
  BY <1>1, <1>3
<1>4. CASE PendingSteps(done) # {} /\ track' = [done EXCEPT !.header = FirstPending(done)]
  <2>1. FirstPending(done) \in Keys /\ IsStep(FirstPending(done))
    BY <1>4, FirstPendingIs DEF IsStep, PendingSteps
  <2> QED BY <1>1, <1>4, <2>1 DEF Track
<1> QED BY <1>2, <1>3, <1>4

LEMMA EndsType ==
  ASSUME TypeInv, NEW verdict \in {"incomplete", "ok"}, Ends(verdict)
  PROVE  /\ chat' \in Seq(Message) /\ running' = FALSE /\ reply' \in Replies
         /\ Key' = Key
<1> DEFINE m == [role |-> "assistant", key |-> NoKey]
<1>1. m \in Message /\ m.role = "assistant"
  BY DEF Message
<1>2. chat \in Seq(Message)
  BY DEF TypeInv, TypeOK
<1>3. chat' = Append(chat, m) /\ running' = FALSE /\ reply' \in Replies
  BY DEF Ends, Replies
<1> QED BY <1>1, <1>2, <1>3, LastKeyOfAppend DEF Key

LEMMA AnswerType ==
  ASSUME TypeInv, AnswerWell \/ AnswerPoorly \/ Hang \/ Stopped
  PROVE  TypeInv'
<1> USE TypeParts, TypePartsNext
<1>1. \A key : IsStep(key) => key \in Keys
  BY StepIsPrompt DEF Prompts
<1>2. CASE AnswerWell
  <2>1. ChatOK'
    BY <1>2, EndsType DEF AnswerWell, ChatOK, past
  <2>2. track' \in Track /\ (track'.header # NoKey => IsStep(track'.header))
    <3>1. PendingSteps(track) # {} => FirstPending(track) \in Keys
      BY FirstPendingType
    <3>2. UNCHANGED track \/ \E key \in Keys : MarkDone(key, TRUE)
      BY <1>1, <1>2, <3>1 DEF AnswerWell
    <3> QED BY <3>2, MarkType DEF FilesOK
  <2>3. FilesOK'
    BY <1>2, <2>2 DEF AnswerWell, FilesOK, past, IsStep
  <2> QED BY <1>2, <2>1, <2>3, StutterParts DEF AnswerWell, tickvars, bounds
<1>3. CASE AnswerPoorly
  <2>1. ChatOK'
    BY <1>3, EndsType DEF AnswerPoorly, ChatOK, past
  <2>2. track' \in Track /\ (track'.header # NoKey => IsStep(track'.header))
    <3>1. UNCHANGED track \/ \E key \in Keys : MarkDone(key, FALSE)
      BY <1>1, <1>3 DEF AnswerPoorly
    <3> QED BY <3>1, MarkType DEF FilesOK
  <2>3. FilesOK'
    BY <1>3, <2>2 DEF AnswerPoorly, FilesOK, past, IsStep
  <2> QED BY <1>3, <2>1, <2>3, BoundsKept, StutterParts DEF AnswerPoorly, tickvars
<1>4. CASE Hang
  <2>1. ChatOK'
    BY <1>4 DEF Hang, ChatOK, past
  <2> QED BY <1>4, <2>1, BoundsKept, StutterParts DEF Hang, tickvars, files, past
<1>5. CASE Stopped
  <2>1. ChatOK'
    <3>1. chat' \in Seq(Message) /\ reply' \in Replies /\ running' = FALSE
      BY <1>5, EndsType DEF Stopped, ChatOK
    <3> QED BY <1>5, <3>1 DEF Stopped, ChatOK, past
  <2> QED BY <1>5, <2>1, BoundsKept, StutterParts DEF Stopped, tickvars, files, past
<1> QED BY <1>2, <1>3, <1>4, <1>5

LEMMA QueueType ==
  ASSUME TypeInv,
         \/ \E k \in SelfKeys : SelfAppend(k)
         \/ \E k \in AgentKeys : AgentQueues(k)
         \/ ServerDrains \/ Person
  PROVE  TypeInv'
<1> USE TypeParts, TypePartsNext
<1>1. ASSUME NEW k \in SelfKeys, SelfAppend(k) PROVE TypeInv'
  <2>1. selfQueue' \in Seq(SelfKeys)
    BY <1>1, AppendProperties DEF SelfAppend, FilesOK
  <2>2. FilesOK'
    BY <1>1, <2>1 DEF SelfAppend, FilesOK, past, IsStep
  <2> QED BY <1>1, <2>2, BoundsKept, StutterParts DEF SelfAppend, tickvars, outer, past
<1>2. ASSUME NEW k \in AgentKeys, AgentQueues(k) PROVE TypeInv'
  <2> DEFINE d == checkEnqueueLoop(k, chat, Pending, orch, track, HistoryTail)
  <2>1. d.entry \in Entry /\ d.key \in Keys
    BY CheckType, GuardKeyAssumption DEF FilesOK
  <2>2. queue' = Append(queue, d.key) /\ orch' = recordEnqueue(d.entry, d.key)
    BY <1>2 DEF AgentQueues
  <2> HIDE DEF d
  <2>3. queue' \in Seq(Keys) /\ orch' \in Entry
    BY <2>1, <2>2, AppendProperties, RecordType DEF ChatOK
  <2>4. FilesOK'
    BY <1>2, <2>3 DEF AgentQueues, FilesOK, past, IsStep
  <2>5. ChatOK'
    BY <1>2, <2>3 DEF AgentQueues, ChatOK, past
  <2> QED BY <1>2, <2>4, <2>5, BoundsKept, StutterParts DEF AgentQueues, tickvars, past
<1>3. CASE ServerDrains
  <2> DEFINE d == checkEnqueueLoop(Head(queue), chat, {queue[i] : i \in 2 .. Len(queue)}, orch,
                                   track, HistoryTail)
  <2>1. Head(queue) \in Keys /\ Tail(queue) \in Seq(Keys)
    BY <1>3, HeadTailProperties DEF ServerDrains, ChatOK
  <2>2. d.entry \in Entry
    BY <2>1, CheckType DEF FilesOK
  <2>3. Prompt(Head(queue)) /\ queue' = Tail(queue) /\ orch' = recordEnqueue(d.entry, Head(queue))
    BY <1>3 DEF ServerDrains
  <2> HIDE DEF d
  <2>4. orch' \in Entry
    BY <2>1, <2>2, <2>3, RecordType
  <2>5. ChatOK'
    BY <2>1, <2>3, PromptChat
  <2>6. FilesOK'
    BY <1>3, <2>1, <2>3, <2>4, PromptEffect DEF ServerDrains, FilesOK, IsStep
  <2> QED BY <1>3, <2>5, <2>6, StutterParts DEF ServerDrains, tickvars, bounds
<1>4. CASE Person
  <2>1. ChatOK'
    <3>1. queue' \in Seq(Keys)
      BY <1>4 DEF Person, ChatOK
    <3> QED BY <1>4, <3>1, PromptChat, KeyAssumption DEF Person
  <2>2. FilesOK'
    BY <1>4, PromptEffect, KeyAssumption DEF Person, FilesOK, files, IsStep
  <2> QED BY <1>4, <2>1, <2>2, BoundsKept, StutterParts DEF Person, tickvars, files
<1> QED BY <1>1, <1>2, <1>3, <1>4

LEMMA TimeType ==
  ASSUME TypeInv, WindowGoes \/ WindowReturns \/ Elapse \/ Age
  PROVE  TypeInv'
<1> USE TypeParts, TypePartsNext
<1>1. CASE WindowGoes
  <2>1. ChatOK'
    BY <1>1 DEF WindowGoes, ChatOK, past
  <2> QED BY <1>1, <2>1, BoundsKept, StutterParts DEF WindowGoes, tickvars, files, past
<1>2. CASE WindowReturns
  <2>1. ChatOK'
    BY <1>2 DEF WindowReturns, ChatOK, past
  <2> QED BY <1>2, <2>1, StutterParts DEF WindowReturns, tickvars, files, past, bounds
<1>3. CASE Elapse
  <2>1. EntryOK'
    BY <1>3 DEF Elapse, EntryOK, Entries
  <2> QED BY <1>3, <2>1, StutterParts DEF Elapse, tickvars, outer, past, bounds
<1>4. CASE Age
  <2>1. orch' \in Entry
    BY <1>4 DEF Age, FilesOK, Entry, Ages
  <2>2. FilesOK'
    BY <1>4, <2>1 DEF Age, FilesOK, past, IsStep
  <2> QED BY <1>4, <2>2, StutterParts DEF Age, tickvars, outer, past, bounds
<1> QED BY <1>1, <1>2, <1>3, <1>4

LEMMA InitTypes == Init => TypeInv
<1> SUFFICES ASSUME Init PROVE TypeInv
  OBVIOUS
<1> USE TypeParts
<1>1. ChatOK
  BY EmptySeq DEF Init, ChatOK, Replies
<1>2. FilesOK
  <2>1. TrackSteps # <<>> => TrackSteps[1] \in Keys /\ IsStep(TrackSteps[1])
    <3>1. TrackSteps # <<>> => 1 \in DOMAIN TrackSteps
      BY TrackAssumption, EmptySeq, LenProperties
    <3> QED BY <3>1, StepIsKey
  <2>2. track \in Track /\ (track.header # NoKey => IsStep(track.header))
    <3>1. \A h \in Keys \cup {NoKey} : LET t == [done |-> {}, header |-> h]
                                     IN  t \in Track /\ t.header = h
      BY DEF Track
    <3>2. \E h \in Keys \cup {NoKey} :
            track = [done |-> {}, header |-> h] /\ (h # NoKey => IsStep(h))
      BY <2>1 DEF Init
    <3> QED BY <3>1, <3>2
  <2> QED BY <2>2, EmptySeq DEF Init, FilesOK, NoEntry, Entry, Ages
<1>3. EntryOK
  <2>1. 0 \in 0 .. StuckTicks
    BY GuardCountAssumption
  <2> QED BY <2>1 DEF Init, EntryOK, Entries, Blank
<1>4. AgentOK /\ BoundsOK
  BY DEF Init, AgentOK, AgentPhases, BoundsOK
<1>5. TickOK
  BY EmptySeq, KeyAssumption DEF Init, TickOK, NoPlan, Unseen, Sights
<1> QED BY <1>1, <1>2, <1>3, <1>4, <1>5

LEMMA StepTypes == TypeInv /\ [Next]_vars => TypeInv'
<1> SUFFICES ASSUME TypeInv, [Next]_vars PROVE TypeInv'
  OBVIOUS
<1>1. CASE UNCHANGED vars
  BY <1>1, TypeParts, TypePartsNext, StutterParts
  DEF vars, tickvars, files, outer, past, bounds
<1> QED BY <1>1, LooksType, StudiesType, StudyIdleType, StopType, SendType, DieType, AnswerType,
           QueueType, TimeType DEF Next, Tick

(***************************************************************************)
(* Types, over every tick and whatever happens between its steps: the      *)
(* guard's files stay readable, the agent's phase is one of those the code *)
(* knows, and a prompt is planned exactly while a tick has one to send.     *)
(***************************************************************************)
THEOREM TypeCorrect == Spec => []TypeOK
<1>1. TypeInv => TypeOK
  BY DEF TypeInv
<1> QED BY <1>1, InitTypes, StepTypes, PTL DEF Spec

------------------------------------------------------------------------------
(* Finished turns *)

\* A turn found done has a prompt.
LEMMA DoneHasKey ==
  ASSUME Phase = "turn_done", seen \in Sights
  PROVE  Key # NoKey
<1>1. verifyTurn(chat, reply) = "ok"
  BY DEF Phase, PhaseOf, Sights
<1> QED BY <1>1 DEF verifyTurn, Key

\* A step that counts no turn, forgets no key and lands no prompt.
QuietStep == /\ dones' = dones /\ crashes' \in {crashes, crashes + 1}
             /\ Key' \in {Key, NoKey} /\ entry'.doneKey = entry.doneKey
             /\ pc' = "landed" => pc = "landed"

LEMMA QuietKeeps ==
  ASSUME TypeInv, AuditInv, QuietStep
  PROVE  AuditInv'
<1>1. dones \in Nat /\ crashes \in Nat
  BY TypeParts DEF ChatOK, BoundsOK
<1>2. crashes' \in Nat /\ crashes <= crashes' /\ dones' = dones
  <2>1. dones' = dones /\ (crashes' = crashes \/ crashes' = crashes + 1)
    BY DEF QuietStep
  <2> QED BY <1>1, <2>1
<1>3. dones' <= 1 + crashes'
  <2>1. dones <= 1 + crashes
    BY DEF AuditInv
  <2>2. \A d, c, e \in Nat : d <= 1 + c /\ c <= e => d <= 1 + e
    BY ONLY TRUE
  <2> QED BY ONLY <1>1, <1>2, <2>1, <2>2
<1>4. entry'.doneKey # Key' /\ Key' # NoKey => dones <= crashes
  BY DEF AuditInv, QuietStep
<1>5. pc' = "landed" => dones <= crashes
  BY DEF AuditInv, QuietStep
<1>6. dones <= crashes => dones' <= crashes'
  BY <1>1, <1>2
<1> QED BY <1>3, <1>4, <1>5, <1>6 DEF AuditInv

LEMMA EndsQuietly ==
  ASSUME Return \/ \E msgs, items : Decide(msgs, items)
  PROVE  pc' # "landed"
BY DEF Return, Decide, Follow

LEMMA AuditsOnce ==
  ASSUME TypeInv, AuditInv, StudyBusy \/ StudyIdle
  PROVE  AuditInv'
<1>1. /\ AuditTurn /\ Key' = Key /\ crashes' = crashes /\ pc' # "landed"
      /\ entry' = Audited \/ entry' = Unhung(Audited)
  BY EndsQuietly DEF StudyBusy, StudyIdle, outer, bounds, Key
<1>2. dones \in Nat /\ crashes \in Nat /\ entry \in Entries
  BY TypeParts DEF ChatOK, BoundsOK, EntryOK
<1>3. entry'.doneKey = Audited.doneKey
  BY <1>1, StudyTypes DEF Unhung, Entries
<1>4. CASE AuditsDone
  <2>1. entry.doneKey # Key /\ Key # NoKey
    BY <1>4, DoneHasKey DEF AuditsDone, TypeInv
  <2>2. dones <= crashes
    BY <2>1 DEF AuditInv
  <2>3. entry'.doneKey = Key /\ dones' = dones + 1
    BY <1>1, <1>2, <1>3, <1>4 DEF Audited, AuditTurn, Entries
  <2>4. dones' <= 1 + crashes' /\ entry'.doneKey = Key' /\ pc' # "landed"
    BY <1>1, <1>2, <2>2, <2>3
  <2> QED BY <2>4 DEF AuditInv
<1>5. CASE ~ AuditsDone
  <2>1. entry'.doneKey = entry.doneKey /\ dones' = dones
    BY <1>1, <1>3, <1>5 DEF Audited, AuditTurn
  <2> QED BY <1>1, <2>1, QuietKeeps DEF QuietStep
<1> QED BY <1>4, <1>5

LEMMA PromptsCountAnew ==
  ASSUME TypeInv, AuditInv, NEW key \in Keys, Prompt(key), UNCHANGED <<entry, crashes>>,
         pc' = "landed" => pc = "landed" \/ key # Keyless
  PROVE  AuditInv'
<1>1. /\ dones' = IF key = Keyless THEN dones ELSE 0
      /\ key = Keyless => Key' \in {Key, NoKey}
  BY PromptEffect, TypeParts
<1>2. CASE key = Keyless
  BY <1>1, <1>2, QuietKeeps DEF QuietStep
<1>3. CASE key # Keyless
  <2>1. dones' = 0 /\ crashes' \in Nat
    BY <1>1, <1>3, TypeParts DEF BoundsOK
  <2> QED BY <2>1 DEF AuditInv
<1> QED BY <1>2, <1>3

LEMMA StepAudits == TypeInv /\ AuditInv /\ [Next]_vars => AuditInv'
<1> SUFFICES ASSUME TypeInv, AuditInv, [Next]_vars PROVE AuditInv'
  OBVIOUS
<1>1. dones \in Nat /\ crashes \in Nat /\ entry \in Entries
  BY TypeParts DEF ChatOK, BoundsOK, EntryOK
<1>2. \A k : Event(k) => crashes' = crashes
  BY DEF Event
<1>3. UNCHANGED chat => Key' = Key
  BY DEF Key
<1> USE DEF QuietStep
<1>4. CASE UNCHANGED vars
  <2>1. UNCHANGED <<chat, dones, crashes, entry, pc>>
    BY <1>4 DEF vars, outer, past, bounds, files, tickvars
  <2> QED BY <1>3, <2>1, QuietKeeps
<1>5. CASE Look \/ FlushServerQueue \/ NoWindow \/ TooSoon
  <2>1. UNCHANGED <<chat, dones, crashes>> /\ pc' # "landed"
    BY <1>2, <1>5, EndsQuietly
    DEF Look, FlushServerQueue, NoWindow, TooSoon, outer, past, bounds
  <2>2. entry'.doneKey = entry.doneKey
    BY <1>1, <1>5 DEF Look, FlushServerQueue, NoWindow, TooSoon, files, Entries
  <2> QED BY <1>3, <2>1, <2>2, QuietKeeps
<1>6. CASE StudyHung \/ StudyIncomplete
  <2>1. UNCHANGED <<chat, dones, crashes>> /\ pc' # "landed"
    BY <1>6, EndsQuietly DEF StudyHung, StudyIncomplete, outer, past, bounds
  <2>2. entry'.doneKey = entry.doneKey
    BY <1>1, <1>6 DEF StudyHung, StudyIncomplete, Unhung, Entries
  <2> QED BY <1>3, <2>1, <2>2, QuietKeeps
<1>7. CASE StopHung \/ StopFails \/ Throw \/ Die \/ Admit
  <2>1. UNCHANGED <<chat, dones, entry>> /\ crashes' \in {crashes, crashes + 1}
    BY <1>7 DEF StopHung, StopFails, Throw, Die, Admit, outer, past, files, bounds, Crash
  <2>2. pc' # "landed"
    BY <1>7, EndsQuietly DEF StopHung, StopFails, Throw, Die, Admit
  <2> QED BY <1>3, <2>1, <2>2, QuietKeeps
<1>8. CASE DieAuditing
  <2>1. entry.doneKey # Key /\ Key # NoKey
    BY <1>8, DoneHasKey DEF DieAuditing, AuditsDone, TypeInv
  <2>2. dones <= crashes
    BY <2>1 DEF AuditInv
  <2>3. dones' = dones + 1 /\ crashes' = crashes + 1
    BY <1>8 DEF DieAuditing, AuditTurn, Crash
  <2> QED BY <1>1, <2>2, <2>3 DEF AuditInv
<1>9. CASE Land
  <2>1. plan.key \in Prompts
    BY <1>9, PlanHasKey DEF Land
  <2> QED BY <1>9, <2>1, PromptsCountAnew DEF Land, files, bounds, Prompts
<1>10. CASE Record
  <2>1. dones <= crashes /\ UNCHANGED <<dones, crashes>> /\ pc' # "landed"
    BY <1>10, EndsQuietly DEF Record, AuditInv, past, bounds
  <2> QED BY <1>1, <2>1 DEF AuditInv
<1>11. CASE AnswerWell \/ AnswerPoorly \/ Stopped
  <2>1. UNCHANGED <<dones, crashes, entry, pc>>
    BY <1>2, <1>11 DEF AnswerWell, AnswerPoorly, Stopped, past, bounds, files, tickvars
  <2>2. Key' = Key
    BY <1>3, <1>11, EndsType DEF AnswerWell, AnswerPoorly, Stopped
  <2> QED BY <2>1, <2>2, QuietKeeps
<1>12. CASE \/ Hang \/ WindowGoes \/ WindowReturns \/ Elapse \/ Age
            \/ \E k \in SelfKeys : SelfAppend(k)
            \/ \E k \in AgentKeys : AgentQueues(k)
  <2>1. UNCHANGED <<chat, dones, crashes, pc>>
    BY <1>2, <1>12 DEF Hang, WindowGoes, WindowReturns, Elapse, Age, SelfAppend, AgentQueues,
                       outer, past, bounds, tickvars
  <2>2. entry'.doneKey = entry.doneKey
    BY <1>1, <1>12 DEF Hang, WindowGoes, WindowReturns, Elapse, Age, SelfAppend, AgentQueues,
                       files, Entries
  <2> QED BY <1>3, <2>1, <2>2, QuietKeeps
<1>13. CASE ServerDrains
  <2>1. Head(queue) \in Keys
    BY <1>13, HeadTailProperties, TypeParts DEF ServerDrains, ChatOK
  <2> QED BY <1>13, <2>1, PromptsCountAnew DEF ServerDrains, tickvars, bounds
<1>14. CASE Person
  BY <1>2, <1>14, PromptsCountAnew, KeyAssumption DEF Person, files, tickvars
<1> QED BY <1>4, <1>5, <1>6, <1>7, <1>8, <1>9, <1>10, <1>11, <1>12, <1>13, <1>14, AuditsOnce
        DEF Next, Tick

(***************************************************************************)
(* A finished turn is counted once in TURNLOG, however often a tick finds   *)
(* it finished and whatever rewrites the state file in between; each kill   *)
(* of the guard between the line and the file may add one.  The file        *)
(* forgets the key only when it records a prompt, and by then the turn is   *)
(* another: no prompt of the guard is free text.                            *)
(***************************************************************************)
THEOREM TurnsAuditedOnce == Spec => []AuditedOnce
<1>1. Init => AuditInv
  <2> SUFFICES ASSUME Init PROVE AuditInv
    OBVIOUS
  <2>1. DOMAIN <<>> = {}
    OBVIOUS
  <2>2. UserAt(chat) = {}
    BY <2>1 DEF Init, UserAt
  <2>3. Key = NoKey
    BY <2>2 DEF Key, lastUserPromptKey
  <2>4. dones = 0 /\ crashes = 0 /\ pc = "idle"
    BY DEF Init
  <2> QED BY <2>3, <2>4 DEF AuditInv
<1>2. AuditInv => AuditedOnce
  BY DEF AuditInv, AuditedOnce
<1> QED BY <1>1, <1>2, InitTypes, StepTypes, StepAudits, PTL DEF Spec

------------------------------------------------------------------------------
(* The agent's own queue *)

\* No step's name occurs inside another's: completeSelfQueueItem then marks the
\* step it is called for.
StepsApart == \A m \in StepMatches : m[1] = m[2]

\* What is added to a chat by the agent is no prompt.
LEMMA EndsPrompts ==
  ASSUME TypeInv, NEW verdict, Ends(verdict)
  PROVE  \A i \in UserAt(chat') : i \in UserAt(chat) /\ chat'[i].key = chat[i].key
<1> DEFINE m == [role |-> "assistant", key |-> NoKey]
<1>1. chat \in Seq(Message) /\ m \in Message /\ m.role = "assistant" /\ chat' = Append(chat, m)
  BY TypeParts DEF ChatOK, Message, Ends
<1> HIDE DEF m
<1>2. /\ chat' \in Seq(Message) /\ Len(chat') = Len(chat) + 1 /\ Len(chat) \in Nat
      /\ \A i \in 1 .. Len(chat) : chat'[i] = chat[i]
      /\ chat'[Len(chat) + 1] = m
  BY <1>1, AppendProperties, LenProperties
<1>3. DOMAIN chat' = 1 .. (Len(chat) + 1) /\ DOMAIN chat = 1 .. Len(chat)
  BY <1>1, <1>2, LenProperties
<1> SUFFICES ASSUME NEW i \in UserAt(chat')
             PROVE  i \in UserAt(chat) /\ chat'[i].key = chat[i].key
  OBVIOUS
<1>4. i \in 1 .. (Len(chat) + 1) /\ chat'[i].role = "user"
  BY <1>3 DEF UserAt
<1>5. i # Len(chat) + 1
  BY <1>1, <1>2, <1>4
<1>6. i \in 1 .. Len(chat)
  BY <1>2, <1>4, <1>5
<1> QED BY <1>2, <1>3, <1>4, <1>6 DEF UserAt

LEMMA PromptIsPrompted ==
  ASSUME TypeInv, PromptedInv, NEW key \in Keys, Prompt(key)
  PROVE  PromptedInv'
<1>1. /\ prompted' = prompted \cup {key} /\ completed' = completed
      /\ \A i \in UserAt(chat') : \/ chat'[i].key = key
                                  \/ \E j \in UserAt(chat) : chat'[i].key = chat[j].key
  BY PromptEffect, TypeParts
<1> QED BY <1>1 DEF PromptedInv

LEMMA SelfDoneIsPrompted ==
  ASSUME StepsApart, TypeInv, PromptedInv, StudyIdle
  PROVE  PromptedInv'
<1>1. UNCHANGED <<chat, prompted>>
  BY DEF StudyIdle, outer
<1>2. CASE Phase = "turn_done" /\ entry.token /\ Completes # {}
  <2>1. completed' = completed \cup {selfQueue[LeastOf(Completes)]}
    BY <1>2 DEF StudyIdle
  <2>2. LeastOf(Completes) \in Completes
    BY <1>2, CompletesFirst, TypeParts DEF FilesOK
  <2>3. selfQueue[LeastOf(Completes)] = Key
    <3>1. <<Key, selfQueue[LeastOf(Completes)]>> \in StepMatches
      BY <2>2 DEF Completes
    <3> QED BY <3>1 DEF StepsApart
  <2>4. Key \in prompted
    <3>1. Key # NoKey
      BY <1>2, DoneHasKey DEF TypeInv
    <3>2. \E i \in KeyedAt(chat) : Key = chat[i].key
      BY <3>1, LastKeyFound, TypeParts DEF ChatOK, Key
    <3> QED BY <3>2 DEF KeyedAt, PromptedInv
  <2> QED BY <1>1, <2>1, <2>3, <2>4 DEF PromptedInv
<1>3. CASE ~ (Phase = "turn_done" /\ entry.token /\ Completes # {})
  <2>1. completed' = completed
    BY <1>3, Zenon DEF StudyIdle
  <2> QED BY <1>1, <2>1 DEF PromptedInv
<1> QED BY <1>2, <1>3

LEMMA StepPrompts == StepsApart /\ TypeInv /\ PromptedInv /\ [Next]_vars => PromptedInv'
<1> SUFFICES ASSUME StepsApart, TypeInv, PromptedInv, [Next]_vars PROVE PromptedInv'
  OBVIOUS
<1>1. ASSUME UNCHANGED <<chat, prompted, completed>> PROVE PromptedInv'
  BY <1>1 DEF PromptedInv
<1>2. CASE UNCHANGED vars
  BY <1>1, <1>2 DEF vars, outer, past
<1>3. CASE \/ Look \/ FlushServerQueue \/ NoWindow \/ TooSoon \/ StudyBusy \/ StudyHung
           \/ StopHung \/ StopFails \/ StudyIncomplete \/ Admit \/ Record \/ Throw \/ Die
           \/ DieAuditing
  BY <1>1, <1>3 DEF Look, FlushServerQueue, NoWindow, TooSoon, StudyBusy, StudyHung, StopHung,
     StopFails, StudyIncomplete, Admit, Record, Throw, Die, DieAuditing, outer, past
<1>4. CASE \/ Hang \/ WindowGoes \/ WindowReturns \/ Elapse \/ Age
           \/ \E k \in SelfKeys : SelfAppend(k)
           \/ \E k \in AgentKeys : AgentQueues(k)
  BY <1>1, <1>4 DEF Hang, WindowGoes, WindowReturns, Elapse, Age, SelfAppend, AgentQueues,
     outer, past
<1>5. CASE AnswerWell \/ AnswerPoorly \/ Stopped
  <2>1. UNCHANGED <<prompted, completed>>
    BY <1>5 DEF AnswerWell, AnswerPoorly, Stopped, past
  <2>2. UNCHANGED chat \/ \E v : Ends(v)
    BY <1>5 DEF AnswerWell, AnswerPoorly, Stopped
  <2>3. CASE UNCHANGED chat
    BY <1>1, <2>1, <2>3
  <2>4. CASE \E v : Ends(v)
    BY <2>1, <2>4, EndsPrompts DEF PromptedInv
  <2> QED BY <2>2, <2>3, <2>4
<1>6. CASE Land
  <2>1. plan.key \in Keys /\ Prompt(plan.key)
    BY <1>6, PlanHasKey DEF Land, Prompts
  <2> QED BY <2>1, PromptIsPrompted
<1>7. CASE ServerDrains
  <2>1. Head(queue) \in Keys
    BY <1>7, HeadTailProperties, TypeParts DEF ServerDrains, ChatOK
  <2> QED BY <1>7, <2>1, PromptIsPrompted DEF ServerDrains
<1>8. CASE Person
  BY <1>8, PromptIsPrompted, KeyAssumption DEF Person
<1> QED BY <1>2, <1>3, <1>4, <1>5, <1>6, <1>7, <1>8, SelfDoneIsPrompted DEF Next, Tick

(***************************************************************************)
(* No line of the agent's own queue is marked done before its step was a    *)
(* prompt in the chat, provided no step's name occurs inside another's: the *)
(* turn a tick finds done is the turn of the last keyed prompt, and what    *)
(* the tick marks is a line with that prompt's step.                        *)
(***************************************************************************)
THEOREM SelfDoneIsAsked ==
  ASSUME StepsApart
  PROVE  Spec => []SelfDoneWasPrompted
<1>1. Init => PromptedInv
  <2> SUFFICES ASSUME Init PROVE PromptedInv
    OBVIOUS
  <2>1. DOMAIN <<>> = {}
    OBVIOUS
  <2> QED BY <2>1 DEF Init, PromptedInv, UserAt
<1>2. PromptedInv => SelfDoneWasPrompted
  BY DEF PromptedInv, SelfDoneWasPrompted
<1>3. TypeInv /\ PromptedInv /\ [Next]_vars => PromptedInv'
  BY StepPrompts
<1> QED BY <1>1, <1>2, <1>3, InitTypes, StepTypes, PTL DEF Spec

------------------------------------------------------------------------------
(* What is planned *)

\* The agent asks itself for no step of its track.
SelfApart == \A k \in SelfKeys : ~ IsStep(k)

\* A tick that decides comes to a prompt that is due, or to none.
LEMMA DecidesWhatIsDue ==
  ASSUME TypeInv, NEW msgs, NEW items \in Seq(SelfKeys), Decide(msgs, items), pc' = "planned"
  PROVE  Due(plan'.key)
<1> DEFINE p == planGuardNudge(msgs, items)
<1>1. Sound(p) /\ Follow(p)
  BY PlanIsSound DEF Decide
<1> HIDE DEF p
<1>2. p.action # "skip" /\ plan' = [key |-> p.key, role |-> p.role, force |-> p.action = "send"]
  BY <1>1 DEF Follow, Return
<1> QED BY <1>1, <1>2 DEF Sound

LEMMA StepPlansWhatIsDue ==
  ASSUME TypeInv, [Next]_vars, pc # "planned", pc' = "planned"
  PROVE  Due(plan'.key)
<1>1. CASE StudyIncomplete
  <2>1. plan'.key = Recovery
    BY <1>1 DEF StudyIncomplete
  <2> QED BY <2>1, OtherKeys DEF Due
<1>2. CASE StudyIdle
  <2>1. selfQueue' \in Seq(SelfKeys)
    BY <1>2, StudyIdleType DEF TypeInv, TypeOK
  <2>2. Decide(chat, selfQueue')
    BY <1>2 DEF StudyIdle
  <2> QED BY <2>1, <2>2, DecidesWhatIsDue
<1>3. CASE StopHung \/ StopFails
  <2>1. Decide(read, selfQueue) /\ selfQueue \in Seq(SelfKeys)
    BY <1>3, TypeParts DEF StopHung, StopFails, FilesOK
  <2> QED BY <2>1, DecidesWhatIsDue
<1>4. CASE \/ Look \/ FlushServerQueue \/ NoWindow \/ TooSoon \/ StudyBusy \/ StudyHung
           \/ Admit \/ Land \/ Record \/ Throw \/ Die \/ DieAuditing
  BY <1>4 DEF Look, FlushServerQueue, NoWindow, TooSoon, StudyBusy, StudyHung,
     Admit, Land, Record, Throw, Die, DieAuditing, Return
<1>5. CASE \/ Hang \/ WindowGoes \/ WindowReturns \/ Elapse \/ Age
           \/ \E k \in SelfKeys : SelfAppend(k)
           \/ \E k \in AgentKeys : AgentQueues(k)
           \/ AnswerWell \/ AnswerPoorly \/ Stopped \/ ServerDrains \/ Person
  BY <1>5 DEF Hang, WindowGoes, WindowReturns, Elapse, Age, SelfAppend, AgentQueues,
     AnswerWell, AnswerPoorly, Stopped, ServerDrains, Person, tickvars
<1>6. CASE UNCHANGED vars
  BY <1>6 DEF vars, tickvars
<1> QED BY <1>1, <1>2, <1>3, <1>4, <1>5, <1>6 DEF Next, Tick

(***************************************************************************)
(* The guard plans no step that is done, unless the header names a done     *)
(* step, provided the agent's own queue names no step of the track: the     *)
(* step chosen from the tracks, the one a done step is redirected to and    *)
(* the fallback are all the header's or a pending one, and no other prompt  *)
(* is a step.  (A queue that names one is asked for before the track, and   *)
(* with every step done there is none to redirect it to.)                   *)
(***************************************************************************)
THEOREM PlansAreDue ==
  ASSUME SelfApart
  PROVE  Spec => PlansPendingSteps
<1>1. TypeInv /\ [Next]_vars =>
        [pc # "planned" /\ pc' = "planned" /\ IsStep(plan'.key) =>
           plan'.key \notin track.done \/ track.header \in track.done]_vars
  BY StepPlansWhatIsDue DEF Due, SelfApart
<1> QED BY <1>1, InitTypes, StepTypes, PTL DEF Spec, PlansPendingSteps
==============================================================================
