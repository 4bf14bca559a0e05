---------------------------- MODULE WatchdogProofs ----------------------------
(***************************************************************************)
(* Type correctness of Watchdog, and that a prompt the watchdog submitted   *)
(* gets its full time, for every number of windows and all limits, as long  *)
(* as ticks do not overlap.                                                 *)
(***************************************************************************)
EXTENDS Watchdog, WellFoundedInduction, TLAPS

(***************************************************************************)
(* The window a tick recovers next is one of those due.                     *)
(***************************************************************************)
LEMMA ForemostIsDue ==
  ASSUME NEW S, S \subseteq Nat, S # {}
  PROVE  Foremost(S) \in S
<1>1. PICK x \in S : \A y \in S : ~ (<<y, x>> \in OpToRel(<, Nat))
  BY WFMin, NatLessThanWellFounded
<1>2. \A y \in S : ~ (y < x)
  BY <1>1 DEF OpToRel
<1>3. \A y \in S : x <= y
  BY <1>2
<1> QED
  BY <1>3 DEF Foremost

------------------------------------------------------------------------------
(* Type correctness *)

LEMMA DueType ==
  ASSUME TypeOK, NEW t \in Ticks, due[t] # {}
  PROVE  /\ Foremost(due[t]) \in due[t]
         /\ Foremost(due[t]) \in Windows
         /\ prompt[Foremost(due[t])] \in Prompt
<1>1. due[t] \subseteq Windows /\ Windows \subseteq Nat
  BY WindowAssumption DEF TypeOK
<1>2. Foremost(due[t]) \in due[t]
  BY <1>1, ForemostIsDue
<1> QED BY <1>1, <1>2 DEF TypeOK

\* What a tick that is busy recovering a window may assume.
LEMMA RecoveringType ==
  ASSUME TypeOK, NEW t \in Ticks, pc[t] \in {"stopping", "submitting", "resending"}
  PROVE  /\ held[t] \in Prompt
         /\ due[t] # {}
         /\ Foremost(due[t]) \in due[t]
         /\ Foremost(due[t]) \in Windows
<1>1. held[t] \in Prompt \cup {None} /\ held[t] # None /\ due[t] # {}
  BY DEF TypeOK
<1> QED BY <1>1, DueType

LEMMA NotedType ==
  ASSUME TypeOK, NEW t \in Ticks
  PROVE  /\ Noted(t) \in [Windows -> Ages \cup {None}]
         /\ stuckWindowsDue(t) \subseteq Windows
<1>1. 0 \in Ages
  BY AgeAssumption DEF Ages
<1>2. \A w \in Windows : tracker[w] \in Ages \cup {None}
  BY DEF TypeOK
<1>3. \A w \in Windows : Noted(t)[w] \in Ages \cup {None}
  BY <1>1, <1>2 DEF Noted
<1> QED BY <1>3 DEF Noted, stuckWindowsDue, SeenBusy

\* The parts of TypeOK, by whom they are about.
PeriodOK == /\ timerOn \in BOOLEAN /\ slowPoll \in BOOLEAN
            /\ idleTicks \in 0 .. IdleAfter
DaemonOK == /\ paused \in BOOLEAN
            /\ loopTick \in 0 .. (EnsureEvery - 1)
            /\ tracker \in [Windows -> Ages \cup {None}]
            /\ failing \in [Windows -> Ages \cup {None}]
CallsOK  == /\ pc \in [Ticks -> Phases]
            /\ seen \in [Ticks -> [Windows -> Views]]
            /\ due \in [Ticks -> SUBSET Windows]
            /\ stopping \in [Ticks -> {"slow", "failing"}]
            /\ held \in [Ticks -> Prompt \cup {None}]
            /\ \A t \in Ticks :
                 held[t] = None <=> pc[t] \notin {"stopping", "submitting", "resending"}
            /\ \A t \in Ticks : held[t] # None => due[t] # {}
CursorOK == /\ busy \subseteq Windows /\ mine \subseteq Windows /\ drafts \subseteq Windows
            /\ genAge \in [Windows -> Ages]
            /\ prompt \in [Windows -> Prompt]
OthersOK == /\ waiting \in BOOLEAN /\ loopUp \in BOOLEAN
            /\ prompts \in Nat /\ faults \in Nat

LEMMA TypeParts ==
  /\ TypeOK <=> PeriodOK /\ DaemonOK /\ CallsOK /\ CursorOK /\ OthersOK
  /\ TypeOK' <=> PeriodOK' /\ DaemonOK' /\ CallsOK' /\ CursorOK' /\ OthersOK'
BY DEF TypeOK, PeriodOK, DaemonOK, CallsOK, CursorOK, OthersOK

LEMMA FrameTypes ==
  /\ PeriodOK /\ UNCHANGED period => PeriodOK'
  /\ PeriodOK /\ DaemonOK /\ UNCHANGED daemon => PeriodOK' /\ DaemonOK'
  /\ CallsOK /\ UNCHANGED calls => CallsOK'
  /\ CursorOK /\ UNCHANGED cursor => CursorOK'
  /\ OthersOK /\ UNCHANGED others => OthersOK'
BY DEF PeriodOK, DaemonOK, CallsOK, CursorOK, OthersOK, period, daemon, calls, cursor, others

\* What the building blocks of the actions preserve.
LEMMA EndTickType ==
  ASSUME TypeOK, NEW t \in Ticks, NEW isIdle \in BOOLEAN, EndTick(t, isIdle)
  PROVE  PeriodOK' /\ CallsOK'
<1>1. PeriodOK'
  BY PeriodAssumption DEF TypeOK, PeriodOK, EndTick, SetAdaptiveInterval
<1>2. Unseen \in [Windows -> Views]
  BY DEF Unseen, Views
<1>3. CallsOK'
  BY <1>2 DEF TypeOK, CallsOK, EndTick, Phases
<1> QED BY <1>1, <1>3

LEMMA ProceedType ==
  ASSUME TypeOK, NEW t \in Ticks, NEW rest \in SUBSET Windows, Proceed(t, rest),
         UNCHANGED <<seen, stopping>>
  PROVE  CallsOK'
BY DEF TypeOK, CallsOK, Proceed, Phases

LEMMA SubmitType ==
  ASSUME TypeOK, NEW w \in Windows, NEW p \in Prompt, NEW b \in BOOLEAN,
         Submit(w, p, b), drafts' \subseteq Windows
  PROVE  CursorOK'
<1>1. 0 \in Ages
  BY AgeAssumption DEF Ages
<1> QED BY <1>1 DEF TypeOK, CursorOK, Submit

LEMMA RecoveredType ==
  ASSUME TypeOK, NEW t \in Ticks, pc[t] \in {"submitting", "resending"}, Recovered(t)
  PROVE  PeriodOK' /\ DaemonOK' /\ CallsOK'
<1> DEFINE w == Foremost(due[t])
<1>1. due[t] \ {w} \in SUBSET Windows
  BY DEF TypeOK
<1>2. CallsOK'
  BY <1>1, ProceedType DEF Recovered
<1>3. PeriodOK' /\ DaemonOK'
  BY DEF TypeOK, PeriodOK, DaemonOK, Recovered, Unfail, period
<1> QED BY <1>2, <1>3

LEMMA AfterDrainType ==
  ASSUME TypeOK, NEW t \in Ticks, pc[t] = "draining", NEW r \in BOOLEAN, AfterDrain(t, r),
         UNCHANGED <<seen, held>>
  PROVE  /\ failing' \in [Windows -> Ages \cup {None}]
         /\ CallsOK'
<1>1. 0 \in Ages
  BY AgeAssumption DEF Ages
<1>2. held[t] = None
  BY DEF TypeOK
<1>3. failing' \in [Windows -> Ages \cup {None}]
  BY <1>1 DEF TypeOK, AfterDrain
<1>4. due' \in [Ticks -> SUBSET Windows] /\ \A u \in Ticks : u # t => due'[u] = due[u]
  BY DEF TypeOK, AfterDrain, SeenBusy
<1>5. CallsOK'
  BY <1>2, <1>4 DEF TypeOK, CallsOK, AfterDrain, Phases
<1> QED BY <1>3, <1>5

LEMMA InitType == Init => TypeOK
<1> SUFFICES ASSUME Init PROVE TypeOK
  OBVIOUS
<1>1. 0 \in Ages /\ 0 \in 0 .. IdleAfter /\ 0 \in 0 .. (EnsureEvery - 1)
  BY AgeAssumption, PeriodAssumption DEF Ages
<1>2. Unseen \in [Windows -> Views] /\ Begun \in Prompt
  BY DEF Unseen, Views, Begun, Prompt
<1> QED BY <1>1, <1>2 DEF Init, TypeOK, Phases

\* The actions, by the part of the daemon they belong to.
LEMMA ObserveType == ASSUME TypeOK, NEW t \in Ticks, Observe(t) PROVE TypeOK'
<1> USE TypeParts
<1>1. CASE TickBegin(t)
  <2>1. (loopTick + 1) % EnsureEvery \in 0 .. (EnsureEvery - 1)
    BY PeriodAssumption DEF TypeOK
  <2>2. PeriodOK' /\ CursorOK'
    BY <1>1, FrameTypes DEF TickBegin
  <2>3. DaemonOK' /\ OthersOK'
    BY <1>1, <2>1 DEF TypeOK, TickBegin, DaemonOK, OthersOK
  <2>4. CallsOK'
    BY <1>1 DEF TypeOK, TickBegin, CallsOK, Phases
  <2> QED BY <2>2, <2>3, <2>4
<1>2. CASE \E S \in SUBSET Windows : Look(t, S)
  <2>1. PICK S \in SUBSET Windows : Look(t, S)
    BY <1>2
  <2>2. PICK view \in [Windows -> Views] : seen' = [seen EXCEPT ![t] = view]
    BY <2>1 DEF Look
  <2>3. CallsOK'
    BY <2>1, <2>2 DEF TypeOK, Look, CallsOK
  <2>4. faults' \in Nat
    BY <2>1 DEF TypeOK, Look, Fault
  <2>5. OthersOK'
    BY <2>1, <2>4 DEF TypeOK, Look, OthersOK
  <2> QED BY <2>1, <2>3, <2>5, FrameTypes DEF Look
<1>3. CASE Judge(t)
  <2>1. CallsOK'
    <3>1. CASE SlowRecover
      BY <1>3, <3>1, NotedType, ProceedType DEF Judge
    <3>2. CASE ~SlowRecover
      BY <1>3, <3>2, ProceedType DEF Judge
    <3> QED BY <3>1, <3>2
  <2>2. tracker' \in [Windows -> Ages \cup {None}]
    BY <1>3, NotedType DEF TypeOK, Judge
  <2>3. PeriodOK' /\ DaemonOK'
    BY <1>3, <2>2 DEF TypeOK, Judge, PeriodOK, DaemonOK, period
  <2> QED BY <1>3, <2>1, <2>3, FrameTypes DEF Judge
<1> QED BY <1>1, <1>2, <1>3 DEF Observe

LEMMA RecoverBeginType == ASSUME TypeOK, NEW t \in Ticks, RecoverBegin(t) PROVE TypeOK'
<1>1. prompt[Foremost(due[t])] \in Prompt
  BY DueType DEF RecoverBegin
<1>2. CallsOK'
  BY <1>1, NoneAssumption DEF TypeOK, RecoverBegin, CallsOK, Phases, Prompt
<1> QED BY <1>2, TypeParts, FrameTypes DEF RecoverBegin

LEMMA RecoverNullType == ASSUME TypeOK, NEW t \in Ticks, RecoverNull(t) PROVE TypeOK'
<1>1. due[t] \ {Foremost(due[t])} \in SUBSET Windows
  BY DEF TypeOK
<1>2. CallsOK'
  BY <1>1, ProceedType DEF RecoverNull
<1>3. PeriodOK' /\ DaemonOK'
  BY DEF TypeOK, RecoverNull, Unfail, PeriodOK, DaemonOK, period
<1>4. OthersOK'
  BY DEF TypeOK, RecoverNull, Fault, OthersOK
<1> QED BY <1>2, <1>3, <1>4, TypeParts, FrameTypes DEF RecoverNull

LEMMA RecoverStopType == ASSUME TypeOK, NEW t \in Ticks, RecoverStop(t) PROVE TypeOK'
<1>1. CallsOK'
  BY DEF TypeOK, RecoverStop, CallsOK, Phases
<1>2. CursorOK'
  BY DEF TypeOK, RecoverStop, CursorOK
<1> QED BY <1>1, <1>2, TypeParts, FrameTypes DEF RecoverStop

\* How a recovery that took a prompt may end.
LEMMA RecoverEndType ==
  ASSUME TypeOK, NEW t \in Ticks,
         RecoverSubmit(t) \/ RecoverNoDraft(t) \/ RecoverResend(t) \/ RecoverRejected(t)
  PROVE  TypeOK'
<1> DEFINE w == Foremost(due[t])
<1>0. pc[t] \in {"submitting", "resending"}
  BY DEF RecoverSubmit, RecoverNoDraft, RecoverResend, RecoverRejected
<1>1. w \in Windows /\ held[t] \in Prompt /\ Typed \in Prompt
  BY <1>0, RecoveringType DEF Typed, Prompt
<1>2. CASE RecoverSubmit(t)
  <2>1. CursorOK'
    BY <1>1, <1>2, SubmitType DEF TypeOK, RecoverSubmit
  <2>2. OthersOK'
    BY <1>2 DEF TypeOK, RecoverSubmit, Recovered, OthersOK
  <2> QED BY <1>0, <1>2, <2>1, <2>2, RecoveredType, TypeParts DEF RecoverSubmit
<1>3. CASE RecoverNoDraft(t)
  <2>1. CursorOK'
    BY <1>3, TypeParts, FrameTypes DEF RecoverNoDraft
  <2>2. CASE held[t].token
    <3>1. CallsOK'
      BY <1>3, <2>2 DEF TypeOK, RecoverNoDraft, CallsOK, Phases
    <3>2. PeriodOK' /\ DaemonOK'
      BY <1>3, <2>2, TypeParts, FrameTypes DEF RecoverNoDraft
    <3>3. OthersOK'
      BY <1>3, <2>2 DEF TypeOK, RecoverNoDraft, OthersOK
    <3> QED BY <2>1, <3>1, <3>2, <3>3, TypeParts
  <2>3. CASE ~held[t].token
    <3>1. Recovered(t)
      BY <1>3, <2>3 DEF RecoverNoDraft
    <3>2. OthersOK'
      BY <1>3, <3>1 DEF TypeOK, RecoverNoDraft, Recovered, OthersOK
    <3> QED BY <1>0, <2>1, <3>1, <3>2, RecoveredType, TypeParts
  <2> QED BY <2>2, <2>3
<1>4. CASE RecoverResend(t)
  <2>1. CursorOK'
    BY <1>1, <1>4, SubmitType DEF TypeOK, RecoverResend
  <2>2. OthersOK'
    BY <1>4 DEF TypeOK, RecoverResend, Recovered, OthersOK
  <2> QED BY <1>0, <1>4, <2>1, <2>2, RecoveredType, TypeParts DEF RecoverResend
<1>5. CASE RecoverRejected(t)
  <2>1. CursorOK'
    BY <1>5, TypeParts, FrameTypes DEF RecoverRejected
  <2>2. OthersOK'
    BY <1>5 DEF TypeOK, RecoverRejected, Recovered, OthersOK
  <2> QED BY <1>0, <1>5, <2>1, <2>2, RecoveredType, TypeParts DEF RecoverRejected
<1> QED BY <1>2, <1>3, <1>4, <1>5

LEMMA FailsType == ASSUME TypeOK, NEW t \in Ticks, Fails(t) PROVE TypeOK'
<1>1. CASE Throw(t)
  <2>1. PeriodOK' /\ CallsOK'
    BY <1>1, EndTickType DEF Throw
  <2>2. DaemonOK' /\ OthersOK'
    BY <1>1 DEF TypeOK, Throw, Fault, DaemonOK, OthersOK
  <2> QED BY <1>1, <2>1, <2>2, TypeParts, FrameTypes DEF Throw
<1>2. CASE ThrowLate(t)
  <2>1. PeriodOK' /\ CallsOK'
    BY <1>2, EndTickType DEF ThrowLate
  <2>2. DaemonOK' /\ OthersOK'
    BY <1>2 DEF TypeOK, ThrowLate, Fault, DaemonOK, OthersOK
  <2>3. Foremost(due[t]) \in Windows /\ Typed \in Prompt
    BY <1>2, RecoveringType DEF ThrowLate, Typed, Prompt
  <2>4. CursorOK'
    BY <1>2, <2>3, SubmitType DEF TypeOK, ThrowLate
  <2> QED BY <2>1, <2>2, <2>4, TypeParts
<1> QED BY <1>1, <1>2 DEF Fails

LEMMA FinishType == ASSUME TypeOK, NEW t \in Ticks, Finish(t) PROVE TypeOK'
<1>1. CASE Drained(t)
  <2>1. failing' \in [Windows -> Ages \cup {None}] /\ CallsOK'
    BY <1>1, AfterDrainType, SwitchAssumption DEF TypeOK, Drained
  <2>2. PeriodOK' /\ DaemonOK'
    BY <1>1, <2>1 DEF TypeOK, Drained, PeriodOK, DaemonOK, period
  <2> QED BY <1>1, <2>1, <2>2, TypeParts, FrameTypes DEF Drained
<1>2. CASE DrainSent(t)
  <2>1. failing' \in [Windows -> Ages \cup {None}] /\ CallsOK'
    BY <1>2, AfterDrainType DEF DrainSent
  <2>2. PeriodOK' /\ DaemonOK'
    BY <1>2, <2>1 DEF TypeOK, DrainSent, PeriodOK, DaemonOK, period
  <2>3. [text |-> prompts + 1, token |-> TRUE] \in Prompt
    BY DEF TypeOK, Prompt
  <2>4. CursorOK'
    BY <1>2, <2>3, SubmitType DEF TypeOK, DrainSent
  <2>5. OthersOK /\ prompts' = prompts + 1 /\ waiting' = FALSE /\ UNCHANGED <<loopUp, faults>>
    BY <1>2, TypeParts DEF DrainSent
  <2>6. prompts' \in Nat
    BY <2>5 DEF OthersOK
  <2>7. OthersOK'
    BY <2>5, <2>6, Zenon DEF OthersOK
  <2> QED BY <2>1, <2>2, <2>4, <2>7, TypeParts
<1>3. CASE TickEnd(t)
  <2>1. PICK isIdle \in BOOLEAN : EndTick(t, isIdle)
    BY <1>3 DEF TickEnd
  <2>2. PeriodOK' /\ CallsOK'
    BY <2>1, EndTickType
  <2>3. DaemonOK'
    BY <1>3 DEF TypeOK, TickEnd, DaemonOK
  <2> QED BY <1>3, <2>2, <2>3, TypeParts, FrameTypes DEF TickEnd
<1> QED BY <1>1, <1>2, <1>3 DEF Finish

LEMMA ControlType == TypeOK /\ Control => TypeOK'
BY TypeParts, FrameTypes DEF TypeOK, Control, SetPaused, StopDaemon, PeriodOK, DaemonOK, period

LEMMA OutsideType == ASSUME TypeOK, Outside PROVE TypeOK'
<1> USE TypeParts, FrameTypes
<1>1. ASSUME NEW w \in Windows, SendPrompt(w) PROVE TypeOK'
  <2>1. PICK token \in BOOLEAN : Submit(w, [text |-> prompts + 1, token |-> token], FALSE)
    BY <1>1 DEF SendPrompt
  <2>2. [text |-> prompts + 1, token |-> token] \in Prompt
    BY DEF TypeOK, Prompt
  <2>3. CursorOK'
    BY <1>1, <2>1, <2>2, SubmitType DEF TypeOK, SendPrompt
  <2>4. /\ OthersOK /\ prompts' = prompts + 1
        /\ waiting' \in {waiting, FALSE} /\ UNCHANGED <<loopUp, faults>>
    BY <1>1 DEF SendPrompt
  <2>5. prompts' \in Nat
    BY <2>4 DEF OthersOK
  <2>6. OthersOK'
    BY <2>4, <2>5, Zenon DEF OthersOK
  <2> QED BY <1>1, <2>3, <2>6 DEF SendPrompt
<1>2. ASSUME NEW w \in Windows, TurnEnds(w) \/ Type(w) PROVE TypeOK'
  <2>1. CursorOK'
    BY <1>2 DEF TypeOK, TurnEnds, Type, CursorOK
  <2> QED BY <1>2, <2>1 DEF TurnEnds, Type
<1>3. CASE Enqueue \/ LoopDies
  <2>1. OthersOK'
    BY <1>3 DEF TypeOK, Enqueue, LoopDies, OthersOK
  <2> QED BY <1>3, <2>1 DEF Enqueue, LoopDies
<1>4. CASE Elapse
  <2>1. \A a \in Ages : Older(a) \in Ages
    BY AgeAssumption DEF Older, Ages
  <2>2. Older(None) = None
    BY DEF Older
  <2>3. DaemonOK' /\ PeriodOK'
    BY <1>4, <2>1, <2>2 DEF TypeOK, Elapse, DaemonOK, PeriodOK, period
  <2>4. CursorOK'
    BY <1>4, <2>1 DEF TypeOK, Elapse, CursorOK
  <2> QED BY <1>4, <2>3, <2>4 DEF Elapse
<1> QED BY <1>1, <1>2, <1>3, <1>4 DEF Outside

LEMMA NextType == TypeOK /\ [Next]_vars => TypeOK'
<1> SUFFICES ASSUME TypeOK, [Next]_vars PROVE TypeOK'
  OBVIOUS
<1>1. CASE UNCHANGED vars
  BY <1>1, TypeParts, FrameTypes DEF vars
<1>2. ASSUME NEW t \in Ticks, Recover(t) PROVE TypeOK'
  BY <1>2, RecoverBeginType, RecoverNullType, RecoverStopType, RecoverEndType DEF Recover
<1> QED BY <1>1, <1>2, ObserveType, FinishType, FailsType, ControlType, OutsideType DEF Next

(***************************************************************************)
(* Every reachable state of the watchdog is well typed: in particular a     *)
(* tick holds a prompt exactly while it is recovering a window, and then it *)
(* has a window to recover (src/watchdog/daemon.ts, tick).                  *)
(***************************************************************************)
THEOREM TypeCorrect == Spec => []TypeOK
<1> QED BY InitType, NextType, PTL DEF Spec

------------------------------------------------------------------------------
(* A prompt the watchdog submitted gets its full time *)

OneTick == \A t, u \in Ticks : t = u

\* The windows tick t still has to recover because they are slow.
SlowDue(t) == IF stopping[t] = "slow" THEN due[t] ELSE {}

\* The tracker never has a window of the watchdog's busy for longer than it is.
Fresh   == \A w \in busy \cap mine : tracker[w] # None => tracker[w] <= genAge[w]
\* A window due for recovery has had its time, if its prompt is the watchdog's.
DueOld  == \A t \in Ticks : \A w \in SlowDue(t) \cap busy \cap mine : genAge[w] >= SlowAge

Full == Fresh /\ DueOld

\* A step keeps Full if it ages no window the watchdog watches, submits none
\* of its own and lets none become due.
LEMMA FrameFull ==
  ASSUME TypeOK, TypeOK', Full,
         \A w \in busy' \cap mine' : w \in busy \cap mine /\ genAge'[w] = genAge[w],
         \A w \in Windows : tracker'[w] \in {tracker[w], None},
         \A t \in Ticks : SlowDue(t)' \subseteq SlowDue(t)
  PROVE  Full'
<1>1. Fresh'
  BY DEF TypeOK, Full, Fresh
<1>2. DueOld'
  BY DEF TypeOK, Full, DueOld
<1> QED BY <1>1, <1>2 DEF Full

LEMMA JudgeFull ==
  ASSUME TypeOK, TypeOK', Full, NEW t \in Ticks, Judge(t)
  PROVE  Full'
<1>1. UNCHANGED <<busy, mine, genAge, stopping>>
  BY DEF Judge, cursor
<1>2. CASE ~SlowRecover
  <2>1. tracker' = tracker /\ due' = [due EXCEPT ![t] = {}]
    BY <1>2 DEF Judge, Proceed
  <2>2. \A u \in Ticks : SlowDue(u)' \subseteq SlowDue(u)
    BY <1>1, <2>1 DEF TypeOK, SlowDue
  <2> QED BY <1>1, <2>1, <2>2, FrameFull
<1>3. CASE SlowRecover
  <2>1. tracker' = Noted(t) /\ due' = [due EXCEPT ![t] = stuckWindowsDue(t)]
    BY <1>3 DEF Judge, Proceed
  <2>2. \A w \in busy \cap mine : Noted(t)[w] # None => Noted(t)[w] <= genAge[w]
    <3>1. \A w \in Windows : genAge[w] \in Nat
      BY AgeAssumption DEF TypeOK, Ages
    <3>2. \A w \in Windows : Noted(t)[w] \in {None, 0, tracker[w]}
      BY DEF Noted
    <3>3. \A w \in busy \cap mine : w \in Windows /\ (tracker[w] # None => tracker[w] <= genAge[w])
      BY DEF TypeOK, Full, Fresh
    <3> QED BY <3>1, <3>2, <3>3
  <2>3. Fresh'
    BY <1>1, <2>1, <2>2 DEF Fresh
  <2>4. \A w \in stuckWindowsDue(t) \cap busy \cap mine : genAge[w] >= SlowAge
    <3>1. \A view \in Views : Limit(view) \in Nat /\ SlowAge <= Limit(view)
      BY AgeAssumption DEF Limit, Views
    <3>2. \A w \in stuckWindowsDue(t) :
            /\ w \in Windows /\ seen[t][w] \in Views
            /\ Noted(t)[w] # None /\ Noted(t)[w] >= Limit(seen[t][w])
      BY DEF TypeOK, stuckWindowsDue, SeenBusy
    <3>3. \A w \in Windows : Noted(t)[w] # None => Noted(t)[w] \in Nat
      BY NotedType, AgeAssumption DEF Ages
    <3>4. \A w \in Windows : genAge[w] \in Nat
      BY AgeAssumption DEF TypeOK, Ages
    <3>5. SlowAge \in Nat
      BY AgeAssumption
    <3> SUFFICES ASSUME NEW w \in stuckWindowsDue(t) \cap busy \cap mine
                 PROVE  genAge[w] >= SlowAge
      OBVIOUS
    <3>6. Noted(t)[w] <= genAge[w] /\ Limit(seen[t][w]) <= Noted(t)[w]
      BY <2>2, <3>2
    <3> QED BY <3>1, <3>2, <3>3, <3>4, <3>5, <3>6
  <2>5. \A u \in Ticks : SlowDue(u)' \subseteq SlowDue(u) \cup stuckWindowsDue(t)
    BY <1>1, <2>1 DEF TypeOK, SlowDue
  <2>6. DueOld'
    BY <1>1, <2>4, <2>5 DEF Full, DueOld
  <2> QED BY <2>3, <2>6 DEF Full
<1> QED BY <1>2, <1>3

\* The watchdog submits in a window: the tracker forgets it in the same step.
LEMMA SubmitFull ==
  ASSUME TypeOK, TypeOK', Full, OneTick, NEW t \in Ticks,
         RecoverSubmit(t) \/ RecoverResend(t)
  PROVE  Full'
<1> DEFINE w == Foremost(due[t])
<1>1. /\ busy' = busy \cup {w} /\ mine' = mine \cup {w}
      /\ genAge' = [genAge EXCEPT ![w] = 0]
  BY DEF RecoverSubmit, RecoverResend, Submit
<1>2. /\ tracker' = [tracker EXCEPT ![w] = None]
      /\ due' = [due EXCEPT ![t] = due[t] \ {w}]
      /\ stopping' = stopping
  BY DEF RecoverSubmit, RecoverResend, Recovered, Proceed
<1>3. w \in Windows
  BY RecoveringType DEF RecoverSubmit, RecoverResend
<1>4. \A v \in busy' \cap mine' : v # w => v \in busy \cap mine /\ genAge'[v] = genAge[v]
  BY <1>1 DEF TypeOK
<1>5. Fresh'
  BY <1>2, <1>3, <1>4 DEF TypeOK, Full, Fresh
<1>6. \A u \in Ticks : due'[u] = due[u] \ {w}
  BY <1>2 DEF TypeOK, OneTick
<1>7. DueOld'
  BY <1>2, <1>4, <1>6 DEF Full, DueOld, SlowDue
<1> QED BY <1>5, <1>7 DEF Full

LEMMA ElapseFull ==
  ASSUME TypeOK, TypeOK', Full, Elapse
  PROVE  Full'
<1>1. UNCHANGED <<busy, mine, due, stopping>>
  BY DEF Elapse, calls
<1>2. \A w \in busy : w \in Windows /\ genAge[w] \in Ages /\ genAge'[w] = Older(genAge[w])
  BY DEF TypeOK, Elapse
<1>3. \A w \in busy : tracker[w] \in Ages \cup {None} /\ tracker'[w] = Older(tracker[w])
  BY DEF TypeOK, Elapse
<1>4. /\ \A a, b \in Ages : a <= b => Older(a) <= Older(b)
      /\ \A a \in Ages : Older(a) \in Ages /\ a <= Older(a)
      /\ Older(None) = None
  BY AgeAssumption, NoneAssumption DEF Older, Ages
<1>5. Fresh'
  <2> SUFFICES ASSUME NEW w \in busy \cap mine, tracker'[w] # None
               PROVE  tracker'[w] <= genAge'[w]
    BY <1>1 DEF Fresh
  <2>1. tracker[w] # None /\ tracker[w] \in Ages
    BY <1>3, <1>4
  <2>2. tracker[w] <= genAge[w]
    BY <2>1 DEF Full, Fresh
  <2> QED BY <1>2, <1>3, <1>4, <2>1, <2>2
<1>6. SlowAge \in Nat /\ Ages \subseteq Nat
  BY AgeAssumption DEF Ages
<1>7. DueOld'
  <2> SUFFICES ASSUME NEW t \in Ticks, NEW w \in SlowDue(t) \cap busy \cap mine
               PROVE  genAge'[w] >= SlowAge
    BY <1>1 DEF DueOld, SlowDue
  <2>1. genAge[w] >= SlowAge
    BY DEF Full, DueOld
  <2>2. genAge[w] \in Nat /\ genAge'[w] \in Nat /\ genAge[w] <= genAge'[w]
    BY <1>2, <1>4, <1>6
  <2> QED BY <1>6, <2>1, <2>2
<1> QED BY <1>5, <1>7 DEF Full

LEMMA RecoverFull ==
  ASSUME TypeOK, TypeOK', Full, OneTick, NEW t \in Ticks, Recover(t)
  PROVE  Full'
<1>1. CASE RecoverSubmit(t) \/ RecoverResend(t)
  BY <1>1, SubmitFull
<1>2. CASE RecoverBegin(t) \/ RecoverStop(t)
  <2>1. /\ UNCHANGED <<tracker, due, stopping, mine, genAge>>
        /\ busy' \subseteq busy
    BY <1>2 DEF RecoverBegin, RecoverStop, daemon, cursor
  <2> QED BY <2>1, FrameFull DEF SlowDue
<1>3. CASE RecoverNull(t) \/ RecoverNoDraft(t) \/ RecoverRejected(t)
  <2> DEFINE w == Foremost(due[t])
  <2>1. UNCHANGED <<busy, mine, genAge, stopping>>
    BY <1>3 DEF RecoverNull, RecoverNoDraft, RecoverRejected, Recovered, cursor
  <2>2. /\ tracker' = tracker \/ tracker' = [tracker EXCEPT ![w] = None]
        /\ due' = due \/ due' = [due EXCEPT ![t] = due[t] \ {w}]
    BY <1>3 DEF RecoverNull, RecoverNoDraft, RecoverRejected, Recovered, Proceed, daemon
  <2>3. \A v \in Windows : tracker'[v] \in {tracker[v], None}
    BY <2>2 DEF TypeOK
  <2>4. \A u \in Ticks : SlowDue(u)' \subseteq SlowDue(u)
    <3>1. DOMAIN due = Ticks
      BY DEF TypeOK
    <3> HIDE DEF w
    <3> QED BY <2>1, <2>2, <3>1 DEF SlowDue
  <2> QED BY <2>1, <2>3, <2>4, FrameFull
<1> QED BY <1>1, <1>2, <1>3 DEF Recover

\* The end of a tick leaves nothing due.
LEMMA EndTickFull ==
  ASSUME TypeOK, TypeOK', Full, NEW t \in Ticks, NEW isIdle \in BOOLEAN, EndTick(t, isIdle),
         UNCHANGED tracker,
         \A w \in busy' \cap mine' : w \in busy \cap mine /\ genAge'[w] = genAge[w]
  PROVE  Full'
<1>1. due' = [due EXCEPT ![t] = {}] /\ stopping' = [stopping EXCEPT ![t] = "slow"]
  BY DEF EndTick
<1>2. \A u \in Ticks : SlowDue(u)' \subseteq SlowDue(u)
  BY <1>1 DEF TypeOK, SlowDue
<1> QED BY <1>2, FrameFull

LEMMA FinishFull ==
  ASSUME TypeOK, TypeOK', Full, NEW t \in Ticks, Finish(t)
  PROVE  Full'
<1>1. CASE Drained(t) \/ DrainSent(t)
  <2>1. UNCHANGED tracker
    BY <1>1 DEF Drained, DrainSent
  <2>2. \A w \in busy' \cap mine' : w \in busy \cap mine /\ genAge'[w] = genAge[w]
    BY <1>1 DEF TypeOK, Drained, DrainSent, Submit, cursor
  <2>3. /\ stopping' = [stopping EXCEPT ![t] = "failing"]
        /\ \E S : due' = [due EXCEPT ![t] = S]
    BY <1>1 DEF Drained, DrainSent, AfterDrain
  <2>4. \A u \in Ticks : SlowDue(u)' \subseteq SlowDue(u)
    BY <2>3 DEF TypeOK, SlowDue
  <2> QED BY <2>1, <2>2, <2>4, FrameFull
<1>2. CASE TickEnd(t)
  <2>1. PICK isIdle \in BOOLEAN : EndTick(t, isIdle)
    BY <1>2 DEF TickEnd
  <2>2. UNCHANGED <<busy, mine, genAge, tracker>>
    BY <1>2 DEF TickEnd, cursor
  <2> QED BY <2>1, <2>2, EndTickFull
<1> QED BY <1>1, <1>2 DEF Finish

LEMMA FailsFull ==
  ASSUME TypeOK, TypeOK', Full, NEW t \in Ticks, Fails(t)
  PROVE  Full'
<1>1. EndTick(t, FALSE) /\ UNCHANGED tracker
  BY DEF Fails, Throw, ThrowLate
<1>2. \A w \in busy' \cap mine' : w \in busy \cap mine /\ genAge'[w] = genAge[w]
  BY DEF TypeOK, Fails, Throw, ThrowLate, Submit, cursor
<1> QED BY <1>1, <1>2, EndTickFull

LEMMA OutsideFull ==
  ASSUME TypeOK, TypeOK', Full, Outside
  PROVE  Full'
<1>1. ASSUME NEW w \in Windows, SendPrompt(w) PROVE Full'
  <2>1. /\ busy' = busy \cup {w} /\ mine' = mine \ {w}
        /\ genAge' = [genAge EXCEPT ![w] = 0]
    BY <1>1 DEF SendPrompt, Submit
  <2>2. UNCHANGED <<tracker, due, stopping>>
    BY <1>1 DEF SendPrompt, daemon, calls
  <2>3. \A v \in busy' \cap mine' : v \in busy \cap mine /\ genAge'[v] = genAge[v]
    BY <2>1 DEF TypeOK
  <2> QED BY <2>2, <2>3, FrameFull DEF SlowDue
<1>2. CASE (\E w \in Windows : TurnEnds(w) \/ Type(w)) \/ Enqueue \/ LoopDies
  <2>1. /\ UNCHANGED <<tracker, due, stopping, mine, genAge>>
        /\ busy' \subseteq busy
    BY <1>2 DEF TurnEnds, Type, Enqueue, LoopDies, daemon, calls, cursor
  <2> QED BY <2>1, FrameFull DEF SlowDue
<1> QED BY <1>1, <1>2, ElapseFull DEF Outside

LEMMA NextFull ==
  ASSUME TypeOK, TypeOK', Full, OneTick, [Next]_vars
  PROVE  Full'
<1>1. CASE UNCHANGED vars \/ Control
  <2>1. UNCHANGED <<tracker, due, stopping, busy, mine, genAge>>
    BY <1>1 DEF vars, daemon, calls, cursor, Control, SetPaused, StopDaemon
  <2> QED BY <2>1, FrameFull DEF SlowDue
<1>2. ASSUME NEW t \in Ticks, TickBegin(t) \/ \E S \in SUBSET Windows : Look(t, S) PROVE Full'
  <2>1. UNCHANGED <<tracker, due, stopping, busy, mine, genAge>>
    BY <1>2 DEF TickBegin, Look, daemon, cursor
  <2> QED BY <2>1, FrameFull DEF SlowDue
<1> QED
  BY <1>1, <1>2, JudgeFull, RecoverFull, FinishFull, FailsFull, OutsideFull DEF Next, Observe

(***************************************************************************)
(* A prompt the watchdog knows it submitted is not stopped by it as slow    *)
(* before it had slowMs, whatever the limits, the windows and the faults,   *)
(* if the timer never calls tick while an earlier call still waits          *)
(* (src/watchdog/daemon.ts, stuckTracker.clear after recoverSlow).          *)
(***************************************************************************)
THEOREM FullTime ==
  ASSUME OneTick
  PROVE  Spec => FullLimit
<1>1. Init => TypeOK /\ Full
  <2>1. Init => Full
    BY DEF Init, Full, Fresh, DueOld, SlowDue
  <2> QED BY <2>1, InitType
<1>2. TypeOK /\ Full /\ [Next]_vars => (TypeOK /\ Full)'
  BY NextType, NextFull
<1>3. TypeOK /\ Full
        => \A t \in Ticks :
             /\ pc[t] = "stopping" /\ pc'[t] = "submitting"
             /\ stopping[t] = "slow"
             /\ Foremost(due[t]) \in busy \cap mine
             => genAge[Foremost(due[t])] >= SlowAge
  BY RecoveringType DEF Full, DueOld, SlowDue
<1> QED BY <1>1, <1>2, <1>3, PTL DEF Spec, FullLimit
==============================================================================
