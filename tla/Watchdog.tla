------------------------------- MODULE Watchdog -------------------------------
(***************************************************************************)
(* The watchdog daemon: a timer calls tick, which looks at every window,    *)
(* recovers those busy for too long (stop the agent, submit its prompt      *)
(* again), drains a queue and sets the timer's next period.  tick awaits    *)
(* CDP at each of these, and nothing keeps the timer from calling it while  *)
(* an earlier call still waits, so ticks overlap:                           *)
(*   batchTick             TickBegin ... Look ... Judge                     *)
(*   recoverSlowGeneration RecoverBegin ... RecoverStop ... Submit, Resend  *)
(*   drainQueue            ... Drained                                      *)
(*                                                                         *)
(* Time is the age of what the code measures, in units that tell its limits *)
(* apart.  The counters and the log of WatchdogStats, the entry             *)
(* noteAgentRecover writes for the UI and the dismissal of modals are left  *)
(* out: nothing in the daemon depends on them.  So are tmux panes, which    *)
(* are looked at but never recovered.                                       *)
(***************************************************************************)
EXTENDS Naturals, FiniteSets

CONSTANTS Windows,       \* 1 .. n, as Cursor lists them
          Ticks,         \* calls of tick that can be in progress at a time
          SlowAge, ReconnectAge, BusyAge,  \* slowMs, reconnectMs, busyMs
          FailAge,       \* sendFailStopMs
          MaxAge,        \* ages are counted up to here
          IdleAfter,     \* idleAfterTicks
          EnsureEvery,   \* ticks between two looks at the loop process
          SlowRecover,   \* CR_WATCHDOG_SLOW_RECOVER
          SharedQueue,   \* does drainQueue drain the queue prompts wait in?
          None,
          Events,        \* the faults and outside events that may happen
          MaxPrompts,    \* bounds the prompts sent from outside
          MaxFaults      \* bounds the faults

ASSUME WindowAssumption == Windows \subseteq Nat /\ Windows # {}
ASSUME AgeAssumption ==
  /\ {SlowAge, ReconnectAge, BusyAge, FailAge, MaxAge} \subseteq Nat
  /\ \A a \in {SlowAge, ReconnectAge, BusyAge, FailAge} : a <= MaxAge
  /\ SlowAge <= ReconnectAge /\ SlowAge <= BusyAge  \* 90 s, 120 s, 600 s
ASSUME PeriodAssumption == IdleAfter \in Nat \ {0} /\ EnsureEvery \in Nat \ {0}
ASSUME SwitchAssumption == SlowRecover \in BOOLEAN /\ SharedQueue \in BOOLEAN
ASSUME EventAssumption ==
  Events \subseteq {"slow", "reconnecting", "skip", "plain", "type", "enqueue",
                     "loop", "pause", "stop", "gone", "throw", "lost"}
ASSUME BoundAssumption == MaxPrompts \in Nat /\ MaxFaults \in Nat
ASSUME NoneAssumption  == None \notin Nat /\ None \notin [text : Nat, token : BOOLEAN]

VARIABLES
  timerOn,    \* an interval is armed
  slowPoll,   \* currentPollMs is idlePollMs
  idleTicks,  \* consecutiveIdle
  paused,
  loopTick,   \* loopCheckTick, up to EnsureEvery
  tracker,    \* StuckTracker: how long each window has been seen busy
  failing,    \* sendFailSince, as an age
  pc,         \* where each tick waits
  seen,       \* what each tick saw of the windows
  due,        \* the windows each tick still has to recover
  stopping,   \* why: they are slow, or prompts wait behind them
  held,       \* the prompt each recovery took from its window
  busy,       \* windows whose agent is generating
  genAge,     \* for how long, in truth
  prompt,     \* the last prompt of each window
  mine,       \* windows whose prompt the watchdog submitted last, and knows it
  drafts,     \* windows with text in their input
  waiting,    \* a prompt waits in the server's queue
  loopUp,     \* the loop process is alive
  prompts,    \* prompts sent from outside so far
  faults      \* faults so far

period == <<timerOn, slowPoll, idleTicks>>
daemon == <<period, paused, loopTick, tracker, failing>>
calls  == <<pc, seen, due, stopping, held>>
cursor == <<busy, genAge, prompt, mine, drafts>>
others == <<waiting, loopUp, prompts, faults>>
vars   == <<daemon, calls, cursor, others>>

Ages   == 0 .. MaxAge
\* A window that did not answer its probe is skipped.
Views  == {"unread", "skipped", "idle", "busy", "slow", "reconnecting"}
Phases == {"idle", "observing", "recovering", "stopping", "submitting",
           "resending", "draining"}
\* A prompt with a token in it, for an agent, or one without.
Prompt == [text : Nat, token : BOOLEAN]

TypeOK ==
  /\ timerOn \in BOOLEAN /\ slowPoll \in BOOLEAN /\ paused \in BOOLEAN
  /\ idleTicks \in 0 .. IdleAfter
  /\ loopTick \in 0 .. (EnsureEvery - 1)
  /\ tracker \in [Windows -> Ages \cup {None}]
  /\ failing \in [Windows -> Ages \cup {None}]
  /\ pc \in [Ticks -> Phases]
  /\ seen \in [Ticks -> [Windows -> Views]]
  /\ due \in [Ticks -> SUBSET Windows]
  /\ stopping \in [Ticks -> {"slow", "failing"}]
  /\ held \in [Ticks -> Prompt \cup {None}]
  /\ \A t \in Ticks : held[t] = None <=> pc[t] \notin {"stopping", "submitting", "resending"}
  /\ \A t \in Ticks : held[t] # None => due[t] # {}
  /\ busy \subseteq Windows /\ mine \subseteq Windows /\ drafts \subseteq Windows
  /\ genAge \in [Windows -> Ages]
  /\ prompt \in [Windows -> Prompt]
  /\ waiting \in BOOLEAN /\ loopUp \in BOOLEAN
  /\ prompts \in Nat /\ faults \in Nat

Begun    == [text |-> 0, token |-> TRUE]   \* the prompt before the first
Typed    == [text |-> 0, token |-> FALSE]  \* what a person typed
Unseen   == [w \in Windows |-> "unread"]

Init ==
  /\ timerOn = TRUE /\ slowPoll = FALSE /\ paused = FALSE
  /\ idleTicks = 0 /\ loopTick = 0
  /\ tracker = [w \in Windows |-> None]
  /\ failing = [w \in Windows |-> None]
  /\ pc = [t \in Ticks |-> "idle"]
  /\ seen = [t \in Ticks |-> Unseen]
  /\ due = [t \in Ticks |-> {}]
  /\ stopping = [t \in Ticks |-> "slow"]
  /\ held = [t \in Ticks |-> None]
  /\ busy \in SUBSET Windows  \* the daemon may start while agents work
  /\ mine = {} /\ drafts = {}
  /\ genAge = [w \in Windows |-> 0]
  /\ prompt = [w \in Windows |-> Begun]
  /\ waiting = FALSE /\ loopUp = TRUE
  /\ prompts = 0 /\ faults = 0

------------------------------------------------------------------------------
(* Helpers *)

BusyViews  == {"busy", "slow", "reconnecting"}
SeenBusy(t) == {w \in Windows : seen[t][w] \in BusyViews}
Foremost(S) == CHOOSE w \in S : \A v \in S : w <= v

Limit(view) == CASE view = "reconnecting" -> ReconnectAge
                 [] view = "slow"         -> SlowAge
                 [] OTHER                 -> BusyAge

\* Mutant: every look at a busy window starts its time anew.
Noted_Anew(t) ==
  [w \in Windows |-> CASE seen[t][w] = "idle" -> None
                       [] seen[t][w] \in BusyViews -> 0
                       [] OTHER -> tracker[w]]
\* StuckTracker as stuckWindowsDue leaves it: windows seen idle are cleared,
\* windows seen busy noted the first time, skipped ones kept.
Noted(t) ==
  [w \in Windows |-> CASE seen[t][w] = "idle" -> None
                       [] seen[t][w] \in BusyViews /\ tracker[w] = None -> 0
                       [] OTHER -> tracker[w]]
stuckWindowsDue(t) ==
  {w \in SeenBusy(t) : Noted(t)[w] # None /\ Noted(t)[w] >= Limit(seen[t][w])}

\* Mutant: the count of idle ticks is never reset.
SetAdaptiveInterval_NoReset(isIdle) ==
  LET count == IF isIdle /\ idleTicks < IdleAfter THEN idleTicks + 1 ELSE idleTicks
      slow  == count >= IdleAfter
  IN  /\ idleTicks' = count
      /\ slowPoll' = slow
      /\ timerOn' = (timerOn \/ slow # slowPoll)

\* A change of period arms the timer anew, a stopped one too.
SetAdaptiveInterval(isIdle) ==
  LET count == IF ~isIdle THEN 0
               ELSE IF idleTicks < IdleAfter THEN idleTicks + 1 ELSE idleTicks
      slow  == isIdle /\ (slowPoll \/ count >= IdleAfter)
  IN  /\ idleTicks' = count
      /\ slowPoll' = slow
      /\ timerOn' = (timerOn \/ slow # slowPoll)

\* Mutant: a tick that ends half-way leaves its recovery's prompt behind.
EndTick_Keeps(t, isIdle) ==
  /\ SetAdaptiveInterval(isIdle)
  /\ pc' = [pc EXCEPT ![t] = "idle"]
  /\ seen' = [seen EXCEPT ![t] = Unseen]
  /\ due' = [due EXCEPT ![t] = {}]
  /\ stopping' = [stopping EXCEPT ![t] = "slow"]
  /\ UNCHANGED held

\* The end of tick t, idle or not, or its failure.
EndTick(t, isIdle) ==
  /\ SetAdaptiveInterval(isIdle)
  /\ pc' = [pc EXCEPT ![t] = "idle"]
  /\ seen' = [seen EXCEPT ![t] = Unseen]
  /\ due' = [due EXCEPT ![t] = {}]
  /\ stopping' = [stopping EXCEPT ![t] = "slow"]
  /\ held' = [held EXCEPT ![t] = None]

\* Something fails.
Fault(f) == f \in Events /\ faults < MaxFaults /\ faults' = faults + 1

\* A prompt is submitted in window w, whose agent starts on it.
Submit(w, p, byWatchdog) ==
  /\ busy' = busy \cup {w}
  /\ genAge' = [genAge EXCEPT ![w] = 0]
  /\ prompt' = [prompt EXCEPT ![w] = p]
  /\ mine' = IF byWatchdog THEN mine \cup {w} ELSE mine \ {w}

\* The tick goes on with its next window, or else with what comes after.
Proceed(t, rest) ==
  /\ due' = [due EXCEPT ![t] = rest]
  /\ held' = [held EXCEPT ![t] = None]
  /\ pc' = [pc EXCEPT ![t] = IF rest = {} /\ stopping[t] = "slow" THEN "draining"
                                                                  ELSE "recovering"]
------------------------------------------------------------------------------
(* tick *)

\* Mutant: the loop is looked after once, not every EnsureEvery ticks.
TickBegin_Once(t) ==
  /\ pc[t] = "idle"
  /\ timerOn
  /\ ~paused
  /\ pc' = [pc EXCEPT ![t] = "observing"]
  /\ loopTick' = IF loopTick + 1 = EnsureEvery THEN loopTick ELSE loopTick + 1
  /\ loopUp' = (loopUp \/ (loopTick' # loopTick /\ loopTick' + 1 = EnsureEvery))
  /\ UNCHANGED <<period, paused, tracker, failing, seen,
                 due, stopping, held, cursor, waiting,
                 prompts, faults>>

\* The timer fires, or POST /dismiss asks for a tick; a paused one returns.
TickBegin(t) ==
  /\ pc[t] = "idle"
  /\ timerOn
  /\ ~paused
  /\ pc' = [pc EXCEPT ![t] = "observing"]
  /\ loopTick' = (loopTick + 1) % EnsureEvery
  /\ loopUp' = (loopUp \/ loopTick' = 0)  \* ensureLoopRunning
  /\ UNCHANGED <<period, paused, tracker, failing, seen,
                 due, stopping, held, cursor, waiting,
                 prompts, faults>>

\* probeComposerStuck of every window, all in one go; those outside answering
\* are skipped: frozen, or CDP is not available.
Look(t, answering) ==
  /\ pc[t] = "observing"
  /\ seen[t] = Unseen
  /\ \/ answering = Windows /\ UNCHANGED faults
     \/ answering # Windows /\ Fault("skip")
  /\ seen' \in {[seen EXCEPT ![t] = view] : view \in
       {v \in [Windows -> Views \ {"unread"}] : \A w \in Windows :
          v[w] \in IF w \notin answering THEN {"skipped"}
                   ELSE IF w \in busy THEN {"busy"} \cup (Events \cap BusyViews)
                   ELSE {"idle"}}}
  /\ UNCHANGED <<daemon, pc, due, stopping, held, cursor, waiting, loopUp, prompts>>

\* batchTick resolved: which windows are due?
Judge(t) ==
  /\ pc[t] = "observing"
  /\ seen[t] # Unseen
  /\ IF SlowRecover THEN /\ tracker' = Noted(t)
                         /\ Proceed(t, stuckWindowsDue(t))
                    ELSE UNCHANGED tracker /\ Proceed(t, {})
  /\ UNCHANGED <<period, paused, loopTick, failing, seen,
                 stopping, cursor, others>>

\* recoverSlowWindow finds the window and takes its last prompt.
RecoverBegin(t) ==
  LET w == Foremost(due[t])
  IN  /\ pc[t] = "recovering"
      /\ due[t] # {}
      /\ pc' = [pc EXCEPT ![t] = "stopping"]
      /\ held' = [held EXCEPT ![t] = prompt[w]]
      /\ UNCHANGED <<daemon, seen, due, stopping, cursor, others>>

\* The window has gone, CDP not available: nothing is recovered.
\* The run of failures of a force-stop is over all the same.
Unfail(t, w) == IF stopping[t] = "failing" THEN [failing EXCEPT ![w] = None] ELSE failing
RecoverNull(t) ==
  LET w == Foremost(due[t])
  IN  /\ pc[t] = "recovering"
      /\ due[t] # {}
      /\ Fault("gone")
      /\ failing' = Unfail(t, w)
      /\ Proceed(t, due[t] \ {w})
      /\ UNCHANGED <<period, paused, loopTick, tracker, seen, stopping, cursor,
                     waiting, loopUp, prompts>>

\* STOP_AGENT_JS clicks the stop button, if there is one.
RecoverStop(t) ==
  /\ pc[t] = "stopping"
  /\ busy' = busy \ {Foremost(due[t])}
  /\ pc' = [pc EXCEPT ![t] = "submitting"]
  /\ UNCHANGED <<daemon, seen, due, stopping, held, genAge, prompt, mine, drafts,
                 others>>

\* Mutant: a window keeps its time after a recovery.
Recovered_Kept(t) ==
  LET w == Foremost(due[t])
  IN  /\ UNCHANGED tracker
      /\ failing' = Unfail(t, w)
      /\ Proceed(t, due[t] \ {w})
      /\ UNCHANGED <<period, paused, loopTick, seen, stopping,
                     waiting, loopUp>>

\* recoverSlow resolved with an outcome, whatever it says.
Recovered(t) ==
  LET w == Foremost(due[t])
  IN  /\ tracker' = [tracker EXCEPT ![w] = None]
      /\ failing' = Unfail(t, w)
      /\ Proceed(t, due[t] \ {w})
      /\ UNCHANGED <<period, paused, loopTick, seen, stopping,
                     waiting, loopUp>>

\* SUBMIT_COMPOSER_JS submits what stands in the input.
RecoverSubmit(t) ==
  LET w == Foremost(due[t])
  IN  /\ pc[t] = "submitting"
      /\ w \notin busy /\ w \in drafts
      /\ Submit(w, Typed, TRUE)
      /\ drafts' = drafts \ {w}
      /\ UNCHANGED <<prompts, faults>>
      /\ Recovered(t)

\* There is nothing to submit, or the agent runs again.
RecoverNoDraft(t) ==
  LET w == Foremost(due[t])
  IN  /\ pc[t] = "submitting"
      /\ w \in busy \/ w \notin drafts
      /\ IF held[t].token
         THEN /\ pc' = [pc EXCEPT ![t] = "resending"]
              /\ UNCHANGED <<daemon, seen, due, stopping, held, waiting, loopUp>>
         ELSE Recovered(t)
      /\ UNCHANGED <<cursor, prompts, faults>>

\* runComposerSend submits the prompt taken before the stop.
RecoverResend(t) ==
  LET w == Foremost(due[t])
  IN  /\ pc[t] = "resending"
      /\ w \notin busy /\ w \notin drafts
      /\ Submit(w, held[t], TRUE)
      /\ UNCHANGED <<drafts, prompts, faults>>
      /\ Recovered(t)

\* It rejects: the agent is running, the user is typing, CDP fails.
RecoverRejected(t) ==
  /\ pc[t] = "resending"
  /\ Recovered(t)
  /\ UNCHANGED <<cursor, prompts, faults>>

\* A CDP call of the tick rejects: the tick is over, an error is recorded.
Throw(t) ==
  /\ Fault("throw")
  /\ pc[t] \in {"observing", "recovering", "stopping", "submitting", "draining"}
  /\ EndTick(t, FALSE)
  /\ UNCHANGED <<paused, loopTick, tracker, failing, cursor, waiting, loopUp, prompts>>

\* The draft is submitted, but the answer is lost.
ThrowLate(t) ==
  LET w == Foremost(due[t])
  IN  /\ Fault("lost")
      /\ pc[t] = "submitting"
      /\ w \notin busy /\ w \in drafts
      /\ Submit(w, Typed, FALSE)
      /\ drafts' = drafts \ {w}
      /\ EndTick(t, FALSE)
      /\ UNCHANGED <<paused, loopTick, tracker, failing, waiting, loopUp, prompts>>

\* drainQueue resolved, leaving this many prompts: which windows have kept
\* them waiting for too long?
AfterDrain(t, remaining) ==
  LET since == [w \in Windows |->
                  IF seen[t][w] = "skipped" THEN failing[w]
                  ELSE IF seen[t][w] = "idle" \/ ~remaining THEN None
                  ELSE IF failing[w] = None THEN 0 ELSE failing[w]]
      over  == {w \in SeenBusy(t) : since[w] # None /\ since[w] >= FailAge}
  IN  /\ failing' = since
      /\ due' = [due EXCEPT ![t] = over]
      /\ stopping' = [stopping EXCEPT ![t] = "failing"]
      /\ pc' = [pc EXCEPT ![t] = "recovering"]

\* The queue is empty or its own, or it is blocked.
Drained(t) ==
  /\ pc[t] = "draining"
  /\ AfterDrain(t, SharedQueue /\ waiting)
  /\ UNCHANGED <<period, paused, loopTick, tracker, seen, held,
                 cursor, others>>

\* It sent the waiting prompt.
DrainSent(t) ==
  /\ pc[t] = "draining"
  /\ SharedQueue /\ waiting
  /\ prompts < MaxPrompts
  /\ \E w \in Windows \ busy : Submit(w, [text |-> prompts + 1, token |-> TRUE], FALSE)
  /\ prompts' = prompts + 1
  /\ waiting' = FALSE
  /\ AfterDrain(t, FALSE)
  /\ UNCHANGED <<period, paused, loopTick, tracker, seen, held,
                 drafts, loopUp, faults>>

\* The tick is over; a dismissed modal or a sent prompt makes it no idle one.
TickEnd(t) ==
  /\ pc[t] = "recovering"
  /\ due[t] = {}
  /\ \E isIdle \in {SeenBusy(t) = {}, FALSE} : EndTick(t, isIdle)
  /\ UNCHANGED <<paused, loopTick, tracker, failing, cursor, others>>
------------------------------------------------------------------------------
(* Its control, and what happens around it *)

SetPaused ==
  /\ "pause" \in Events
  /\ paused' = ~paused
  /\ UNCHANGED <<period, loopTick, tracker, failing, calls, cursor,
                 others>>

\* daemon.stop; the process ends a while later.
StopDaemon ==
  /\ "stop" \in Events
  /\ timerOn' = FALSE
  /\ UNCHANGED <<slowPoll, idleTicks, paused, loopTick, tracker, failing, calls, cursor,
                 others>>

\* A person, the guard or the server's drain sends a prompt.
SendPrompt(w) ==
  /\ w \notin busy
  /\ prompts < MaxPrompts
  /\ \E token \in {TRUE, "plain" \notin Events} :
       Submit(w, [text |-> prompts + 1, token |-> token], FALSE)
  /\ prompts' = prompts + 1
  /\ waiting' \in {waiting, FALSE}
  /\ UNCHANGED <<daemon, calls, drafts, loopUp, faults>>

TurnEnds(w) ==
  /\ w \in busy
  /\ busy' = busy \ {w}
  /\ UNCHANGED <<daemon, calls, genAge, prompt, mine, drafts, others>>

Type(w) ==
  /\ "type" \in Events
  /\ w \notin drafts
  /\ drafts' = drafts \cup {w}
  /\ UNCHANGED <<daemon, calls, busy, genAge, prompt, mine, others>>

Enqueue ==
  /\ "enqueue" \in Events
  /\ ~waiting
  /\ waiting' = TRUE
  /\ UNCHANGED <<daemon, calls, cursor, loopUp, prompts, faults>>

LoopDies ==
  /\ "loop" \in Events
  /\ loopUp
  /\ loopUp' = FALSE
  /\ UNCHANGED <<daemon, calls, cursor, waiting, prompts, faults>>

Older(a)   == IF a = None \/ a = MaxAge THEN a ELSE a + 1
Elapse ==
  /\ tracker' = [w \in Windows |-> Older(tracker[w])]
  /\ failing' = [w \in Windows |-> Older(failing[w])]
  /\ genAge' = [w \in Windows |-> IF w \in busy THEN Older(genAge[w]) ELSE genAge[w]]
  /\ UNCHANGED <<period, paused, loopTick, calls, busy, prompt,
                 mine, drafts, others>>

Observe(t) == TickBegin(t) \/ (\E S \in SUBSET Windows : Look(t, S)) \/ Judge(t)
Recover(t) == \/ RecoverBegin(t) \/ RecoverNull(t) \/ RecoverStop(t) \/ RecoverSubmit(t)
              \/ RecoverNoDraft(t) \/ RecoverResend(t) \/ RecoverRejected(t)
Finish(t)  == Drained(t) \/ DrainSent(t) \/ TickEnd(t)
Fails(t)   == Throw(t) \/ ThrowLate(t)
Control    == SetPaused \/ StopDaemon
Outside    == \/ \E w \in Windows : SendPrompt(w) \/ TurnEnds(w) \/ Type(w)
              \/ Enqueue \/ LoopDies \/ Elapse

Next == \/ \E t \in Ticks : Observe(t) \/ Recover(t) \/ Finish(t) \/ Fails(t)
        \/ Control
        \/ Outside

Spec == Init /\ [][Next]_vars

(***************************************************************************)
(* The timer keeps firing, every await ends (CDP calls time out after 15 s) *)
(* and time passes.  Faults come to an end: MaxFaults bounds them.  An      *)
(* agent never has to end its turn: that is what the watchdog is for.       *)
(***************************************************************************)
Fairness ==
  /\ WF_vars(\E t \in Ticks : TickBegin(t))
  /\ \A t \in Ticks : WF_vars((Observe(t) \/ Recover(t) \/ Finish(t)) /\ pc[t] # "idle")
  /\ WF_vars(Elapse)

FairSpec == Spec /\ Fairness

------------------------------------------------------------------------------
(* Properties *)

Halted == paused \/ ~timerOn

(***************************************************************************)
(* A prompt the watchdog knows it submitted gets its full time before the   *)
(* watchdog stops it as slow: clearing the tracker after a recovery starts  *)
(* the count anew.  It holds while ticks do not overlap.                    *)
(***************************************************************************)
FullLimit ==
  [][\A t \in Ticks :
       /\ pc[t] = "stopping" /\ pc'[t] = "submitting"
       /\ stopping[t] = "slow"
       /\ Foremost(due[t]) \in busy \cap mine
       => genAge[Foremost(due[t])] >= SlowAge]_vars

(***************************************************************************)
(* No Cursor window stays busy for ever: an agent that never ends its turn  *)
(* is stopped, although windows are skipped, recoveries fail half-way and   *)
(* the failure of one window's recovery ends the tick for all later ones.   *)
(***************************************************************************)
StuckRecovered ==
  \A w \in Windows : w \in busy ~> (w \notin busy \/ Halted)

(***************************************************************************)
(* A daemon that keeps seeing busy windows keeps coming back to its short   *)
(* period, although ticks that see none or fail end in between.             *)
(***************************************************************************)
AwakeWhileBusy ==
  []<>(\E t \in Ticks : SeenBusy(t) # {}) => []<>~slowPoll

(***************************************************************************)
(* A loop process that died is started again, although the daemon looks     *)
(* after it only now and then.                                              *)
(***************************************************************************)
LoopRevived == ~loopUp ~> (loopUp \/ Halted)

------------------------------------------------------------------------------
(* A claim of the repository's comments that does not hold                  *)

(***************************************************************************)
(* src/watchdog/daemon.ts: "Auto-stop: window busy + queue non-empty for >  *)
(* sendFailStopMs -> force stop", whether or not slow recovery is enabled.  *)
(***************************************************************************)
AutoStops ==
  \A w \in Windows :
    (w \in busy /\ waiting) ~> (w \notin busy \/ ~waiting \/ Halted)
==============================================================================
