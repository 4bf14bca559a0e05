------------------------------ MODULE PickNext ------------------------------
(***************************************************************************)
(* The choice of the next agent step: what a TRACK file says of its steps,  *)
(* the step the tracks ask the Driver for, and the rotation of the other    *)
(* roles by driver_turns_since_plan.  Pure: the files are the arguments.    *)
(*                                                                         *)
(* A track is its focus (the rank in FOCUS_ORDER), its Status line, the     *)
(* rows of its step tables in the order of the file, the step of its bold   *)
(* header (**STEP=n**) and of its Status line (0 where there is none).      *)
(* A cell is the third column of a row, by the kinds the code tells apart.  *)
(***************************************************************************)
EXTENDS Integers, Sequences, FiniteSets

Cells    == {"pending", "done, gate pending", "done", "skip"}
Statuses == {"closed", "in progress", "open", "active", "none"}

TrackFile(steps) ==
  [focus : 1 .. 5, status : Statuses, bold : steps \cup {0},
   statusStep : steps \cup {0}, blockedSkip : BOOLEAN,
   rows : UNION {[1 .. n -> [step : steps, cell : Cells, meta : BOOLEAN]] : n \in 0 .. 2}]

Nobody == [role |-> "", step |-> 0, track |-> 0]

LeastOf(S) == CHOOSE n \in S : \A m \in S : n <= m

------------------------------------------------------------------------------
(* parse-content.ts *)

\* Mutant: a step whose gate is pending counts as done.
classifyStepStatus_Done(cell) == IF cell \in {"pending", "skip"} THEN cell ELSE "done"
classifyStepStatus(cell) ==
  IF cell = "skip" THEN "skip"
  ELSE IF cell \in {"pending", "done, gate pending"} THEN "pending" ELSE "done"

isStepOpen(cell) == classifyStepStatus(cell) = "pending"

closed(t)     == t.status = "closed"
inProgress(t) == t.status \in {"in progress", "open", "active"}

\* Mutant: the steps that are not open.
tableSteps_Inverted(t) == {t.rows[i].step : i \in {j \in DOMAIN t.rows : ~isStepOpen(t.rows[j].cell)}}
tableSteps(t) == {t.rows[i].step : i \in {j \in DOMAIN t.rows : isStepOpen(t.rows[j].cell)}}

RowsOf(t, n) == {i \in DOMAIN t.rows : t.rows[i].step = n}

\* An open track whose table has nothing pending: the step of its header,
\* unless the first row of that step closes it.
inferPendingFromHeader(t) ==
  LET n == IF t.bold # 0 THEN t.bold ELSE t.statusStep
  IN  IF /\ n # 0
         /\ t.status \in {"open", "in progress"}
         /\ RowsOf(t, n) # {} => isStepOpen(t.rows[LeastOf(RowsOf(t, n))].cell)
      THEN {n}
      ELSE {}

pendingSteps(t) ==
  IF tableSteps(t) # {} \/ closed(t) \/ ~inProgress(t)
  THEN tableSteps(t)
  ELSE inferPendingFromHeader(t)

pendingMeta(t) ==
  {t.rows[i].step : i \in {j \in DOMAIN t.rows : isStepOpen(t.rows[j].cell) /\ t.rows[j].meta}}

\* Asked only of a track with pending steps.
nextStep(t) == IF t.bold # 0 THEN t.bold ELSE LeastOf(pendingSteps(t))

stepStatusInContent(t, n) ==
  IF RowsOf(t, n) = {} THEN "unknown"
  ELSE IF isStepOpen(t.rows[LeastOf(RowsOf(t, n))].cell) THEN "pending" ELSE "done"

------------------------------------------------------------------------------
(* pick-next.ts *)

\* The first of the chosen tracks by focus, then by the order of the files.
FirstByFocus(tracks, chosen) ==
  CHOOSE i \in chosen : \A j \in chosen :
    \/ tracks[i].focus < tracks[j].focus
    \/ tracks[i].focus = tracks[j].focus /\ i <= j

WithWork(tracks) == {i \in DOMAIN tracks : pendingSteps(tracks[i]) # {}}
activeTracksWithPending(tracks) == {i \in WithWork(tracks) : inProgress(tracks[i])}
\* Mutant: a closed track is worked on as well.
openTracksWithPending_Closed(tracks) == WithWork(tracks)
openTracksWithPending(tracks) == {i \in WithWork(tracks) : ~closed(tracks[i])}

pickDriverFromTracks(tracks) ==
  LET active == activeTracksWithPending(tracks)
      open   == openTracksWithPending(tracks)
  IN  IF active # {}
      THEN LET i == FirstByFocus(tracks, active)
               n == nextStep(tracks[i])
           IN  IF n \in pendingMeta(tracks[i])
               THEN [role |-> "Meta", step |-> 0, track |-> i]
               ELSE [role |-> "Driver", step |-> n, track |-> i]
      ELSE IF open # {}
      THEN LET i == FirstByFocus(tracks, open)
           IN  [role |-> "Driver", step |-> LeastOf(pendingSteps(tracks[i])), track |-> i]
      ELSE Nobody

\* A Driver step its track marks done gives way to the next step of the first
\* open track; that one is not looked up again.
\* Mutant: the done step stands.
advanceDoneDriverStep_Stays(next, tracks) == next
advanceDoneDriverStep(next, tracks) ==
  LET open == openTracksWithPending(tracks)
      i    == FirstByFocus(tracks, open)
  IN  IF /\ next.role = "Driver" /\ next.step # 0 /\ next.track # 0
         /\ stepStatusInContent(tracks[next.track], next.step) = "done"
         /\ open # {}
      THEN [next EXCEPT !.step = nextStep(tracks[i]), !.track = i]
      ELSE next

(***************************************************************************)
(* pickRoleByRotation: the first rule whose period divides the turns.  A    *)
(* rule is its period, its role, and when it applies: always, to the main   *)
(* project only, or there if its condition holds as well.                   *)
(***************************************************************************)
Rules == << <<16, "Orchestrator", "all">>, <<20, "Backlog", "all">>,
            <<12, "Meta", "all">>,         <<10, "Cleaner", "all">>,
            <<25, "Blogger", "blog">>,     <<8, "Planner", "main">>,
            <<18, "Monitor", "all">>,      <<6, "Critic", "all">>,
            <<35, "Reviewer", "main">>,    <<5, "OrchestratorDev", "orchDev">> >>

pickRoleByRotation(turns, isCr, deps) ==
  LET applies(i) == /\ turns % Rules[i][1] = 0
                    /\ Rules[i][3] = "all" \/ ~isCr
                    /\ Rules[i][3] \in {"blog", "orchDev"} => Rules[i][3] \in deps
      hits == {i \in DOMAIN Rules : applies(i)}
  IN  IF turns <= 0 \/ hits = {} THEN "" ELSE Rules[LeastOf(hits)][2]

blockedTracks(tracks) ==
  {i \in DOMAIN tracks : /\ inProgress(tracks[i])
                         /\ pendingSteps(tracks[i]) = {}
                         /\ tracks[i].blockedSkip}

\* Nothing pending and no rule: Planner, Researcher, Backlog in turn.
\* Mutant: Planner and Researcher alternate.
idleRole_NoBacklog(tracks, roleLast) == IF roleLast = "Planner" THEN "Researcher" ELSE "Planner"
idleRole(tracks, roleLast) ==
  IF blockedTracks(tracks) # {} /\ roleLast # "Planner" THEN "Planner"
  ELSE IF roleLast = "Planner" THEN "Researcher"
  ELSE IF roleLast = "Researcher" THEN "Backlog"
  ELSE "Planner"

pickNextFromState(tracks, turns, roleLast, selfQueued, isCr, deps) ==
  LET driver  == pickDriverFromTracks(tracks)
      rotated == pickRoleByRotation(turns, isCr, deps)
  IN  IF selfQueued # Nobody THEN selfQueued
      ELSE IF driver # Nobody THEN driver
      ELSE IF rotated # "" THEN [Nobody EXCEPT !.role = rotated]
      ELSE [Nobody EXCEPT !.role = idleRole(tracks, roleLast)]

pickNextAgentStep(tracks, turns, roleLast, selfQueued, isCr, deps) ==
  advanceDoneDriverStep(
    pickNextFromState(tracks, turns, roleLast, selfQueued, isCr, deps), tracks)

pickDriverStep(tracks) ==
  LET next == pickDriverFromTracks(tracks)
  IN  IF next = Nobody THEN Nobody ELSE advanceDoneDriverStep(next, tracks)

(***************************************************************************)
(* The track a Critic re-audits.                                            *)
(***************************************************************************)
primaryTrackFile(tracks, previous) ==
  LET ready(i) == previous[i] = 0 \/ closed(tracks[previous[i]])
      active   == {i \in activeTracksWithPending(tracks) : ready(i)}
      open     == openTracksWithPending(tracks)
  IN  IF active # {} THEN FirstByFocus(tracks, active)
      ELSE IF open # {} THEN FirstByFocus(tracks, open) ELSE 0
==============================================================================
