----------------------------- MODULE MCGuardTick -----------------------------
(***************************************************************************)
(* Instances of GuardTick for TLC: a track of two steps of the main         *)
(* project, with the keys its prompts have in the chat.                     *)
(***************************************************************************)
EXTENDS GuardTick

Steps    == <<"Driver:1:T", "Driver:2:T">>
Free     == "?:?"
Recover1 == "Driver:recovery"
Refresh  == "Planner:plan-refresh"
Fix      == "Driver:fix:T"

RoleKeys ==
  [Orchestrator |-> "Orchestrator:roles-review", Backlog |-> "Backlog:backlog-review:PLAN",
   Meta |-> "Meta:meta-review", Cleaner |-> "Cleaner:cleanup-sweep",
   Planner |-> "Planner:plan-refresh:PLAN", Monitor |-> "Monitor:process-monitor",
   Critic |-> "Critic:critique-audit:PLAN", Reviewer |-> "Reviewer:history-review",
   Researcher |-> "Researcher:research-turn"]

AllKeys == {Steps[i] : i \in DOMAIN Steps} \cup {RoleKeys[r] : r \in DOMAIN RoleKeys}
           \cup {Free, Recover1, Refresh, Fix}
Self    == {Fix}
NoKeys  == {}
Same    == {<<k, k>> : k \in AllKeys}
Queues  == {Steps[2]}
==============================================================================
