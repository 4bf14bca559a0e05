----------------------------- MODULE SettingsUsage -----------------------------
(***************************************************************************)
(* How the usage of the plan is read off the IDE's settings page            *)
(* (cdp/settings-usage.ts), by the guard in every tick (probeDailyUsage of   *)
(* scripts/guard.ts) and by the usage tool of an MCP process, with people at  *)
(* the same page.  The page shows what it loaded when the section was         *)
(* selected, so a probe that finds the section selected leaves it first.  The  *)
(* guard stores the reading of the day, and goes by the last one stored when   *)
(* the probe throws; without any it counts (CycleLimit).                       *)
(***************************************************************************)
EXTENDS FiniteSetsExt, Naturals

CONSTANTS
  None,
  GuardProcess, Tools,  \* the processes that probe
  Readings,      \* percentages, as far as they matter
  Days           \* bound: the days, 1..Days

Probers == {GuardProcess} \cup Tools

ProbersAssumption == GuardProcess \notin Tools
DaysAssumption ==
  Days \in Nat \ {0} /\ Readings # {} /\ None \notin Readings \cup [pct : Readings \cup {None}]

VARIABLES
  settings,  \* the settings tab: "closed", "behind", "front"
  section,   \* selected in it: "general" or "plan"
  shown,     \* what the plan section shows, None while it loads
  usage,     \* the usage there is
  today,
  table,     \* usage_snapshots: for each day a row [pct], or None
  step,      \* for each process how far its probe is
  loaded,    \* history: the processes in whose probe the page was loaded
  forced,    \* history: those that have selected the section anew
  taken,     \* for each process what its last probe gave, or None
  saved      \* history: the reading last stored, as a row

vars == <<settings, section, shown, usage, today, table, step, loaded, forced, taken, saved>>
page == <<settings, section, shown>>

Row(pct) == [pct |-> pct]

Init ==
  /\ settings \in {"closed", "front"} /\ section = "general" /\ shown = None
  /\ usage \in Readings
  /\ today = 1 /\ table = [d \in 1..Days |-> None] /\ saved = None
  /\ step = [p \in Probers |-> "idle"]
  /\ loaded = {} /\ forced = {}
  /\ taken = [p \in Probers |-> None]

To(p, s) == step' = [step EXCEPT ![p] = s]

\* What a probe comes to: of the page, of the database, or nothing.
Ends(p, from, pct) ==
  /\ To(p, "idle")
  /\ taken' = [taken EXCEPT ![p] = [from |-> from, pct |-> pct, loaded |-> p \in loaded, forced |-> p \in forced]]
  /\ loaded' = loaded \ {p} /\ forced' = forced \ {p}
  /\ UNCHANGED <<usage, today>>

Begin(p) ==
  /\ step[p] = "idle"
  /\ To(p, "activate")
  /\ taken' = [taken EXCEPT ![p] = None]
  /\ UNCHANGED <<page, usage, today, table, loaded, forced, saved>>

\* The settings tab is brought to the front, if the page that is looked at has one:
\* it is the one titled so, or just the first.
Activate(p) ==
  /\ step[p] = "activate" /\ settings # "closed"
  /\ settings' = "front"
  /\ To(p, "ensure")
  /\ UNCHANGED <<section, shown, usage, today, table, loaded, forced, taken, saved>>

\* Selecting the section loads it, unless it is selected.
Selected == /\ section' = "plan"
            /\ shown' = IF section = "plan" THEN shown ELSE None

\* A selected section is left for General if the sidebar has it.
Leaves_Never(hasGeneral) == FALSE
Leaves(hasGeneral) == section = "plan" /\ hasGeneral

Ensure(p) ==
  /\ step[p] = "ensure" /\ settings = "front"
  /\ \E hasGeneral \in BOOLEAN :
       IF Leaves(hasGeneral)
         THEN /\ section' = "general" /\ To(p, "bounced")
              /\ forced' = forced \cup {p} /\ UNCHANGED shown
         ELSE /\ Selected /\ To(p, "wait")
              /\ forced' = IF section = "general" \/ hasGeneral THEN forced \cup {p} ELSE forced
  /\ UNCHANGED <<settings, usage, today, table, loaded, taken, saved>>

\* Half a second later; whether the click found the page is not looked at.
ClickPlan(p) ==
  /\ step[p] = "bounced"
  /\ IF settings = "front" THEN Selected ELSE UNCHANGED <<section, shown>>
  /\ To(p, "wait")
  /\ UNCHANGED <<settings, usage, today, table, loaded, forced, taken, saved>>

\* saveUsageSnapshot: one row a day, replaced; a failure to store is passed over.
SaveSnapshot(pct) ==
  \/ table' = [table EXCEPT ![today] = Row(pct)] /\ saved' = Row(pct)
  \/ UNCHANGED <<table, saved>>

\* A second later the text is parsed: no percentage in it is a reading of none.
Read(p) ==
  /\ step[p] = "wait" /\ settings = "front" /\ section = "plan"
  /\ Ends(p, "page", shown)
  /\ IF p = GuardProcess THEN SaveSnapshot(shown) ELSE UNCHANGED <<table, saved>>
  /\ UNCHANGED page

\* No page, no tab, no sidebar, another section: the probe has no result.
NoResult(p) ==
  /\ \/ step[p] = "activate" /\ settings # "front"
     \/ step[p] = "ensure" /\ settings # "front"
     \/ step[p] = "wait" /\ (settings # "front" \/ section # "plan")
  /\ Ends(p, "nothing", None)
  /\ UNCHANGED <<page, table, saved>>

Stored == {d \in 1..Days : table[d] # None}
LastStored == table[Max(Stored)]

\* CDP fails: a tool says nothing, the guard takes the last row.
Throws(p) ==
  /\ step[p] # "idle"
  /\ IF p = GuardProcess /\ Stored # {} THEN Ends(p, "database", LastStored.pct)
     ELSE Ends(p, "nothing", None)
  /\ UNCHANGED <<page, table, saved>>

\* The section as it is when the tab is away, or opened again, is not loaded anew.
Load ==
  /\ settings # "closed" /\ section = "plan" /\ shown = None
  /\ shown' = usage
  /\ loaded' = {p \in Probers : step[p] # "idle"}
  /\ UNCHANGED <<settings, section, usage, today, table, step, forced, taken, saved>>

World ==
  /\ \/ settings' \in {"closed", "behind", "front"} /\ UNCHANGED <<section, shown, usage, today>>
     \/ settings = "front" /\ section' = "general" /\ UNCHANGED <<settings, shown, usage, today>>
     \/ settings = "front" /\ Selected /\ UNCHANGED <<settings, usage, today>>
     \/ usage' \in Readings /\ UNCHANGED <<page, today>>
     \/ today < Days /\ today' = today + 1 /\ UNCHANGED <<page, usage>>
  /\ UNCHANGED <<table, step, loaded, forced, taken, saved>>

Next ==
  \/ \E p \in Probers : Begin(p) \/ Activate(p) \/ Ensure(p) \/ ClickPlan(p) \/ Read(p) \/ NoResult(p) \/ Throws(p)
  \/ Load \/ World

Spec == Init /\ [][Next]_vars

--------------------------------------------------------------------------------
Results == [from : {"page", "database", "nothing"}, pct : Readings \cup {None}, loaded : BOOLEAN, forced : BOOLEAN]

TypeOK ==
  /\ settings \in {"closed", "behind", "front"} /\ section \in {"general", "plan"}
  /\ shown \in Readings \cup {None} /\ usage \in Readings
  /\ today \in 1..Days /\ \A d \in Stored : d <= today /\ table[d].pct \in Readings \cup {None}
  /\ step \in [Probers -> {"idle", "activate", "ensure", "bounced", "wait"}]
  /\ loaded \subseteq Probers /\ forced \subseteq Probers
  /\ \A p \in Probers : taken[p] # None => taken[p] \in Results
  /\ saved = None \/ saved.pct \in Readings \cup {None}

\* Whoever else clicks about in the settings meanwhile, a percentage read off the
\* page was loaded while the probe ran, provided the section could be selected anew;
\* and what the guard takes from the database is the reading last stored, not an
\* earlier day's.
ReadingsFresh ==
  \A p \in Probers : taken[p] # None =>
    /\ taken[p].from = "page" /\ taken[p].pct # None /\ taken[p].forced => taken[p].loaded
    /\ taken[p].from = "database" => saved # None /\ taken[p].pct = saved.pct
================================================================================
