-------------------------------- MODULE Migrate --------------------------------
(***************************************************************************)
(* Opening cr.db (src/db/migrate.ts).  Every open of the database, by the   *)
(* server, the guard, the MCP server and the scripts, first runs the        *)
(* migrations that are not recorded: look the version up, execute its SQL,  *)
(* record it.  Nothing encloses the three in a transaction, exec commits    *)
(* statement by statement, and 001 and 003 create their tables without IF   *)
(* NOT EXISTS, so a process that dies in between, or one that looks while   *)
(* another executes, decides what the later opens meet.                     *)
(***************************************************************************)
EXTENDS Naturals, FiniteSets

CONSTANTS
  Processes,  \* processes that open the database
  Versions,   \* migrations, 1..n in the order of their file names
  Plain,      \* those whose CREATE statements fail when the object exists
  Statements, \* number of statements of a migration
  MaxCrashes, \* bound: processes that die inside
  MaxOpens    \* bound: opens

VersionsAssumption == Versions = 1 .. Cardinality(Versions) /\ IsFiniteSet(Versions)
StatementsAssumption == Statements \in Nat \ {0}

VARIABLES
  pc,        \* per process
  at,        \* the migration it is at
  step,      \* the statement it executes next
  objects,   \* <<version, statement>> that took effect
  versions,  \* the rows of schema_migrations
  crashes, opens,
  overlapped \* history: two processes were between the look and the record of one version

vars == <<pc, at, step, objects, versions, crashes, opens, overlapped>>

Resting == {"closed", "ready", "failed"}
Inside(p, v) == at[p] = v /\ pc[p] \in {"exec", "record"}
Past == Cardinality(Versions) + 1

Init ==
  /\ pc = [p \in Processes |-> "closed"]
  /\ at = [p \in Processes |-> 1] /\ step = [p \in Processes |-> 1]
  /\ objects = {} /\ versions = {}
  /\ crashes = 0 /\ opens = 0 /\ overlapped = FALSE

\* openCrDatabase: schema_migrations exists from the first open on.
Open(p) ==
  /\ pc[p] \in Resting /\ opens < MaxOpens
  /\ opens' = opens + 1
  /\ pc' = [pc EXCEPT ![p] = "look"]
  /\ at' = [at EXCEPT ![p] = 1]
  /\ UNCHANGED <<step, objects, versions, crashes, overlapped>>

hasVersion(v) == v \in versions

\* One turn of the loop over the files; after the last the database is used.
Look(p) ==
  /\ pc[p] = "look"
  /\ \/ /\ at[p] = Past
        /\ pc' = [pc EXCEPT ![p] = "ready"]
        /\ UNCHANGED <<at, step, overlapped>>
     \/ /\ at[p] # Past /\ hasVersion(at[p])
        /\ at' = [at EXCEPT ![p] = @ + 1]
        /\ UNCHANGED <<pc, step, overlapped>>
     \/ /\ at[p] # Past /\ ~hasVersion(at[p])
        /\ pc' = [pc EXCEPT ![p] = "exec"]
        /\ step' = [step EXCEPT ![p] = 1]
        /\ overlapped' = (overlapped \/ \E q \in Processes \ {p} : Inside(q, at[p]))
        /\ UNCHANGED at
  /\ UNCHANGED <<objects, versions, crashes, opens>>

\* What an object that is there already does to the migration.
AfterClash_Recorded == "record"
AfterClash == "failed"

\* database.exec, one committed statement after the other; an error leaves through
\* finally, which closes the database.
Exec(p) ==
  /\ pc[p] = "exec"
  /\ IF <<at[p], step[p]>> \in objects /\ at[p] \in Plain
       THEN /\ pc' = [pc EXCEPT ![p] = AfterClash]
            /\ UNCHANGED <<step, objects>>
       ELSE /\ objects' = objects \cup {<<at[p], step[p]>>}
            /\ step' = [step EXCEPT ![p] = @ + 1]
            /\ pc' = [pc EXCEPT ![p] = IF step[p] = Statements THEN "record" ELSE "exec"]
  /\ UNCHANGED <<at, versions, crashes, opens, overlapped>>

\* insert.run; the version is the primary key.
Record(p) ==
  /\ pc[p] = "record"
  /\ IF at[p] \in versions
       THEN /\ pc' = [pc EXCEPT ![p] = "failed"]
            /\ UNCHANGED <<at, versions>>
       ELSE /\ versions' = versions \cup {at[p]}
            /\ at' = [at EXCEPT ![p] = @ + 1]
            /\ pc' = [pc EXCEPT ![p] = "look"]
  /\ UNCHANGED <<step, objects, crashes, opens, overlapped>>

Crash(p) ==
  /\ pc[p] \notin Resting /\ crashes < MaxCrashes
  /\ crashes' = crashes + 1
  /\ pc' = [pc EXCEPT ![p] = "closed"]
  /\ UNCHANGED <<at, step, objects, versions, opens, overlapped>>

Next == \E p \in Processes : Open(p) \/ Look(p) \/ Exec(p) \/ Record(p) \/ Crash(p)

Spec == Init /\ [][Next]_vars

-----------------------------------------------------------------------------
Whole(v) == \A i \in 1..Statements : <<v, i>> \in objects

\* Types, and that a recorded version has all its objects.
TypeOK ==
  /\ pc \in [Processes -> Resting \cup {"look", "exec", "record"}]
  /\ at \in [Processes -> 1..Past]
  /\ step \in [Processes -> 1..(Statements + 1)]
  /\ objects \subseteq Versions \X (1..Statements)
  /\ versions \subseteq Versions
  /\ \A v \in versions : Whole(v)

\* A caller that got a database (migrate.ts:65-68) can use every table, whoever
\* else was migrating and whoever died meanwhile.
ReadyIsMigrated ==
  \A p \in Processes : pc[p] = "ready" => \A v \in Versions : Whole(v)

\* An open fails only when a process died between two statements or before the
\* record, or two looked at one version at once: never for what is whole.
FailsOnlyInterrupted ==
  \A p \in Processes : pc[p] = "failed" => crashes > 0 \/ overlapped

\* Both: to open the database is to have all of it, or to be told so for a cause.
OpensWhole == ReadyIsMigrated /\ FailsOnlyInterrupted
===============================================================================
