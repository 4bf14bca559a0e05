----------------------------- MODULE LoopSingleton -----------------------------
(***************************************************************************)
(* The guard loop and the script that keeps it alive                       *)
(* (scripts/loop.sh, scripts/ensure-loop.sh, src/loop/ensure-loop.ts).      *)
(* A loop holds flock on a file it opened and leaves its pid in another.   *)
(* Whoever thinks the loop is dead (the watchdog of the server, the one of *)
(* its own process, a person) runs ensure-loop.sh, which removes both      *)
(* files and starts a loop.  The lock belongs to the file that was opened, *)
(* not to its name, and a killed loop leaves it to the children that       *)
(* inherited descriptor 9.                                                 *)
(***************************************************************************)
EXTENDS Naturals, FiniteSets

CONSTANTS
  Loops,      \* processes running loop.sh
  Scripts,    \* processes running ensure-loop.sh
  None,
  MaxKills,   \* bound: loops that are killed
  MaxRecycled \* bound: pids given to an unrelated process afterwards

LoopsAssumption == None \notin Loops

VARIABLES
  loop,       \* what each loop.sh is about to do
  script,     \* what each ensure-loop.sh is about to do
  starts,     \* the loop a script starts
  lockFile,   \* the file the lock's name refers to, named by the loop that created it
  opened,     \* the file a loop has open as descriptor 9
  held,       \* file -> the loop whose descriptor holds its flock
  orphans,    \* killed loops whose children still run, and hold the descriptor
  pidFile,    \* the pid in the pidfile
  recycled,   \* dead loops whose pid now is another program's
  removed,    \* history: a script removed the files of a loop that had passed its open
  buried      \* history: the orphans there were when a script removed the files

vars == <<loop, script, starts, lockFile, opened, held, orphans, pidFile, recycled, removed, buried>>

\* A started loop reads its lock, then the pidfile, then writes it and runs.
Booting == {"locking", "checking", "clearing", "writing"}
Living  == Booting \cup {"opening", "running"}

\* kill -0: a process with that pid exists, the loop or a stranger.
PidAlive(p) == p # None /\ (loop[p] \in Living \/ p \in recycled)

\* isLoopAlive: the same question asked by the watchdog.
isLoopAlive == PidAlive(pidFile)

Init ==
  /\ loop = [l \in Loops |-> "unborn"]
  /\ script = [s \in Scripts |-> "idle"]
  /\ starts = [s \in Scripts |-> None]
  /\ lockFile = None /\ pidFile = None
  /\ opened = [l \in Loops |-> None]
  /\ held = [l \in Loops |-> None]
  /\ orphans = {} /\ recycled = {} /\ removed = FALSE
  /\ buried = [s \in Scripts |-> {}]

-----------------------------------------------------------------------------
(* loop.sh *)

Unborn == {l \in Loops : loop[l] = "unborn"}

\* `npm run loop` by hand.
Launch(l) ==
  /\ loop[l] = "unborn"
  /\ loop' = [loop EXCEPT ![l] = "opening"]
  /\ UNCHANGED <<script, starts, lockFile, opened, held, orphans, pidFile, recycled, removed, buried>>

\* exec 9>"$LOCKFILE" opens the file of that name or creates one.
Open(l) ==
  /\ loop[l] = "opening"
  /\ lockFile' = IF lockFile = None THEN l ELSE lockFile
  /\ opened' = [opened EXCEPT ![l] = lockFile']
  /\ loop' = [loop EXCEPT ![l] = "locking"]
  /\ UNCHANGED <<script, starts, held, orphans, pidFile, recycled, removed, buried>>

\* flock -n 9, or leave.
MayLock(f) == held[f] = None

Lock(l) ==
  /\ loop[l] = "locking"
  /\ IF MayLock(opened[l])
       THEN /\ held' = [held EXCEPT ![opened[l]] = l]
            /\ loop' = [loop EXCEPT ![l] = "checking"]
            /\ UNCHANGED opened
       ELSE /\ loop' = [loop EXCEPT ![l] = "refused"]
            /\ opened' = [opened EXCEPT ![l] = None]
            /\ UNCHANGED held
  /\ UNCHANGED <<script, starts, lockFile, orphans, pidFile, recycled, removed, buried>>

\* What ends with the last process that has the descriptor: the lock.
Released_Not(l) == held
Released(l) == [f \in Loops |-> IF held[f] = l THEN None ELSE held[f]]

\* A loop named by the pidfile is alive: leave, dropping the lock.
CheckPid(l) ==
  /\ loop[l] = "checking"
  /\ loop' = [loop EXCEPT ![l] = IF PidAlive(pidFile) THEN "refused" ELSE "clearing"]
  /\ held' = IF PidAlive(pidFile) THEN Released(l) ELSE held
  /\ opened' = IF PidAlive(pidFile) THEN [opened EXCEPT ![l] = None] ELSE opened
  /\ UNCHANGED <<script, starts, lockFile, orphans, pidFile, recycled, removed, buried>>

ClearPid(l) ==
  /\ loop[l] = "clearing"
  /\ pidFile' = None
  /\ loop' = [loop EXCEPT ![l] = "writing"]
  /\ UNCHANGED <<script, starts, lockFile, opened, held, orphans, recycled, removed, buried>>

WritePid(l) ==
  /\ loop[l] = "writing"
  /\ pidFile' = l
  /\ loop' = [loop EXCEPT ![l] = "running"]
  /\ UNCHANGED <<script, starts, lockFile, opened, held, orphans, recycled, removed, buried>>

\* The loop is killed; the supervisor, guard or sleep it was waiting for runs on
\* with descriptor 9.  Neither file is removed by the traps.
Kill(l) ==
  /\ loop[l] \in Living
  /\ Cardinality({k \in Loops : loop[k] = "dead"}) < MaxKills
  /\ loop' = [loop EXCEPT ![l] = "dead"]
  /\ IF loop[l] = "running"
       THEN orphans' = orphans \cup {l} /\ UNCHANGED <<held, opened>>
       ELSE /\ held' = Released(l)
            /\ opened' = [opened EXCEPT ![l] = None]
            /\ UNCHANGED orphans
  /\ UNCHANGED <<script, starts, lockFile, pidFile, recycled, removed, buried>>

OrphanEnds(l) ==
  /\ l \in orphans
  /\ orphans' = orphans \ {l}
  /\ held' = Released(l)
  /\ opened' = [opened EXCEPT ![l] = None]
  /\ UNCHANGED <<loop, script, starts, lockFile, pidFile, recycled, removed, buried>>

\* The operating system gives the pid of a dead loop to another program.
Recycle(l) ==
  /\ loop[l] \in {"dead", "refused"} /\ l \notin recycled
  /\ Cardinality(recycled) < MaxRecycled
  /\ recycled' = recycled \cup {l}
  /\ UNCHANGED <<loop, script, starts, lockFile, opened, held, orphans, pidFile, removed, buried>>

-----------------------------------------------------------------------------
(* ensure-loop.sh *)

\* ensureLoopRunning of a watchdog, or a person: a script is run.  The script
\* asks again what ensureLoopRunning has just asked.
Ensure(s) ==
  /\ script[s] = "idle"
  /\ ~isLoopAlive
  /\ script' = [script EXCEPT ![s] = "asking"]
  /\ UNCHANGED <<loop, starts, lockFile, opened, held, orphans, pidFile, recycled, removed, buried>>

Ask(s) ==
  /\ script[s] = "asking"
  /\ script' = [script EXCEPT ![s] = IF isLoopAlive THEN "done" ELSE "removing"]
  /\ UNCHANGED <<loop, starts, lockFile, opened, held, orphans, pidFile, recycled, removed, buried>>

\* rm -f of both files.  A loop still has the file open that lost its name.
RemovedLock_Kept == lockFile
RemovedLock == None

Remove(s) ==
  /\ script[s] = "removing"
  /\ lockFile' = RemovedLock
  /\ pidFile' = None
  /\ removed' = (removed \/ \E l \in Loops : loop[l] \in Booting \cup {"running"})
  /\ script' = [script EXCEPT ![s] = "starting"]
  /\ buried' = [buried EXCEPT ![s] = orphans]
  /\ UNCHANGED <<loop, starts, opened, held, orphans, recycled>>

\* nohup npm run loop &, then two seconds of sleep and a look at the pidfile.
Start(s, l) ==
  /\ script[s] = "starting" /\ l \in Unborn
  /\ loop' = [loop EXCEPT ![l] = "opening"]
  /\ starts' = [starts EXCEPT ![s] = l]
  /\ script' = [script EXCEPT ![s] = "done"]
  /\ UNCHANGED <<lockFile, opened, held, orphans, pidFile, recycled, removed, buried>>

LoopStep(l) == Open(l) \/ Lock(l) \/ CheckPid(l) \/ ClearPid(l) \/ WritePid(l)
ScriptStep(s) == Ask(s) \/ Remove(s) \/ \E l \in Loops : Start(s, l)

Next ==
  \/ \E l \in Loops : Launch(l) \/ LoopStep(l) \/ Kill(l) \/ OrphanEnds(l) \/ Recycle(l)
  \/ \E s \in Scripts : Ensure(s) \/ ScriptStep(s)

Spec == Init /\ [][Next]_vars

-----------------------------------------------------------------------------
\* Types, and that a lock is held through a descriptor that is still open.
TypeOK ==
  /\ loop \in [Loops -> {"unborn", "refused", "dead"} \cup Living]
  /\ script \in [Scripts -> {"idle", "asking", "removing", "starting", "done"}]
  /\ starts \in [Scripts -> Loops \cup {None}]
  /\ lockFile \in Loops \cup {None} /\ pidFile \in Loops \cup {None}
  /\ opened \in [Loops -> Loops \cup {None}]
  /\ held \in [Loops -> Loops \cup {None}]
  /\ \A f \in Loops : held[f] # None => opened[held[f]] = f
  /\ orphans \subseteq Loops /\ recycled \subseteq Loops
  /\ removed \in BOOLEAN /\ buried \in [Scripts -> SUBSET Loops]

Running == {l \in Loops : loop[l] = "running"}

\* "Singleton: refuse second instance" (scripts/loop.sh:13).
OneLoop == Cardinality(Running) <= 1

\* The lock keeps a second loop out, as long as nobody removes the files of a
\* loop that is alive: whatever is killed, by hand or not, and whoever starts.
OneLoopUnlessRemoved == removed \/ OneLoop

\* What the removal of the lock file is for (ensure-loop.sh:18): the children of
\* a killed loop, which hold its lock for as long as their run or their sleep
\* takes, do not keep the loop that a script starts from running.  A loop started
\* by a script is refused because another loop lives, because the pidfile's pid
\* has become a stranger's, or by a loop that came and was killed after the removal.
RefusedByTheLiving ==
  [][\A s \in Scripts, l \in Loops :
       (starts[s] = l /\ loop[l] # "refused" /\ loop'[l] = "refused")
         => \/ \E k \in Loops \ {l} : loop[k] \in Living
            \/ pidFile \in recycled
            \/ held[opened[l]] \in orphans \ buried[s]]_vars
===============================================================================
