---------------------------- MODULE WatchdogProcess ----------------------------
(***************************************************************************)
(* The watchdog as a process of its own (watchdog/index.ts) and the script   *)
(* that starts and stops it (scripts/watchdog.ts).  All daemons of a user    *)
(* share one socket path and one pidfile; each takes the path when it boots  *)
(* and removes both files when it is told to stop, whoever they belong to.   *)
(* WATCHDOG_PORT is not set.                                                  *)
(***************************************************************************)
EXTENDS FiniteSets, Naturals

CONSTANTS
  None,
  Daemons,     \* the processes that may be started
  Starters,    \* calls of "watchdog.ts start"
  MaxSignals   \* bound on the signals sent to daemons

VARIABLES
  daemon,      \* each process: "new", "spawned", "booting", "serving", "closing" or "gone"
  socket,      \* the daemon that listens at the path, dead or alive, or None
  pidFile,     \* the daemon whose pid is in the file, or None
  recycled,    \* the pids of dead daemons that another process has now
  starter,     \* each call: "new", "waiting", or what it said: "already", "ok", "failed"
  signals,
  unseen       \* history: a daemon was spawned while one lived that the pidfile did not name

vars == <<daemon, socket, pidFile, recycled, starter, signals, unseen>>

SignalsAssumption == MaxSignals \in Nat
DaemonsAssumption == None \notin Daemons

Init ==
  /\ daemon = [d \in Daemons |-> "new"]
  /\ socket = None /\ pidFile = None
  /\ recycled = {}
  /\ starter = [s \in Starters |-> "new"]
  /\ signals = 0
  /\ unseen = FALSE

Live == {d \in Daemons : daemon[d] \notin {"new", "gone"}}

isProcessAlive(d) == d \in Live \cup recycled

AlreadyRunning_NoCheck == FALSE
AlreadyRunning == pidFile # None /\ isProcessAlive(pidFile)

\* start: the pidfile is believed, or a daemon is spawned and waited for.
Start(s) ==
  /\ starter[s] = "new"
  /\ IF AlreadyRunning
       THEN /\ starter' = [starter EXCEPT ![s] = "already"]
            /\ UNCHANGED <<daemon, unseen>>
       ELSE \E d \in Daemons :
              /\ daemon[d] = "new"
              /\ daemon' = [daemon EXCEPT ![d] = "spawned"]
              /\ unseen' = (unseen \/ Live \ {pidFile} # {})
              /\ starter' = [starter EXCEPT ![s] = "waiting"]
  /\ UNCHANGED <<socket, pidFile, recycled, signals>>

\* It looks for a live pid twenty times, whichever daemon's that is.
Found(s) ==
  /\ starter[s] = "waiting" /\ AlreadyRunning
  /\ starter' = [starter EXCEPT ![s] = "ok"]
  /\ UNCHANGED <<daemon, socket, pidFile, recycled, signals, unseen>>

NotFound(s) ==
  /\ starter[s] = "waiting"
  /\ starter' = [starter EXCEPT ![s] = "failed"]
  /\ UNCHANGED <<daemon, socket, pidFile, recycled, signals, unseen>>

Moved(d, stage) == daemon' = [daemon EXCEPT ![d] = stage]

\* The path is cleared, then the service reads the chats, which takes a while.
Boot(d) ==
  /\ daemon[d] = "spawned"
  /\ Moved(d, "booting")
  /\ socket' = None
  /\ UNCHANGED <<pidFile, recycled, starter, signals, unseen>>

\* A path that is taken again by then ends the process; else the pid is written.
Listen(d) ==
  /\ daemon[d] = "booting"
  /\ IF socket = None
       THEN Moved(d, "serving") /\ socket' = d /\ pidFile' = d
       ELSE Moved(d, "gone") /\ UNCHANGED <<socket, pidFile>>
  /\ UNCHANGED <<recycled, starter, signals, unseen>>

\* Both files go, and the process once its last connection is closed.
Shutdown(d) ==
  /\ Moved(d, "closing")
  /\ socket' = None /\ pidFile' = None

\* DELETE /stop reaches the daemon that has the path.
Stop ==
  /\ socket # None /\ daemon[socket] = "serving"
  /\ Shutdown(socket)
  /\ UNCHANGED <<recycled, starter, signals, unseen>>

Exit(d) ==
  /\ daemon[d] = "closing"
  /\ Moved(d, "gone")
  /\ UNCHANGED <<socket, pidFile, recycled, starter, signals, unseen>>

Signalled == signals < MaxSignals /\ signals' = signals + 1

\* SIGINT or SIGTERM: shutdown, a second time too; before the handlers are set it kills.
Terminate(d) ==
  /\ Signalled
  /\ daemon[d] \in {"serving", "closing"}
  /\ Shutdown(d)
  /\ UNCHANGED <<recycled, starter, unseen>>

Kill(d) ==
  /\ Signalled
  /\ d \in Live
  /\ Moved(d, "gone")
  /\ UNCHANGED <<socket, pidFile, recycled, starter, unseen>>

Recycle(d) ==
  /\ daemon[d] = "gone" /\ d \notin recycled
  /\ recycled' = recycled \cup {d}
  /\ UNCHANGED <<daemon, socket, pidFile, starter, signals, unseen>>

Next ==
  \/ \E s \in Starters : Start(s) \/ Found(s) \/ NotFound(s)
  \/ \E d \in Daemons : Boot(d) \/ Listen(d) \/ Exit(d) \/ Terminate(d) \/ Kill(d) \/ Recycle(d)
  \/ Stop

Spec == Init /\ [][Next]_vars

--------------------------------------------------------------------------------
TypeOK ==
  /\ daemon \in [Daemons -> {"new", "spawned", "booting", "serving", "closing", "gone"}]
  /\ socket \in Daemons \cup {None} /\ pidFile \in Daemons \cup {None}
  /\ recycled \subseteq {d \in Daemons : daemon[d] = "gone"}
  /\ starter \in [Starters -> {"new", "waiting", "already", "ok", "failed"}]
  /\ signals \in 0..MaxSignals /\ unseen \in BOOLEAN

\* A daemon that serves can be reached and stopped, and the next start finds
\* it, though booting and stopping take the files without asking whose they
\* are; except after a start that could not know of a daemon booting or closing.
Reachable ==
  ~unseen => \A d \in Daemons : daemon[d] = "serving" => socket = d /\ pidFile = d
================================================================================
