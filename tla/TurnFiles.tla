------------------------------- MODULE TurnFiles -------------------------------
(***************************************************************************)
(* Two files of an agent directory and their copies in cr.db.               *)
(* SESSION.md is written by the agent and copied by a watcher of the server *)
(* with a debounce (src/session/sync.ts, src/db/turns.ts): the copy is      *)
(* replaced as a whole, and a file that cannot be read is a file of no       *)
(* turns.  TURNLOG.jsonl is appended to by the guard and merged line by line *)
(* by the watcher, the progress report and the guard                        *)
(* (src/session/sync-turnlog.ts, src/db/turn-audit.ts).                     *)
(***************************************************************************)
EXTENDS SequencesExt

CONSTANTS
  Syncers,   \* processes that merge TURNLOG.jsonl: "report" of the server, the guard
  MaxEdits,  \* bound: writes of SESSION.md
  MaxLines,  \* bound: lines of TURNLOG.jsonl
  Idle       \* a syncer that is not merging

BoundsAssumption == MaxEdits \in Nat /\ MaxLines \in Nat

VARIABLES
  file,    \* the number of turns in SESSION.md; 0 when there is no file
  torn,    \* a writer has truncated it and not yet written
  cache,   \* turns of the workspace in cr.db
  watch,   \* the server's watcher of SESSION.md: "off", "synced", "on", or "lost"
  timer,   \* its debounce timer is set
  excused, \* history: a write the watcher could not see, see FreshUnlessExcused
  log,     \* the lines of TURNLOG.jsonl
  partial, \* its last line is half written
  reading, \* per syncer: the lines it has read and not merged
  rows     \* rows of turn_audit_events in the order of their ids

vars == <<file, torn, cache, watch, timer, excused, log, partial, reading, rows>>
sessionVars == <<file, torn, cache, watch, timer, excused>>
logVars == <<log, partial, reading, rows>>

Init ==
  /\ file \in 0..1 /\ torn = FALSE /\ cache = 0
  /\ watch = "off" /\ timer = FALSE /\ excused = FALSE
  /\ log = <<>> /\ partial = FALSE /\ rows = <<>>
  /\ reading = [p \in Syncers |-> Idle]

-----------------------------------------------------------------------------
(* SESSION.md *)

\* What parseSessionTurnsFromFile returns: nothing for a missing or truncated file.
Turns == IF torn THEN 0 ELSE file

\* syncSessionTurnsFromAgentDir: DELETE and the INSERTs are one transaction.
SyncSession == cache' = Turns

\* A change of the file: the watcher calls scheduleSync, which sets the timer anew.
Changed ==
  /\ timer' = (timer \/ watch = "on")
  /\ excused' = (excused \/ watch = "synced")

\* The agent truncates the file and writes it, in two system calls.
Truncate ==
  /\ file \in 1..(MaxEdits - 1) /\ ~torn
  /\ torn' = TRUE
  /\ Changed
  /\ UNCHANGED <<file, cache, watch, logVars>>

Write ==
  /\ torn \/ file = 0
  /\ file' = file + 1 /\ torn' = FALSE
  /\ Changed
  /\ UNCHANGED <<cache, watch, logVars>>

\* An editor writes another file and renames it over this one: the watcher is told
\* once and keeps the file that has lost its name.
Rename ==
  /\ file \in 1..(MaxEdits - 1) /\ ~torn
  /\ file' = file + 1
  /\ watch' = IF watch = "on" THEN "lost" ELSE watch
  /\ timer' = (timer \/ watch = "on")
  /\ excused' = (excused \/ watch \in {"on", "synced"})
  /\ UNCHANGED <<torn, cache, logVars>>

\* startSessionTurnsWatcher: a first copy, then the watch, which throws without a file.
StartSync ==
  /\ watch = "off"
  /\ watch' = "synced"
  /\ SyncSession
  /\ UNCHANGED <<file, torn, timer, excused, logVars>>

StartWatch ==
  /\ watch = "synced"
  /\ watch' = IF file > 0 THEN "on" ELSE "lost"
  /\ excused' = (excused \/ file = 0)
  /\ UNCHANGED <<file, torn, cache, timer, logVars>>

\* The watcher after its timer has fired.
WatchAfter_Once == "lost"
WatchAfter == watch

Debounced ==
  /\ timer
  /\ timer' = FALSE
  /\ SyncSession
  /\ watch' = WatchAfter
  /\ UNCHANGED <<file, torn, excused, logVars>>

\* loadCachedSessionTurns of the progress report: only an empty copy is made again.
Load ==
  /\ cache = 0
  /\ SyncSession
  /\ UNCHANGED <<file, torn, watch, timer, excused, logVars>>

-----------------------------------------------------------------------------
(* TURNLOG.jsonl *)

\* appendTurnAudit of the guard; a reader may meet a part of the line.
AppendLine ==
  /\ ~partial /\ Len(log) < MaxLines
  /\ log' = Append(log, Len(log) + 1)
  /\ partial' = TRUE
  /\ UNCHANGED <<sessionVars, reading, rows>>

EndLine ==
  /\ partial
  /\ partial' = FALSE
  /\ UNCHANGED <<sessionVars, log, reading, rows>>

\* parseTurnLogLines: the lines that are JSON.
Parsed == IF partial THEN Front(log) ELSE log

\* syncTurnLogFromAgentDir reads the file, then opens the database ...
ReadLog(p) ==
  /\ reading[p] = Idle
  /\ reading' = [reading EXCEPT ![p] = [lines |-> Parsed]]
  /\ UNCHANGED <<sessionVars, log, partial, rows>>

\* ... and inserts one line after the other, but for what has a row: INSERT OR
\* IGNORE on the line's hash.
Merged_WhenEmpty(lines) == IF rows = <<>> THEN lines ELSE rows
Merged(lines) ==
  LET after[i \in 0..Len(lines)] ==
        IF i = 0 THEN rows
        ELSE IF Contains(after[i - 1], lines[i]) THEN after[i - 1]
        ELSE Append(after[i - 1], lines[i])
  IN after[Len(lines)]

MergeLog(p) ==
  /\ reading[p] # Idle
  /\ rows' = Merged(reading[p].lines)
  /\ reading' = [reading EXCEPT ![p] = Idle]
  /\ UNCHANGED <<sessionVars, log, partial>>

-----------------------------------------------------------------------------
Session == Truncate \/ Write \/ Rename \/ StartSync \/ StartWatch \/ Debounced \/ Load
TurnLog == AppendLine \/ EndLine \/ \E p \in Syncers : ReadLog(p) \/ MergeLog(p)

Next == Session \/ TurnLog
Spec == Init /\ [][Next]_vars

TypeOK ==
  /\ file \in 0..(MaxEdits + 1) /\ cache \in 0..(MaxEdits + 1)
  /\ {torn, timer, excused, partial} \subseteq BOOLEAN
  /\ watch \in {"off", "synced", "on", "lost"}
  /\ log \in BoundedSeq(1..MaxLines, MaxLines)
  /\ rows \in BoundedSeq(1..MaxLines, MaxLines)
  /\ \A p \in Syncers : reading[p] = Idle \/ reading[p].lines \in BoundedSeq(1..MaxLines, MaxLines)

\* The copy of SESSION.md is the file, once the debounce is over, although a sync in
\* the middle of a write has copied no turns.  Excused is a server that started
\* without the file, a write between its first copy and its watch, and a rename:
\* after those the report shows the old turns until the server is restarted.
FreshUnlessExcused ==
  watch \in {"on", "lost"} /\ ~excused /\ ~timer /\ ~torn => cache = file

\* The rows are the lines of the log, each once and in its order, however the
\* merges of the three processes and the half-written lines fall.
RowsFollowLog == IsPrefix(rows, log)

\* A merge leaves a row for every line that was whole when it began.
MergeIsComplete ==
  [][\A p \in Syncers : reading[p] # Idle /\ reading'[p] = Idle
       => ToSet(reading[p].lines) \subseteq ToSet(rows')]_vars

\* The turn log and its rows agree, by state and by step.
LogMirrored == []RowsFollowLog /\ MergeIsComplete
===============================================================================
