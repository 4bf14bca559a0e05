------------------------------- MODULE Meetings -------------------------------
(***************************************************************************)
(* The meetings directory of an agent and its copy in cr.db                 *)
(* (meetings/sync.ts, db/meetings.ts, meetings/parse-meeting.ts): a watcher  *)
(* of the server copies with a debounce, and the progress report merges the  *)
(* two each time it is asked.                                                *)
(***************************************************************************)
EXTENDS FiniteSetsExt, Naturals

CONSTANTS
  Dates,      \* one file name, YYYY-MM-DD-topic.md, a day; a later one is greater
  SyncLimit,  \* the newest files that are copied: 100
  ListLimit,  \* those that are listed: 25
  MaxChanges  \* bound: changes of the directory

DatesAssumption == Dates \subseteq Nat /\ IsFiniteSet(Dates)
LimitsAssumption ==
  /\ SyncLimit \in Nat \ {0} /\ ListLimit \in Nat \ {0} /\ MaxChanges \in Nat
  /\ ListLimit <= SyncLimit

VARIABLES
  files,   \* the meetings of the directory: [date, ended]
  torn,    \* the dates of files that are truncated and not yet written
  rows,    \* the rows of table meetings
  watch,   \* the server's watcher: "off", "copied", "on"
  timer,   \* its debounce timer is set
  missed,  \* history: a change between the first copy and the watch
  changed  \* changes so far

vars == <<files, torn, rows, watch, timer, missed, changed>>

Meeting == [date : Dates, ended : BOOLEAN]

Init ==
  /\ files = {} /\ torn = {} /\ rows = {}
  /\ watch = "off" /\ timer = FALSE /\ missed = FALSE
  /\ changed = 0

Newest(S, n) == {m \in S : Cardinality({k \in S : k.date > m.date}) < n}

\* listMeetingFiles: a file that cannot be read, or has no end written, has none.
listMeetingFiles == {[date |-> m.date, ended |-> m.ended /\ m.date \notin torn] : m \in files}

\* syncMeetingsFromDirectory: the table is emptied and filled in one transaction.
Replaced_Upsert(copies) == copies \cup {m \in rows : \A k \in copies : k.date # m.date}
Replaced(copies) == copies
SyncMeetings == rows' = Replaced(Newest(listMeetingFiles, SyncLimit))

\* mergeMeetings: the file, with the end the row knows if the file has none.
mergeMeetings(dir, db) ==
  {[date |-> m.date, ended |-> m.ended \/ \E r \in db : r.date = m.date /\ r.ended] : m \in dir}
  \cup {r \in db : \A m \in dir : m.date # r.date}

listMeetings ==
  Newest(mergeMeetings(Newest(listMeetingFiles, ListLimit), Newest(rows, ListLimit)), ListLimit)

Changed ==
  /\ changed < MaxChanges /\ changed' = changed + 1
  /\ timer' = (timer \/ watch = "on")
  /\ missed' = (missed \/ watch = "copied")
  /\ UNCHANGED <<rows, watch>>

\* A meeting's file is written, its end added to it or taken from it.
Add(d) ==
  /\ \A m \in files : m.date # d
  /\ \E e \in BOOLEAN : files' = files \cup {[date |-> d, ended |-> e]}
  /\ Changed /\ UNCHANGED torn

Truncate(m) ==
  /\ m.date \notin torn
  /\ torn' = torn \cup {m.date}
  /\ Changed /\ UNCHANGED files

Rewrite(m) ==
  /\ m.date \in torn
  /\ \E e \in BOOLEAN : files' = (files \ {m}) \cup {[date |-> m.date, ended |-> e]}
  /\ torn' = torn \ {m.date}
  /\ Changed

Delete(m) ==
  /\ files' = files \ {m} /\ torn' = torn \ {m.date}
  /\ Changed

\* startMeetingsWatcher: a first copy, then the watch of the directory.
StartCopy ==
  /\ watch = "off"
  /\ watch' = "copied"
  /\ SyncMeetings
  /\ UNCHANGED <<files, torn, timer, missed, changed>>

StartWatch ==
  /\ watch = "copied"
  /\ watch' = "on"
  /\ UNCHANGED <<files, torn, rows, timer, missed, changed>>

\* scheduleSync sets the timer anew with each change; it fires once they pause.
Debounced ==
  /\ timer
  /\ timer' = FALSE
  /\ SyncMeetings
  /\ missed' = FALSE
  /\ UNCHANGED <<files, torn, watch, changed>>

\* stop, at shutdown, or a copy that throws in the timer and takes the server with it.
Stop ==
  /\ watch # "off"
  /\ watch' = "off" /\ timer' = FALSE /\ missed' = FALSE
  /\ UNCHANGED <<files, torn, rows, changed>>

\* The report of a process that finds neither files nor rows copies as well.
Report ==
  /\ files = {} /\ rows = {}
  /\ SyncMeetings
  /\ UNCHANGED <<files, torn, watch, timer, missed, changed>>

Next ==
  \/ \E d \in Dates : Add(d)
  \/ \E m \in files : Truncate(m) \/ Rewrite(m) \/ Delete(m)
  \/ StartCopy \/ StartWatch \/ Debounced \/ Stop \/ Report

Spec == Init /\ [][Next]_vars

-------------------------------------------------------------------------------
OnePerDate(S) == \A m, k \in S : m.date = k.date => m = k

TypeOK ==
  /\ files \subseteq Meeting /\ OnePerDate(files)
  /\ rows \subseteq Meeting /\ OnePerDate(rows)
  /\ torn \subseteq {m.date : m \in files}
  /\ watch \in {"off", "copied", "on"} /\ timer \in BOOLEAN /\ missed \in BOOLEAN
  /\ changed \in 0..MaxChanges

\* With the watch on and the debounce over, the list is the newest files of the
\* directory with their ends, although it is merged from two lists, each cut, of
\* which the copy may have been made in the middle of a write; but for a change
\* that fell between the first copy and the watch, until the next one.
ListsDirectory ==
  watch = "on" /\ ~timer /\ ~missed /\ torn = {} => listMeetings = Newest(files, ListLimit)
===============================================================================
