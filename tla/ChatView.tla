-------------------------------- MODULE ChatView --------------------------------
(***************************************************************************)
(* The chat view of the browser (src/ui/app.ts, src/ui/poll, src/ui/state)  *)
(* against a server and an IDE that go on meanwhile.  A feed, an event       *)
(* stream or a poll that replaces it after an error, brings snapshots: is    *)
(* the agent busy.  The messages are asked for apart: when a chat is opened, *)
(* when the refresh button is pressed, and to catch up when a snapshot says  *)
(* the agent is idle after one that said busy.  No answer carries a version, *)
(* so whatever arrives last is what the store holds.                         *)
(***************************************************************************)
EXTENDS SequencesExt

CONSTANTS
  Composers,
  None,
  Ids,        \* bound: chat requests under way, and snapshots under way
  MaxTurns,   \* bound: turns of an agent
  MaxFaults   \* bound: answers that fail and streams that break

ViewAssumption == None \notin Composers /\ MaxTurns \in Nat

VARIABLES
  busy,      \* per composer: its agent works (database or CDP)
  ver,       \* per composer: turns whose messages can be read
  selected,  \* store: activeComposerId
  agent,     \* store: agent, "none", "busy" or "idle"
  msgs,      \* store: the version of messages, with chatSig
  shown,     \* the chat element: a composer, "loading", or None
  feeds,     \* streams and intervals that run
  usePoll,   \* the scheduler has given up on streams
  chats,     \* chat requests under way
  snaps,     \* snapshots under way
  sending,
  faults,
  owed,      \* history: the selected chat was seen busy and not loaded in full since
  excused    \* history: see CaughtUp

vars == <<busy, ver, selected, agent, msgs, shown, feeds, usePoll, chats, snaps,
          sending, faults, owed, excused>>
ide   == <<busy, ver>>

Stream(c) == [kind |-> "stream", of |-> c]
Poll      == [kind |-> "poll", of |-> None]
NoMsgs    == [ver |-> 0, busy |-> FALSE, sig |-> FALSE]

State(b) == IF b THEN "busy" ELSE "idle"
\* cursor.snapshot: of a composer, or of whatever composer CDP finds busy.
BusyOf(c) == IF c = None THEN \E d \in Composers : busy[d] ELSE busy[c]

Init ==
  /\ busy = [c \in Composers |-> FALSE] /\ ver = [c \in Composers |-> 0]
  /\ selected = None /\ agent = "none" /\ msgs = NoMsgs /\ shown = None
  /\ feeds = <<Stream(None)>> /\ usePoll = FALSE
  /\ chats = {} /\ snaps = {}
  /\ sending = FALSE
  /\ faults = 0 /\ owed = FALSE /\ excused = FALSE

-----------------------------------------------------------------------------
(* The scheduler *)

FreeIds(reqs) == {n \in Ids : \A r \in reqs : r.n # n}

\* refreshChat: a request for the messages and the agent of a chat.
Ask(c, why, reqs) ==
  \E n \in FreeIds(reqs) :
    /\ \A m \in FreeIds(reqs) : n <= m
    /\ chats' = reqs \cup {[n |-> n, of |-> c, why |-> why, phase |-> "asked", ver |-> 0, busy |-> FALSE]}

\* halt closes the stream, with what it has not delivered, and the interval; a
\* tick under way is not called back.
Halted == <<>>
Undelivered == {s \in snaps : s.via = "stream"}
Halt == feeds' = Halted /\ snaps' = snaps \ Undelivered

\* start halts first.
Started_Beside(c) == Append(feeds, IF usePoll THEN Poll ELSE Stream(c))
Started_Stream(c) == <<Stream(c)>>
Started(c) == <<IF usePoll THEN Poll ELSE Stream(c)>>
Start(c) == feeds' = Started(c) /\ snaps' = snaps \ Undelivered

\* The intervals that run, which are all alike.
Polls ==
  LET running == {i \in DOMAIN feeds : feeds[i].kind = "poll"}
  IN  [i \in 1..Cardinality(running) |-> Poll]

\* es.onerror: the stream is closed and a poll takes over, for good.
StreamError ==
  /\ \E f \in ToSet(feeds) : f.kind = "stream"
  /\ faults < MaxFaults /\ faults' = faults + 1
  /\ usePoll' = TRUE
  /\ feeds' = Append(Polls, Poll)
  /\ snaps' = snaps \ Undelivered
  /\ UNCHANGED <<ide, selected, agent, msgs, shown, chats, sending, owed, excused>>

\* The server pushes the next snapshot of the stream, or the interval asks for one
\* of the chat selected now.  Ticks overlap and arrive in any order.
Snapshot ==
  \E f \in ToSet(feeds), n \in FreeIds(snaps) :
    /\ \A m \in FreeIds(snaps) : n <= m
    /\ f.kind = "stream" => Undelivered = {}
    /\ LET c == IF f.kind = "stream" THEN f.of ELSE selected IN
         snaps' = snaps \cup
           {[n |-> n, of |-> c, busy |-> BusyOf(c),
             via |-> IF f.kind = "stream" THEN "stream" ELSE "tick"]}
    /\ UNCHANGED <<ide, selected, agent, msgs, shown, feeds, usePoll, chats, sending, faults, owed, excused>>

\* shouldRefreshChat: the agent before this snapshot was busy, and now is not.
TurnOver_AfterDispatch(prev, now) == now = "busy" /\ now # "busy"
TurnOver(prev, now) == prev = "busy" /\ now # "busy"

\* applySnapshot.
Deliver(s) ==
  /\ s \in snaps
  /\ agent' = State(s.busy)
  /\ owed' = (owed \/ (s.busy /\ s.of = selected /\ selected # None))
  /\ IF selected # None /\ TurnOver(agent, agent')
       THEN Ask(selected, "catchup", chats)
       ELSE UNCHANGED chats
  /\ snaps' = snaps \ {s}
  /\ UNCHANGED <<ide, selected, msgs, shown, feeds, usePoll, sending, faults, excused>>

-----------------------------------------------------------------------------
(* The chat *)

\* openChat, from a click or for the chat saved last.
OpenChat(c) ==
  /\ c # selected
  /\ Halt
  /\ selected' = c
  /\ msgs' = NoMsgs
  /\ shown' = "loading"
  /\ Ask(c, "open", chats)
  /\ owed' = FALSE /\ excused' = FALSE
  /\ UNCHANGED <<ide, agent, usePoll, sending, faults>>

\* The refresh button, once the list is loaded.
Refresh ==
  /\ selected # None
  /\ Ask(selected, "refresh", chats)
  /\ UNCHANGED <<ide, selected, agent, msgs, shown, feeds, usePoll, snaps, sending, faults, owed, excused>>

\* cursor.chat on the server: messages and database status are read at once, then
\* the agent's window is probed.
ReadChat(r) ==
  /\ r \in chats /\ r.phase = "asked"
  /\ chats' = (chats \ {r}) \cup {[r EXCEPT !.phase = "read", !.ver = ver[r.of], !.busy = busy[r.of]]}
  /\ UNCHANGED <<ide, selected, agent, msgs, shown, feeds, usePoll, snaps, sending, faults, owed, excused>>

\* openChat goes on: the chat is put into the element and the feed started, for
\* the chat that is selected by now.
OpenEnds(r, what) ==
  IF r.why = "open"
    THEN shown' = what /\ Start(selected)
    ELSE UNCHANGED <<shown, feeds, snaps>>

\* The answer with the probe's finding: CHAT_LOADED, of whatever chat it is, unless
\* it was not forced and its signature is the one loaded last.
Arrive(r) ==
  /\ r \in chats /\ r.phase = "read"
  /\ chats' = chats \ {r}
  /\ \E b \in {r.busy \/ busy[r.of]} :
       LET loaded == [ver |-> r.ver, busy |-> b, sig |-> TRUE] IN
       IF r.why = "refresh" /\ msgs = loaded
         THEN UNCHANGED <<agent, msgs, owed, excused>>
         ELSE /\ msgs' = loaded
              /\ agent' = State(b)
              /\ owed' = (b \/ (owed /\ r.ver < ver[r.of]))
              /\ excused' = (excused \/ r.of # selected \/ (~b /\ r.ver < ver[r.of]))
  /\ OpenEnds(r, r.of)
  /\ UNCHANGED <<ide, selected, usePoll, sending, faults>>

\* An error is an answer of nothing: the element stays at "Loading".
Fail(r) ==
  /\ r \in chats
  /\ faults < MaxFaults /\ faults' = faults + 1
  /\ chats' = chats \ {r}
  /\ excused' = TRUE
  /\ OpenEnds(r, shown)
  /\ UNCHANGED <<ide, selected, agent, msgs, usePoll, sending, owed>>

-----------------------------------------------------------------------------
(* The form *)

\* submitCompose up to the answer.
Submit ==
  /\ selected # None /\ ~sending /\ agent # "busy"
  /\ sending' = TRUE
  /\ Halt
  /\ UNCHANGED <<ide, selected, agent, msgs, shown, usePoll, chats, faults, owed, excused>>

\* The answer is an error: LiveApi.send passes no token and the server refuses a
\* send without one.
Refused ==
  /\ sending
  /\ sending' = FALSE
  /\ Start(selected)
  /\ UNCHANGED <<ide, selected, agent, msgs, shown, usePoll, chats, faults, owed, excused>>

-----------------------------------------------------------------------------
(* The IDE *)

TurnStarts(c) ==
  /\ ~busy[c] /\ ver[c] < MaxTurns
  /\ busy' = [busy EXCEPT ![c] = TRUE]
  /\ UNCHANGED <<ver, selected, agent, msgs, shown, feeds, usePoll, chats, snaps, sending, faults, owed, excused>>

TurnEnds(c) ==
  /\ busy[c]
  /\ busy' = [busy EXCEPT ![c] = FALSE]
  /\ ver' = [ver EXCEPT ![c] = @ + 1]
  /\ UNCHANGED <<selected, agent, msgs, shown, feeds, usePoll, chats, snaps, sending, faults, owed, excused>>

Next ==
  \/ StreamError \/ Snapshot \/ Refresh \/ Submit \/ Refused
  \/ \E s \in snaps : Deliver(s)
  \/ \E r \in chats : ReadChat(r) \/ Arrive(r) \/ Fail(r)
  \/ \E c \in Composers : OpenChat(c) \/ TurnStarts(c) \/ TurnEnds(c)

Spec == Init /\ [][Next]_vars

-----------------------------------------------------------------------------
\* Types, and that the scheduler does not go back from polling to streams.
TypeOK ==
  /\ busy \in [Composers -> BOOLEAN] /\ ver \in [Composers -> 0..MaxTurns]
  /\ selected \in Composers \cup {None}
  /\ agent \in {"none", "busy", "idle"}
  /\ msgs \in [ver : 0..MaxTurns, busy : BOOLEAN, sig : BOOLEAN]
  /\ shown \in Composers \cup {"loading", None}
  /\ \A f \in ToSet(feeds) : f = Poll \/ f \in {Stream(c) : c \in Composers \cup {None}}
  /\ usePoll => \A f \in ToSet(feeds) : f = Poll
  /\ chats \subseteq [n : Ids, of : Composers, why : {"open", "catchup", "refresh"},
                      phase : {"asked", "read"}, ver : 0..MaxTurns, busy : BOOLEAN]
  /\ snaps \subseteq [n : Ids, of : Composers \cup {None}, busy : BOOLEAN, via : {"stream", "tick"}]
  /\ sending \in BOOLEAN

\* The browser keeps one feed, however the openings of chats, their answers, the
\* sends and the errors of streams overlap: with two the server switches tabs in
\* the IDE for each, and nobody ever closes the one that was forgotten.  If it is
\* a stream, it reports on the chat that is selected, never on the one before it.
OneFeed ==
  /\ Len(feeds) <= 1
  /\ \A f \in ToSet(feeds) : f.kind = "stream" => f.of = selected

\* A turn that a snapshot of the selected chat has shown is caught up with: once
\* the store says idle, the messages of that turn are there or being asked for.
\* Excused is an answer that failed, that was about another chat, or that was read
\* before a turn and arrived, saying idle, after it.
CaughtUp ==
  owed /\ agent = "idle" /\ (\A r \in chats : r.of # selected) => excused
=================================================================================
