------------------------------ MODULE SendRoute ------------------------------
(***************************************************************************)
(* The way of one prompt from a caller into a chat: the HTTP route with its *)
(* lock and its duplicate window, the search for the window that shows the  *)
(* composer, the switch of a tab and the cache of its outcome, and the      *)
(* work in the page: dialogs, the draft in the input, the typing, the       *)
(* submission.  Every await is a step, for between two of them another      *)
(* process, a person or Cursor itself may act on the same windows.          *)
(*                                                                         *)
(* A request is one call of send or enqueueSend.  Its way in is             *)
(*   "http"     POST /api/send                                              *)
(*   "onBusy"   POST /api/send with queueOnBusy                             *)
(*   "process"  cursor.send of another process: guard or MCP                *)
(* What fails on the way to the window (unknown token, loop guard, CDP) is  *)
(* an event; SendPipeline has the loop guard and the drain in full.         *)
(***************************************************************************)
EXTENDS Naturals, Sequences, FiniteSets

CONSTANTS Composers,
          Windows,     \* in the order composerPageOrder gives them: a sequence
          Hinted,      \* Hinted[c]: the windows named after the workspace of c
          Tabs,        \* Tabs[w]: the composers the window has a tab for
          NoWindow, NoComposer,
          Requests, Way, To, Text,
          Marked,      \* requests whose text begins with AGENT_TOKEN=
          Person,      \* what a person has typed
          Events,      \* the kinds of events that may happen
          MaxEvents    \* bounds them

Win == {Windows[i] : i \in DOMAIN Windows}

ASSUME RouteAssumption ==
  /\ Windows \in Seq(Win) /\ \A w \in Win : Tabs[w] \subseteq Composers
  /\ Way \in [Requests -> {"http", "onBusy", "process"}]
  /\ To \in [Requests -> Composers]
  /\ Person \notin Requests /\ Marked \subseteq Requests
  /\ NoWindow \notin Composers \cup Win /\ NoComposer \notin Composers

VARIABLES
  shows,      \* the composer a window shows; NoComposer, or NoWindow once closed
  draft,      \* what is in the input of a composer
  busy,       \* its agent is running
  dialog,     \* the dialog of a window and the composer whose draft it holds
  chat,       \* the messages of a composer
  pc, mode,   \* where a request is, and whether it is a send or an enqueue
  win,        \* the window it goes to
  cache,      \* switchCache of each process
  sendBusy, releasing, last,   \* the lock of /api/send, its timer, its last text
  queued,     \* requests in the server's queue
  disturbed,  \* requests whose window or input others changed under them
  cached,     \* requests that went where the cache said
  happened    \* the kinds of events so far

ide    == <<shows, draft, busy, dialog, chat>>
lock   == <<sendBusy, releasing, last>>
vars   == <<ide, pc, mode, win, cache, lock, queued, disturbed, cached, happened>>

First(S) == Windows[CHOOSE i \in DOMAIN Windows :
                      Windows[i] \in S /\ \A j \in DOMAIN Windows : Windows[j] \in S => i <= j]
Opened   == {w \in Win : shows[w] # NoWindow}
Pages    == {w \in Win : shows[w] \in Composers}    \* pageHasComposer
Dialogs  == {"none", "revert", "late", "pretty", "cancel", "stuck"}
Pieces   == Requests \cup {Person}
Process(r) == IF Way[r] = "process" THEN "other" ELSE "server"
NoHit    == [composer |-> NoComposer, window |-> NoWindow]
Closing  == {"ok", "failed", "queued", "refused", "dead"}
InPage  == {"page", "clear", "refocus", "insert", "submit", "confirm"}
Locking(r) == Way[r] \in {"http", "onBusy"}

TypeOK ==
  /\ shows \in [Win -> Composers \cup {NoComposer, NoWindow}]
  /\ draft \in [Composers -> Seq(Pieces)]
  /\ busy \in [Composers -> BOOLEAN]
  /\ dialog \in [Win -> [kind : Dialogs, of : Composers \cup {NoComposer}]]
  /\ chat \in [Composers -> Seq(Seq(Pieces))]
  /\ pc \in [Requests -> Closing \cup {"new", "find", "switch", "assert", "dismiss", "pick",
                                       "page", "clear", "refocus", "insert", "submit", "confirm"}]
  /\ mode \in [Requests -> {"send", "enqueue"}]
  /\ win \in [Requests -> Win \cup {NoWindow}]
  /\ \A r \in Requests : pc[r] \in {"dismiss", "page", "clear", "insert", "submit"} => win[r] # NoWindow
  /\ cache \in [{"server", "other"} -> [composer : Composers \cup {NoComposer},
                                        window : Win \cup {NoWindow}]]
  /\ {sendBusy, releasing, last.fresh} \subseteq BOOLEAN
  /\ releasing => sendBusy
  /\ queued \subseteq Requests
  /\ disturbed \subseteq Requests /\ cached \subseteq Requests /\ happened \subseteq Events

Init ==
  /\ shows \in [Win -> Composers] /\ \A w \in Win : shows[w] \in Tabs[w]
  /\ draft = [c \in Composers |-> <<>>] /\ busy = [c \in Composers |-> FALSE]
  /\ dialog = [w \in Win |-> [kind |-> "none", of |-> NoComposer]]
  /\ chat = [c \in Composers |-> <<>>]
  /\ pc = [r \in Requests |-> "new"] /\ win = [r \in Requests |-> NoWindow]
  /\ mode = [r \in Requests |-> "send"]
  /\ cache = [p \in {"server", "other"} |-> NoHit]
  /\ sendBusy = FALSE /\ releasing = FALSE /\ last = [text |-> "", fresh |-> FALSE]
  /\ queued = {} /\ disturbed = {} /\ cached = {} /\ happened = {}

\* An event of a kind happens at most once.
Event(kind) == /\ kind \in Events \ happened /\ Cardinality(happened) < MaxEvents
               /\ happened' = happened \cup {kind}

\* Requests on their way whose window is one of ws; in its input, at least of
\* those that have looked at it, if that is what changed.
OnTheirWay(ws) == {r \in Requests : pc[r] \notin Closing \cup {"new", "find", "switch"} /\ win[r] \in ws}
InInput(c)     == {r \in Requests : /\ pc[r] \in {"clear", "refocus", "insert", "submit", "confirm"}
                                    /\ win[r] # NoWindow /\ shows[win[r]] = c}
Disturb(R) == disturbed' = disturbed \cup R

------------------------------------------------------------------------------
(* How a request ends *)

\* The lock of the route is held until a timer lets go of it.
\* Mutants: a failed send does not start the timer; every send does.
LetGo_Always(r, how) == releasing' = TRUE
LetGo(r, how) == releasing' = (releasing \/ Locking(r))

EndsAs(r, how) ==
  /\ pc' = [pc EXCEPT ![r] = how]
  /\ LetGo(r, how)
  /\ UNCHANGED <<mode, sendBusy, last>>

Goes(r, step) == pc' = [pc EXCEPT ![r] = step] /\ UNCHANGED <<mode, lock>>

\* enqueueSend throws in the catch of /api/send, where nothing catches it: the
\* server process dies, and with it the queue in its memory.
ServerDies ==
  /\ pc' = [r \in Requests |-> IF Process(r) = "server" /\ pc[r] \notin Closing \cup {"new"}
                               THEN "dead" ELSE pc[r]]
  /\ sendBusy' = FALSE /\ releasing' = FALSE /\ last' = [text |-> "", fresh |-> FALSE]
  /\ queued' = {}
  /\ cache' = [cache EXCEPT !["server"] = NoHit]
  /\ UNCHANGED mode

\* A send throws.  The route answers; an agent that is running, or an input
\* that cannot be used, makes it an enqueue if the caller asked for that.
\* Mutant: it is sent again instead.
Throws_Retries(r, isBusy) ==
  IF isBusy /\ Way[r] = "onBusy" THEN Goes(r, "find") ELSE EndsAs(r, "failed")
Throws(r, isBusy) ==
  IF isBusy /\ Way[r] = "onBusy"
  THEN /\ pc' = [pc EXCEPT ![r] = "find"] /\ mode' = [mode EXCEPT ![r] = "enqueue"]
       /\ UNCHANGED lock
  ELSE EndsAs(r, "failed")

------------------------------------------------------------------------------
(* server.ts: POST /api/send *)

\* Mutants: the lock is not looked at; nor the text of the last send.
Admits_Unlocked(r) == ~(last.fresh /\ last.text = Text[r])
Admits_Twins(r) == ~sendBusy
Admits(r) == ~sendBusy /\ ~(last.fresh /\ last.text = Text[r])

Accept(r) ==
  /\ pc[r] = "new"
  /\ IF ~Locking(r)
     THEN Goes(r, "find")
     ELSE IF Admits(r)
     THEN /\ pc' = [pc EXCEPT ![r] = "find"]
          /\ sendBusy' = TRUE /\ last' = [text |-> Text[r], fresh |-> TRUE]
          /\ UNCHANGED <<mode, releasing>>
     ELSE Goes(r, "refused")
  /\ UNCHANGED <<cached, ide, win, cache, queued, disturbed, happened>>

Release ==
  /\ releasing
  /\ sendBusy' = FALSE /\ releasing' = FALSE
  /\ UNCHANGED <<cached, ide, pc, mode, win, cache, last, queued, disturbed, happened>>

------------------------------------------------------------------------------
(* CursorModel: the window of the composer *)

\* findWindowForComposerId: windows of the workspace first, then the others.
FindWindow(c) ==
  LET s == {w \in Opened : shows[w] = c}
  IN  IF s = {} THEN NoWindow ELSE First(IF s \cap Hinted[c] # {} THEN s \cap Hinted[c] ELSE s)

\* A window is found, or the request's window is known: it goes on there.
Proceed(r, w) ==
  /\ win' = [win EXCEPT ![r] = w]
  /\ IF mode[r] = "send"
     THEN Goes(r, "dismiss") /\ UNCHANGED queued
     ELSE EndsAs(r, "queued") /\ queued' = queued \cup {r}

Find(r) ==
  /\ pc[r] = "find"
  /\ IF FindWindow(To[r]) # NoWindow
     THEN Proceed(r, FindWindow(To[r]))
     ELSE Goes(r, "switch") /\ UNCHANGED <<win, queued>>
  /\ UNCHANGED <<cached, ide, cache, disturbed, happened>>

\* switchCache: the outcome of the last switch, good or bad, for five minutes.
Hit(r) == cache[Process(r)].composer = To[r]

UseCache(r) ==
  /\ pc[r] = "switch" /\ Hit(r)
  /\ IF cache[Process(r)].window # NoWindow
     THEN /\ Proceed(r, cache[Process(r)].window)
          /\ UNCHANGED <<cache>>
     ELSE /\ UNCHANGED win
          /\ IF mode[r] = "enqueue" THEN ServerDies
             ELSE Throws(r, FALSE) /\ UNCHANGED <<cache, queued>>
  /\ cached' = cached \cup {r}
  /\ UNCHANGED <<ide, disturbed, happened>>

\* switchComposerVerified: the tab is clicked in every window of the workspace
\* that has it; a click may come to nothing.
Scope(c) == IF Hinted[c] = {} THEN Opened ELSE Hinted[c] \cap Opened

Switch(r) ==
  /\ pc[r] = "switch" /\ ~Hit(r)
  /\ LET c == To[r]
         already == {w \in Scope(c) : shows[w] = c}
     IN  \E clicked \in IF already # {} THEN {{}} ELSE SUBSET {w \in Scope(c) : c \in Tabs[w]} :
           /\ shows' = [w \in Win |-> IF w \in clicked THEN c ELSE shows[w]]
           /\ win' = [win EXCEPT ![r] = IF already # {} THEN First(already)
                                        ELSE IF clicked # {} THEN First(clicked) ELSE NoWindow]
           /\ Disturb(OnTheirWay(clicked) \ {r})
  /\ Goes(r, "assert")
  /\ UNCHANGED <<cached, draft, busy, dialog, chat, cache, queued, happened>>

\* assertSwitchMatches looks at the window again; the outcome is cached.
Matches(w, c) == w # NoWindow /\ shows[w] = c

AssertMatches(r) ==
  LET ok == Matches(win[r], To[r])
      hit == [composer |-> To[r], window |-> IF ok THEN win[r] ELSE NoWindow]
  IN  /\ pc[r] = "assert"
      /\ IF ok
         THEN Proceed(r, win[r]) /\ cache' = [cache EXCEPT ![Process(r)] = hit]
         ELSE /\ UNCHANGED win
              /\ IF mode[r] = "enqueue" THEN ServerDies
                 ELSE /\ Throws(r, FALSE)
                      /\ cache' = [cache EXCEPT ![Process(r)] = hit]
                      /\ UNCHANGED <<queued>>
      /\ UNCHANGED <<cached, ide, disturbed, happened>>

CacheExpires(p) ==
  /\ cache[p] # NoHit
  /\ cache' = [cache EXCEPT ![p] = NoHit]
  /\ UNCHANGED <<cached, ide, pc, mode, win, lock, queued, disturbed, happened>>

\* The 8 s of the duplicate window are over.
Forget ==
  /\ last.fresh
  /\ last' = [last EXCEPT !.fresh = FALSE]
  /\ Event("later")
  /\ UNCHANGED <<cached, ide, pc, mode, win, cache, sendBusy, releasing, queued, disturbed>>

------------------------------------------------------------------------------
(* The dialogs of Cursor: "submit from a previous message?" *)

NoDialog == [kind |-> "none", of |-> NoComposer]

\* The dialogs of ws are answered: a draft held back by one of those kinds is
\* submitted after all.
Answer(ws, submits, closes) ==
  LET held == {c \in Composers : draft[c] # <<>> /\ \E w \in ws : dialog[w] \in [kind : submits, of : {c}]}
  IN  /\ chat' = [c \in Composers |-> IF c \in held THEN Append(chat[c], draft[c]) ELSE chat[c]]
      /\ draft' = [c \in Composers |-> IF c \in held THEN <<>> ELSE draft[c]]
      /\ busy' = [c \in Composers |-> busy[c] \/ c \in held]
      /\ dialog' = [w \in Win |-> IF w \in ws /\ dialog[w].kind \in submits \cup closes
                                  THEN NoDialog ELSE dialog[w]]

\* cdp.dismissModals, in every window.
DismissModals(r) ==
  /\ pc[r] = "dismiss"
  /\ Answer(Win, {"revert", "late", "pretty"}, {"cancel"})
  /\ Goes(r, "pick")
  /\ Disturb((UNION {InInput(dialog[w].of) : w \in Win}) \ {r})
  /\ UNCHANGED <<cached, shows, win, cache, queued, happened>>

------------------------------------------------------------------------------
(* composer-send.ts: liveComposerSend *)

Here(r)  == shows[win[r]]
There(r) == win[r] \in Opened

\* The window by its title, or else the first one that has a composer.
\* Mutant: the first one.
PageFor_First(w) == IF Pages # {} THEN First(Pages) ELSE NoWindow
PageFor(w) == IF w \in Opened THEN w ELSE IF Pages # {} THEN First(Pages) ELSE NoWindow

Pick(r) ==
  LET w == PageFor(win[r])
  IN  /\ pc[r] = "pick"
      /\ IF w = NoWindow
         THEN Throws(r, FALSE) /\ UNCHANGED win
         ELSE /\ win' = [win EXCEPT ![r] = w]
              /\ IF shows[w] \in Composers /\ busy[shows[w]]
                 THEN Throws(r, TRUE) ELSE Goes(r, "page")
      /\ UNCHANGED <<cached, ide, cache, queued, disturbed, happened>>

Ours(d)  == d # <<>> /\ d[1] \in Marked

\* FOCUS_CLEAR_INPUT_JS: what is to be done with the draft in the input.
\* Mutant: whatever is there is cleared.
Focus_Clears(d) == IF d = <<>> THEN "insert" ELSE "clear"
Focus(d) == IF d = <<>> THEN "insert" ELSE IF Ours(d) THEN "clear" ELSE "user typing"

\* A dialog in the page is continued, and the prompt counts as sent; or it is
\* escaped.  Then the agent and the input are looked at.
Page(r) ==
  LET c == Here(r)
      w == win[r]
  IN  /\ There(r) /\ pc[r] = "page"
      /\ Answer({w}, {"revert", "late"}, {"stuck"})
      /\ Disturb(InInput(dialog[w].of) \ {r})
      /\ IF dialog[w].kind \in {"revert", "late"}
         THEN EndsAs(r, "ok")
         ELSE IF c = NoComposer THEN Throws(r, FALSE)
         ELSE IF busy[c] THEN Throws(r, TRUE)
         ELSE IF Focus(draft[c]) = "user typing" THEN Throws(r, FALSE)
         ELSE Goes(r, Focus(draft[c]))
      /\ UNCHANGED <<cached, shows, win, cache, queued, happened>>

\* Select all and delete.
Clear(r) ==
  /\ There(r) /\ pc[r] = "clear"
  /\ draft' = [c \in Composers |-> IF c = Here(r) THEN <<>> ELSE draft[c]]
  /\ Disturb(InInput(Here(r)) \ {r})
  /\ Goes(r, "refocus")
  /\ UNCHANGED <<cached, shows, busy, dialog, chat, win, cache, queued, happened>>

Refocus(r) ==
  LET c == Here(r)
  IN  /\ There(r) /\ pc[r] = "refocus"
      /\ Answer({win[r]}, {"revert", "late"}, {})
      /\ Disturb(InInput(dialog[win[r]].of) \ {r})
      /\ IF c = NoComposer THEN Throws(r, FALSE)
         ELSE IF Focus(draft'[c]) = "insert" THEN Goes(r, "insert")
         ELSE Throws(r, Focus(draft'[c]) = "clear")
      /\ UNCHANGED <<cached, shows, win, cache, queued, happened>>

Insert(r) ==
  /\ There(r) /\ pc[r] = "insert"
  /\ draft' = [c \in Composers |-> IF c = Here(r) THEN Append(draft[c], r) ELSE draft[c]]
  /\ Disturb(InInput(Here(r)) \ {r})
  /\ Goes(r, "submit")
  /\ UNCHANGED <<cached, shows, busy, dialog, chat, win, cache, queued, happened>>

\* SUBMIT_COMPOSER_JS: the draft is sent, or Cursor asks before it does.
Submit(r) ==
  LET c == Here(r)
  IN  /\ There(r) /\ pc[r] = "submit"
      /\ IF c = NoComposer \/ busy[c] \/ draft[c] = <<>> \/ dialog[win[r]] # NoDialog
         THEN /\ Throws(r, TRUE)
              /\ UNCHANGED <<draft, busy, dialog, chat, happened, disturbed>>
         ELSE /\ Goes(r, "confirm")
              /\ Disturb(InInput(c) \ {r})
              /\ \/ /\ chat' = [chat EXCEPT ![c] = Append(@, draft[c])]
                    /\ draft' = [draft EXCEPT ![c] = <<>>]
                    /\ busy' = [busy EXCEPT ![c] = TRUE]
                    /\ UNCHANGED <<dialog, happened>>
                 \/ /\ Event("dialog")
                    /\ \E k \in Dialogs \ {"none"} :
                         dialog' = [dialog EXCEPT ![win[r]] = [kind |-> k, of |-> c]]
                    /\ UNCHANGED <<chat, draft, busy>>
      /\ UNCHANGED <<cached, shows, win, cache, queued>>

\* A quarter of a second later the page is asked for a dialog, once if there
\* is none.
Confirm(r) ==
  LET w == win[r]
  IN  /\ There(r) /\ pc[r] = "confirm"
      /\ Answer({w}, {"revert"}, {"stuck"})
      /\ Disturb(InInput(dialog[w].of) \ {r})
      /\ IF dialog[w].kind = "stuck" THEN Throws(r, TRUE) ELSE EndsAs(r, "ok")
      /\ UNCHANGED <<cached, shows, win, cache, queued, happened>>

------------------------------------------------------------------------------
(* What goes wrong, Cursor and people *)

\* The token is unknown, the loop guard refuses, CDP does not answer in time.
Fails(r) ==
  /\ pc[r] \notin Closing \cup {"new"} /\ Event("fault")
  /\ IF mode[r] = "enqueue" THEN ServerDies
     ELSE Throws(r, FALSE) /\ UNCHANGED <<cache, queued>>
  /\ UNCHANGED <<cached, ide, win, disturbed>>

\* The page of the window is gone: CDP gives up after 15 s.
Stranded(r) ==
  /\ pc[r] \in InPage /\ win[r] \notin Opened
  /\ Throws(r, FALSE)
  /\ UNCHANGED <<cached, ide, win, cache, queued, disturbed, happened>>

TurnEnds(c) ==
  /\ busy[c]
  /\ busy' = [busy EXCEPT ![c] = FALSE]
  /\ UNCHANGED <<cached, shows, draft, dialog, chat, pc, mode, win, cache, lock, queued, disturbed, happened>>

\* A person goes to another tab, or closes the window.
Moves(w) ==
  /\ w \in Opened /\ Event("move")
  /\ \E c \in (Tabs[w] \cup {NoWindow, NoComposer}) \ {shows[w]} : shows' = [shows EXCEPT ![w] = c]
  /\ dialog' = [dialog EXCEPT ![w] = NoDialog]
  /\ Disturb(OnTheirWay({w}))
  /\ UNCHANGED <<cached, draft, busy, chat, pc, mode, win, cache, lock, queued>>

Types(w) ==
  /\ shows[w] \in Composers /\ Event("type")
  /\ draft' = [draft EXCEPT ![shows[w]] = Append(@, Person)]
  /\ Disturb(InInput(shows[w]))
  /\ UNCHANGED <<cached, shows, busy, dialog, chat, pc, mode, win, cache, lock, queued>>

Step(r) == \/ Find(r) \/ UseCache(r) \/ Switch(r) \/ AssertMatches(r) \/ DismissModals(r)
           \/ Pick(r) \/ Page(r) \/ Clear(r) \/ Refocus(r) \/ Insert(r) \/ Submit(r)
           \/ Confirm(r) \/ Stranded(r)

Next == \/ \E r \in Requests : Accept(r) \/ Step(r) \/ Fails(r)
        \/ Release \/ Forget
        \/ \E p \in {"server", "other"} : CacheExpires(p)
        \/ \E c \in Composers : TurnEnds(c)
        \/ \E w \in Win : Moves(w) \/ Types(w)

\* The code's own steps are taken: its awaits end, if only by the timeout of
\* CDP, and timers fire.  Cursor and people owe nothing.
Fairness == /\ \A r \in Requests : WF_vars(Step(r))
            /\ WF_vars(Release)

Spec     == Init /\ [][Next]_vars
FairSpec == Spec /\ Fairness

------------------------------------------------------------------------------
(* Properties *)

Landed(r, c) == {i \in DOMAIN chat[c] : \E j \in DOMAIN chat[c][i] : chat[c][i][j] = r}

\* What is reported as sent is a message of its own in the chat it was meant
\* for, once, and in no other: unless others changed the window or the input
\* meanwhile, Cursor asked about it, or the window came from the cache.
AckedLanded ==
  \A r \in Requests : pc[r] = "ok" /\ r \notin disturbed \cup cached /\ "dialog" \notin happened =>
    /\ \E i \in Landed(r, To[r]) : Landed(r, To[r]) = {i} /\ chat[To[r]][i] = <<r>>
    /\ \A c \in Composers \ {To[r]} : Landed(r, c) = {}

\* One request of the route is at work at a time, through every way it ends.
HttpSerial ==
  \A r, s \in {q \in Requests : Locking(q) /\ pc[q] \notin Closing \cup {"new"}} : r = s

\* The route does not type the same text twice within its window of 8 s, as
\* long as no other text came in between and the server has lived on.
HttpNoTwin ==
  \A r, s \in {q \in Requests : Locking(q) /\ pc[q] \notin {"new", "refused"}} :
    \/ r = s \/ Text[r] # Text[s] \/ "later" \in happened
    \/ \E q \in Requests : pc[q] = "dead"
    \/ \E q \in Requests : Locking(q) /\ pc[q] \notin {"new", "refused"} /\ Text[q] # Text[r]

\* A draft that a person began is not deleted; it may only be sent off along
\* with what was being typed into the same input.
PersonsDraftKept ==
  [][\A c \in Composers :
       draft[c] # <<>> /\ draft[c][1] = Person =>
         \/ draft'[c] # <<>> /\ draft'[c][1] = Person
         \/ chat'[c] = Append(chat[c], draft[c]) /\ (disturbed' # {} \/ "dialog" \in happened)
         \/ \E r \in disturbed : pc[r] = "clear" /\ pc'[r] = "refocus"]_vars

\* Whoever asks to send is answered, and the lock of the route is let go of.
Answered ==
  /\ \A r \in Requests : pc[r] = "find" ~> pc[r] \in Closing
  /\ sendBusy ~> ~sendBusy

\* "no destructive clear": what a person has typed is not deleted.
NoDestructiveClear ==
  [][\A c \in Composers :
       (\E i \in DOMAIN draft[c] : draft[c][i] = Person) /\ draft'[c] = <<>>
         => chat'[c] = Append(chat[c], draft[c])]_vars
==============================================================================
