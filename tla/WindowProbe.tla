----------------------------- MODULE WindowProbe -----------------------------
(***************************************************************************)
(* The three questions the server asks of the IDE's windows, one page after *)
(* the other with an await in between (cdp/active-composer.ts and            *)
(* cdp/composer-agent-probe.ts): which chat is active, whether the agent of  *)
(* a chat works, whether any agent works.  People, and the loop itself, turn *)
(* to other tabs and windows while the pages are looked at.                   *)
(***************************************************************************)
EXTENDS FiniteSetsExt, Naturals

CONSTANTS
  None,
  Pages,     \* the windows in the order of composerPageOrder
  Chats,
  Hints,     \* for each chat the windows named after its workspace
  TitleIn   \* for each window those whose title contains its title, itself among them

Windows == {Pages[i] : i \in DOMAIN Pages}

ChatsAssumption == None \notin Chats
HintsAssumption == Hints \in [Chats -> SUBSET Windows]
TitleInAssumption ==
  TitleIn \in [Windows -> SUBSET Windows] /\ \A w \in Windows : w \in TitleIn[w]

VARIABLES
  tab,     \* the chat each window's composer bar shows, None without a bar
  works,   \* the windows with a stop button
  focus,   \* the window with the focus, or None
  asked,   \* the question under way, or None
  told     \* the answer just given, or None

vars == <<tab, works, focus, asked, told>>

\* A chat belongs to a workspace, which is open in one window.
OnePlace(shown) == \A v, w \in Windows : v # w /\ shown[v] # None => shown[v] # shown[w]

Init ==
  /\ tab \in [Windows -> Chats \cup {None}] /\ OnePlace(tab)
  /\ works = {} /\ focus = None
  /\ asked = None /\ told = None

\* Without a bar the probe finds an agent that is not busy, not a failure.
Busy(w) == tab[w] # None /\ w \in works

\* The pages still to be asked are those of rest.
Question(kind, c) ==
  [kind |-> kind, chat |-> c, rest |-> DOMAIN Pages, window |-> None, answer |-> None, score |-> 0,
   busy |-> FALSE, changed |-> {}, failed |-> {}]

Ask ==
  /\ asked = None
  /\ asked' \in {Question("active", None), Question("any", None)}
                \cup {Question("chat", c) : c \in Chats}
  /\ told' = None
  /\ UNCHANGED <<tab, works, focus>>

Tell(window, answer) ==
  /\ told' = [asked EXCEPT !.window = window, !.answer = answer]
  /\ asked' = None
  /\ UNCHANGED <<tab, works, focus>>

\* composerPageOrder keeps the order of the pages, but for a chat's own go first.
Hinted == {i \in asked.rest : asked.kind = "chat" /\ Pages[i] \in Hints[asked.chat]}
Turn == Min(IF Hinted = {} THEN asked.rest ELSE Hinted)
Page == Pages[Turn]
Onward(q) == /\ asked' = [q EXCEPT !.rest = @ \ {Turn}] /\ told' = None
             /\ UNCHANGED <<tab, works, focus>>

\* What is known of a page: the window's focus, that of its input, and whether
\* the chat's id is that of the bar or of the tab.
Score_Even(hasFocus, inComposer, ofBar) ==
  (IF hasFocus THEN 3 ELSE 0) + (IF inComposer THEN 5 ELSE 0) + (IF ofBar THEN 3 ELSE 2)
Score(hasFocus, inComposer, ofBar) ==
  (IF hasFocus THEN 10 ELSE 0) + (IF inComposer THEN 5 ELSE 0) + (IF ofBar THEN 3 ELSE 2)

\* liveProbeActive: the best of the pages with a bar.
LookActive ==
  /\ asked # None /\ asked.kind = "active" /\ asked.rest # {}
  /\ \E inComposer, ofBar \in BOOLEAN :
       LET s == Score(focus = Page, inComposer, ofBar) IN
       Onward(IF tab[Page] = None \/ s <= asked.score THEN asked
              ELSE [asked EXCEPT !.window = Page, !.answer = tab[Page], !.score = s])

\* probeComposerAgent: runProbe asks all pages, then a busy one decides.
LookAny ==
  /\ asked # None /\ asked.kind = "any" /\ asked.rest # {}
  /\ Onward([asked EXCEPT !.window = Page, !.busy = @ \/ Busy(Page)])

\* Both go on to the next window after a page that cannot be asked.
SkipPage ==
  /\ asked # None /\ asked.kind \in {"active", "any"} /\ asked.rest # {}
  /\ Onward([asked EXCEPT !.failed = @ \cup {Page}])

Decide ==
  /\ asked # None /\ asked.kind \in {"active", "any"} /\ asked.rest = {}
  /\ Tell(asked.window, IF asked.kind = "active" THEN asked.answer
                        ELSE IF asked.busy THEN "busy"
                        ELSE IF asked.window # None THEN "idle" ELSE "unknown")

\* probeComposerAgentForComposer: first the window that shows the chat ...
Find ==
  /\ asked # None /\ asked.kind = "chat" /\ asked.window = None
  /\ IF asked.rest = {} THEN Tell(None, "unknown")
     ELSE IF tab[Page] = asked.chat THEN Onward([asked EXCEPT !.window = Page])
     ELSE Onward(asked)

\* ... then, by its title, a page that has this title in its own: the first that
\* answers, in the order of the IDE's list.
LookThere ==
  /\ asked # None /\ asked.kind = "chat" /\ asked.window # None
  /\ \E w \in TitleIn[asked.window] : Tell(asked.window, IF Busy(w) THEN "busy" ELSE "idle")

\* A page that cannot be asked ends either.
ChatFails ==
  /\ asked # None /\ asked.kind = "chat"
  /\ Tell(None, "unknown")

\* What happened to windows while the question is under way.
Changing(S) ==
  /\ asked' = IF asked = None THEN None ELSE [asked EXCEPT !.changed = @ \cup S]
  /\ told' = None

World ==
  \/ \E w \in Windows, c \in Chats \cup {None} :
       /\ c # tab[w]
       /\ tab' = [tab EXCEPT ![w] = c] /\ OnePlace(tab')
       /\ Changing({w}) /\ UNCHANGED <<works, focus>>
  \/ \E w \in Windows :
       /\ works' = IF w \in works THEN works \ {w} ELSE works \cup {w}
       /\ Changing({w}) /\ UNCHANGED <<tab, focus>>
  \/ \E w \in Windows \cup {None} :
       /\ w # focus /\ focus' = w
       /\ Changing({w, focus} \ {None}) /\ UNCHANGED <<tab, works>>

Next == Ask \/ LookActive \/ LookAny \/ SkipPage \/ Decide \/ Find \/ LookThere \/ ChatFails \/ World

Spec == Init /\ [][Next]_vars

------------------------------------------------------------------------------
Questions ==
  [kind : {"active", "any", "chat"}, chat : Chats \cup {None}, rest : SUBSET DOMAIN Pages,
   window : Windows \cup {None}, answer : Chats \cup {None, "idle", "busy", "unknown"},
   score : 0..18, busy : BOOLEAN, changed : SUBSET Windows, failed : SUBSET Windows]

TypeOK ==
  /\ tab \in [Windows -> Chats \cup {None}] /\ OnePlace(tab)
  /\ works \subseteq Windows /\ focus \in Windows \cup {None}
  /\ asked = None \/ asked \in Questions
  /\ told = None \/ told \in Questions

\* Of a window that did not change while it was asked about, and could be asked.
Steady(w) == w \notin told.changed /\ w \notin told.failed

\* An answer put together from looks at different times is right about every
\* window that stood still meanwhile: the chat in focus is the active one, and no
\* agent that worked all along is called idle - its chat's window being the only
\* one with its title in its own, for the second look goes by title.
AnswersHold ==
  told # None =>
    /\ told.kind = "active" /\ focus # None =>
         (Steady(focus) /\ tab[focus] # None => told.window = focus)
    /\ told.kind = "any" /\ told.answer = "idle" =>
         \A w \in Windows : Steady(w) => ~Busy(w)
    /\ told.kind = "chat" /\ told.answer = "idle" =>
         \A w \in Windows : Steady(w) /\ tab[w] = told.chat /\ TitleIn[w] = {w} => ~Busy(w)
==============================================================================
