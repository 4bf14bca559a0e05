--------------------------- MODULE SendRouteProofs ---------------------------
(***************************************************************************)
(* Proofs about SendRoute for every set of windows, composers, requests and *)
(* texts.                                                                   *)
(***************************************************************************)
EXTENDS SendRoute, TLAPS, SequenceTheorems, WellFoundedInduction

------------------------------------------------------------------------------
(* The inductive invariant *)

\* Between its acceptance and its end.
Working   == {"find", "switch", "assert", "dismiss", "pick"} \cup InPage
UnderWay(r) == pc[r] \in Working
\* Requests the route let in.
LetIn     == {r \in Requests : Locking(r) /\ pc[r] \notin {"new", "refused"}}
AnyDead   == \E q \in Requests : pc[q] = "dead"

\* What of the types no conjunct of TypeOK says.
LastIsRecord == last = [text |-> last.text, fresh |-> last.fresh]

\* Only a request with queueOnBusy becomes an enqueue, and as one it never
\* gets as far as the page.
EnqueueInv ==
  \A r \in Requests : mode[r] = "enqueue" =>
    Way[r] = "onBusy" /\ pc[r] \in {"find", "switch", "assert", "queued", "dead"}

\* A request of the route at work holds the lock, and the timer that lets go
\* of it has not been started; there is one such request.
LockInv ==
  /\ \A r \in Requests : Locking(r) /\ UnderWay(r) => sendBusy /\ ~releasing
  /\ \A r, s \in Requests :
       Locking(r) /\ UnderWay(r) /\ Locking(s) /\ UnderWay(s) => r = s

\* Within the window the text of the last send is still known, and it is the
\* text of a request that was let in.
LastInv ==
  \/ LetIn = {} \/ "later" \in happened \/ AnyDead
  \/ last.fresh /\ \E q \in LetIn : last.text = Text[q]

\* Without the event there is no dialog.
DialogInv == "dialog" \notin happened => \A w \in Win : dialog[w] = NoDialog

InDraft(r, c) == \E j \in DOMAIN draft[c] : draft[c][j] = r
NotInChats(r) == \A c \in Composers : Landed(r, c) = {}
Nowhere(r)    == NotInChats(r) /\ \A c \in Composers : ~InDraft(r, c)
OnItsOwn(r)   == /\ \E i \in Landed(r, To[r]) : Landed(r, To[r]) = {i} /\ chat[To[r]][i] = <<r>>
                 /\ \A c \in Composers \ {To[r]} : Landed(r, c) = {}

\* Before it is typed a prompt is nowhere.
UntypedInv ==
  \A r \in Requests :
    mode[r] = "send" /\ pc[r] \in {"new", "find", "switch", "assert", "dismiss", "pick", "page",
                                   "clear", "refocus", "insert"} => Nowhere(r)

\* An input that nobody touched since the request looked at it is as the
\* request left it.
InputInv ==
  \A r \in Requests \ disturbed :
    pc[r] \in {"clear", "refocus", "insert", "submit"} =>
      /\ win[r] \in Win /\ Here(r) \in Composers
      /\ pc[r] = "clear" => draft[Here(r)] = <<>> \/ draft[Here(r)][1] \in Marked
      /\ pc[r] \in {"refocus", "insert"} => draft[Here(r)] = <<>>
      /\ pc[r] = "submit" => draft[Here(r)] = <<r>>

\* A request that nobody disturbed and that did not trust the cache is in the
\* window that shows its composer; typed, it is in that input alone; sent, it
\* is in that chat alone.
PathInv ==
  "dialog" \notin happened =>
    \A r \in Requests \ (disturbed \cup cached) :
      /\ pc[r] \in {"dismiss", "pick"} \cup InPage => win[r] \in Win /\ Here(r) = To[r]
      /\ pc[r] = "submit" =>
           NotInChats(r) /\ \A c \in Composers : InDraft(r, c) => c = To[r]
      /\ pc[r] \in {"confirm", "ok"} =>
           OnItsOwn(r) /\ \A c \in Composers : ~InDraft(r, c)

------------------------------------------------------------------------------
(* Windows *)

(***************************************************************************)
(* The first of some windows is one of them.                                *)
(***************************************************************************)
LEMMA FirstIsOneOf ==
  ASSUME NEW S, S \subseteq Win, S # {}
  PROVE  First(S) \in S
<1> DEFINE at == {i \in DOMAIN Windows : Windows[i] \in S}
<1>1. at \subseteq Nat /\ at # {}
  <2>1. DOMAIN Windows = 1 .. Len(Windows) /\ Len(Windows) \in Nat
    BY RouteAssumption, LenProperties DEF Win
  <2>2. DOMAIN Windows \subseteq Nat
    BY <2>1
  <2>3. PICK w \in S : w \in Win
    OBVIOUS
  <2>4. \E i \in DOMAIN Windows : Windows[i] = w
    BY <2>3 DEF Win
  <2> QED BY <2>2, <2>4
<1>2. PICK i \in at : \A j \in at : ~ (<<j, i>> \in OpToRel(<, Nat))
  BY <1>1, WFMin, NatLessThanWellFounded
<1>3. \A j \in at : i <= j
  <2> HIDE DEF at
  <2>1. \A j \in at : ~ (j < i)
    BY <1>2, <1>1 DEF OpToRel
  <2> QED BY <1>1, <2>1
<1>4. \E k \in DOMAIN Windows :
        Windows[k] \in S /\ \A j \in DOMAIN Windows : Windows[j] \in S => k <= j
  BY <1>3
<1> QED BY <1>4 DEF First

LEMMA FindWindowFinds ==
  ASSUME NEW c, FindWindow(c) # NoWindow
  PROVE  FindWindow(c) \in Opened /\ shows[FindWindow(c)] = c
<1> DEFINE s == {w \in Opened : shows[w] = c}
<1>1. s # {} /\ s \subseteq Win
  BY DEF FindWindow, Opened
<1>2. CASE s \cap Hinted[c] # {}
  BY <1>1, <1>2, FirstIsOneOf DEF FindWindow
<1>3. CASE s \cap Hinted[c] = {}
  BY <1>1, <1>3, FirstIsOneOf DEF FindWindow
<1> QED BY <1>2, <1>3

LEMMA PageForType ==
  ASSUME NEW w, PageFor(w) # NoWindow
  PROVE  PageFor(w) \in Win
<1>1. Pages \subseteq Win /\ Opened \subseteq Win
  BY DEF Pages, Opened
<1> QED BY <1>1, FirstIsOneOf DEF PageFor

------------------------------------------------------------------------------
(* How a step of a request moves it on *)

\* An agent that runs, or an input in use, makes a send an enqueue.
Requeue(r) ==
  /\ Way[r] = "onBusy" /\ pc' = [pc EXCEPT ![r] = "find"]
  /\ mode' = [mode EXCEPT ![r] = "enqueue"] /\ UNCHANGED lock

\* A request goes on, ends, becomes an enqueue, or the server dies of it.
Advances(r) ==
  \/ EndsAs(r, "queued")
  \/ mode[r] # "enqueue" /\ \E how \in {"ok", "failed"} : EndsAs(r, how)
  \/ \E step \in {"switch", "assert"} : Goes(r, step)
  \/ mode[r] # "enqueue" /\ \E step \in {"dismiss", "pick"} \cup InPage : Goes(r, step)
  \/ mode[r] # "enqueue" /\ Requeue(r)
  \/ mode[r] = "enqueue" /\ ServerDies

LEMMA ThrowsAdvances ==
  ASSUME NEW r, NEW b, Throws(r, b), mode[r] # "enqueue"
  PROVE  Advances(r)
BY DEF Throws, Advances, Requeue

LEMMA StepAdvances ==
  ASSUME TypeOK, EnqueueInv, NEW r \in Requests, Step(r) \/ Fails(r)
  PROVE  UnderWay(r) /\ Advances(r)
<1>0. /\ UnderWay(r) /\ pc[r] \notin {"find", "switch", "assert"} => mode[r] # "enqueue"
      /\ mode[r] # "enqueue" => mode[r] = "send"
  BY DEF EnqueueInv, TypeOK, UnderWay, Working, InPage
<1>1. ASSUME NEW w, Proceed(r, w) PROVE Advances(r)
  BY <1>0, <1>1 DEF Proceed, Advances
<1>2. CASE Find(r)
  BY <1>1, <1>2 DEF Find, UnderWay, Working, Advances
<1>3. CASE UseCache(r)
  <2>1. UnderWay(r)
    BY <1>3 DEF UseCache, UnderWay, Working
  <2> QED BY <1>0, <1>1, <1>3, <2>1, ThrowsAdvances DEF UseCache, Advances
<1>4. CASE Switch(r)
  BY <1>4 DEF Switch, UnderWay, Working, Advances
<1>5. CASE AssertMatches(r)
  <2>1. UnderWay(r)
    BY <1>5 DEF AssertMatches, UnderWay, Working
  <2> QED BY <1>0, <1>1, <1>5, <2>1, ThrowsAdvances DEF AssertMatches, Advances
<1>6. CASE DismissModals(r)
  BY <1>0, <1>6 DEF DismissModals, UnderWay, Working, Advances
<1>7. CASE Pick(r)
  <2>1. UnderWay(r) /\ mode[r] # "enqueue"
    BY <1>0, <1>7 DEF Pick, UnderWay, Working
  <2> QED BY <1>7, <2>1, ThrowsAdvances DEF Pick, Advances, InPage
<1>8. CASE Page(r)
  <2>1. UnderWay(r) /\ mode[r] # "enqueue"
    BY <1>0, <1>8 DEF Page, UnderWay, Working, InPage
  <2>2. Focus(draft[Here(r)]) \in {"insert", "clear", "user typing"}
    BY DEF Focus
  <2> QED BY <1>8, <2>1, <2>2, ThrowsAdvances DEF Page, Advances, InPage
<1>9. CASE Clear(r)
  BY <1>0, <1>9 DEF Clear, UnderWay, Working, Advances, InPage
<1>10. CASE Refocus(r)
  <2>1. UnderWay(r) /\ mode[r] # "enqueue"
    BY <1>0, <1>10 DEF Refocus, UnderWay, Working, InPage
  <2>2. Focus(draft'[Here(r)]) \in {"insert", "clear", "user typing"}
    BY DEF Focus
  <2>3. \/ Throws(r, FALSE) \/ Throws(r, TRUE) \/ Goes(r, "insert")
    BY <1>10, <2>2 DEF Refocus
  <2> QED BY <2>1, <2>3, ThrowsAdvances DEF Advances, InPage
<1>11. CASE Insert(r)
  BY <1>0, <1>11 DEF Insert, UnderWay, Working, Advances, InPage
<1>12. CASE Submit(r)
  <2>1. UnderWay(r) /\ mode[r] # "enqueue"
    BY <1>0, <1>12 DEF Submit, UnderWay, Working, InPage
  <2>2. Throws(r, TRUE) \/ Goes(r, "confirm")
    BY <1>12 DEF Submit
  <2> QED BY <2>1, <2>2, ThrowsAdvances DEF Advances, InPage
<1>13. CASE Confirm(r)
  <2>1. UnderWay(r) /\ mode[r] # "enqueue"
    BY <1>0, <1>13 DEF Confirm, UnderWay, Working, InPage
  <2> QED BY <1>13, <2>1, ThrowsAdvances DEF Confirm, Advances
<1>14. CASE Stranded(r)
  <2>1. UnderWay(r) /\ mode[r] # "enqueue"
    BY <1>0, <1>14 DEF Stranded, UnderWay, Working, InPage
  <2> QED BY <1>14, <2>1, ThrowsAdvances DEF Stranded
<1>15. CASE Fails(r)
  <2>1. UnderWay(r)
    BY <1>15 DEF Fails, UnderWay, Working, InPage, Closing, TypeOK
  <2> QED BY <1>15, <2>1, ThrowsAdvances DEF Fails, Advances
<1> QED BY <1>2, <1>3, <1>4, <1>5, <1>6, <1>7, <1>8, <1>9, <1>10, <1>11, <1>12, <1>13,
           <1>14, <1>15 DEF Step
------------------------------------------------------------------------------
(* The lock of the route and the enqueues *)

ControlInv == TypeOK /\ LastIsRecord /\ EnqueueInv /\ LockInv /\ LastInv

ControlType ==
  /\ pc' \in [Requests -> Closing \cup {"new"} \cup Working]
  /\ mode' \in [Requests -> {"send", "enqueue"}]
  /\ {sendBusy, releasing, last.fresh}' \subseteq BOOLEAN
  /\ (releasing => sendBusy)'

LEMMA AdvanceKeepsControl ==
  ASSUME ControlInv, NEW r \in Requests, UnderWay(r), Advances(r), happened \subseteq happened'
  PROVE  ControlType /\ LastIsRecord' /\ EnqueueInv' /\ LockInv' /\ LastInv'
<1> USE DEF ControlInv, ControlType, UnderWay, Working, InPage, Closing
<1>1. CASE \E how \in {"queued", "ok", "failed"} :
             EndsAs(r, how) /\ (how = "queued" \/ mode[r] # "enqueue")
  <2>1. PICK how \in {"queued", "ok", "failed"} :
          EndsAs(r, how) /\ (how = "queued" \/ mode[r] # "enqueue")
    BY <1>1
  <2>2. ControlType /\ LastIsRecord'
    BY <2>1 DEF TypeOK, EndsAs, LetGo, LastIsRecord, LockInv
  <2>3. EnqueueInv'
    BY <2>1 DEF TypeOK, EndsAs, EnqueueInv
  <2>4. LockInv'
    BY <2>1 DEF TypeOK, EndsAs, LetGo, LockInv
  <2>5. LastInv'
    <3>1. LetIn' = LetIn
      BY <2>1 DEF TypeOK, EndsAs, LetIn
    <3>2. AnyDead => AnyDead'
      BY <2>1 DEF TypeOK, EndsAs, AnyDead
    <3> QED BY <2>1, <3>1, <3>2 DEF EndsAs, LastInv
  <2> QED BY <2>2, <2>3, <2>4, <2>5
<1>2. CASE \E step \in Working : Goes(r, step) /\ (step \in {"switch", "assert"} \/ mode[r] # "enqueue")
  <2>1. PICK step \in Working : Goes(r, step) /\ (step \in {"switch", "assert"} \/ mode[r] # "enqueue")
    BY <1>2
  <2>2. ControlType /\ LastIsRecord'
    BY <2>1 DEF TypeOK, Goes, lock, LastIsRecord, LockInv
  <2>3. EnqueueInv'
    BY <2>1 DEF TypeOK, Goes, EnqueueInv
  <2>4. LockInv'
    BY <2>1 DEF TypeOK, Goes, lock, LockInv
  <2>5. LastInv'
    BY <2>1 DEF TypeOK, Goes, lock, LastInv, LetIn, AnyDead
  <2> QED BY <2>2, <2>3, <2>4, <2>5
<1>3. CASE mode[r] # "enqueue" /\ Requeue(r)
  <2>2. ControlType /\ LastIsRecord'
    BY <1>3 DEF TypeOK, Requeue, lock, LastIsRecord, LockInv
  <2>3. EnqueueInv'
    BY <1>3 DEF TypeOK, Requeue, EnqueueInv
  <2>4. LockInv'
    BY <1>3 DEF TypeOK, Requeue, lock, LockInv
  <2>5. LastInv'
    BY <1>3 DEF TypeOK, Requeue, lock, LastInv, LetIn, AnyDead
  <2> QED BY <2>2, <2>3, <2>4, <2>5
<1>4. CASE mode[r] = "enqueue" /\ ServerDies
  <2>2. ControlType /\ LastIsRecord'
    BY <1>4 DEF TypeOK, ServerDies, LastIsRecord
  <2>3. EnqueueInv'
    BY <1>4 DEF TypeOK, ServerDies, EnqueueInv
  <2>4. LockInv'
    BY <1>4 DEF TypeOK, ServerDies, LockInv, Locking, Process
  <2>5. AnyDead'
    BY <1>4 DEF TypeOK, ServerDies, AnyDead, EnqueueInv, Process
  <2> QED BY <2>2, <2>3, <2>4, <2>5 DEF LastInv
<1> QED BY <1>1, <1>2, <1>3, <1>4 DEF Advances

LEMMA AcceptKeepsControl ==
  ASSUME ControlInv, NEW r \in Requests, Accept(r)
  PROVE  ControlType /\ LastIsRecord' /\ EnqueueInv' /\ LockInv' /\ LastInv'
<1> USE DEF ControlInv, ControlType, UnderWay, Working, InPage, Closing
<1>0. pc[r] = "new" /\ mode[r] # "enqueue" /\ UNCHANGED <<mode, happened>>
  BY DEF Accept, Goes, EnqueueInv
<1>1. CASE ~Locking(r)
  <2>1. pc' = [pc EXCEPT ![r] = "find"] /\ UNCHANGED lock
    BY <1>1 DEF Accept, Goes
  <2>2. ControlType /\ LastIsRecord' /\ EnqueueInv'
    BY <1>0, <2>1 DEF TypeOK, lock, LastIsRecord, EnqueueInv
  <2>3. LockInv'
    BY <1>0, <1>1, <2>1 DEF TypeOK, lock, LockInv
  <2>4. LetIn' = LetIn /\ (AnyDead => AnyDead')
    BY <1>0, <1>1, <2>1 DEF TypeOK, LetIn, AnyDead
  <2> QED BY <1>0, <2>1, <2>2, <2>3, <2>4 DEF lock, LastInv
<1>2. CASE Locking(r) /\ Admits(r)
  <2>1. /\ pc' = [pc EXCEPT ![r] = "find"] /\ sendBusy' = TRUE /\ releasing' = releasing
        /\ last' = [text |-> Text[r], fresh |-> TRUE]
    BY <1>2 DEF Accept
  <2>2. ControlType /\ LastIsRecord' /\ EnqueueInv'
    BY <1>0, <2>1 DEF TypeOK, LastIsRecord, EnqueueInv
  <2>3. LockInv'
    BY <1>0, <1>2, <2>1 DEF TypeOK, LockInv, Admits
  <2>4. r \in LetIn'
    BY <1>2, <2>1 DEF TypeOK, LetIn, Locking
  <2> QED BY <2>1, <2>2, <2>3, <2>4 DEF LastInv
<1>3. CASE Locking(r) /\ ~Admits(r)
  <2>1. pc' = [pc EXCEPT ![r] = "refused"] /\ UNCHANGED lock
    BY <1>3 DEF Accept, Goes
  <2>2. ControlType /\ LastIsRecord' /\ EnqueueInv'
    BY <1>0, <2>1 DEF TypeOK, lock, LastIsRecord, EnqueueInv
  <2>3. LockInv'
    BY <1>0, <2>1 DEF TypeOK, lock, LockInv
  <2>4. LetIn' = LetIn /\ (AnyDead => AnyDead')
    BY <1>0, <2>1 DEF TypeOK, LetIn, AnyDead
  <2> QED BY <1>0, <2>1, <2>2, <2>3, <2>4 DEF lock, LastInv
<1> QED BY <1>1, <1>2, <1>3

\* The steps in which no request moves on.
Around == \/ Release \/ Forget
          \/ \E p \in {"server", "other"} : CacheExpires(p)
          \/ \E c \in Composers : TurnEnds(c)
          \/ \E w \in Win : Moves(w) \/ Types(w)

LEMMA AroundKeepsControl ==
  ASSUME ControlInv, Around
  PROVE  ControlType /\ LastIsRecord' /\ EnqueueInv' /\ LockInv' /\ LastInv'
<1> USE DEF ControlInv, ControlType, UnderWay, Working, InPage, Closing
<1>1. /\ UNCHANGED <<pc, mode>> /\ happened \subseteq happened'
      /\ \/ UNCHANGED lock
         \/ Release
         \/ Forget /\ "later" \in happened'
  BY DEF Around, Release, Forget, CacheExpires, TurnEnds, Moves, Types, Event, lock
<1>2. LetIn' = LetIn /\ AnyDead' = AnyDead
  BY <1>1 DEF LetIn, AnyDead
<1>3. EnqueueInv'
  BY <1>1 DEF EnqueueInv
<1>4. CASE UNCHANGED lock
  BY <1>1, <1>2, <1>3, <1>4 DEF TypeOK, lock, LastIsRecord, LockInv, LastInv
<1>5. CASE Release
  <2>1. ControlType /\ LastIsRecord'
    BY ZenonT(60), <1>1, <1>5 DEF Release, TypeOK, LastIsRecord
  <2>2. LockInv'
    BY <1>1, <1>5 DEF Release, LockInv
  <2>3. LastInv'
    BY <1>1, <1>2, <1>5 DEF Release, LastInv
  <2> QED BY <1>3, <2>1, <2>2, <2>3
<1>6. CASE Forget /\ "later" \in happened'
  <2>0. last' = [text |-> last.text, fresh |-> FALSE]
    BY <1>6 DEF Forget, LastIsRecord
  <2>1. LastIsRecord' /\ last'.fresh \in BOOLEAN
    BY <2>0 DEF LastIsRecord
  <2>2. ControlType
    BY <1>1, <1>6, <2>1 DEF Forget, TypeOK
  <2>3. LockInv'
    BY <1>1, <1>6 DEF Forget, LockInv
  <2> QED BY <1>3, <1>6, <2>1, <2>2, <2>3 DEF LastInv
<1> QED BY <1>1, <1>4, <1>5, <1>6

LEMMA Happenings ==
  ASSUME Next
  PROVE  /\ happened \subseteq happened' /\ disturbed \subseteq disturbed'
         /\ cached \subseteq cached'
<1> USE DEF Event, Disturb
<1>1. ASSUME NEW r \in Requests, Step(r)
      PROVE  happened \subseteq happened' /\ disturbed \subseteq disturbed' /\ cached \subseteq cached'
  BY <1>1 DEF Step, Find, UseCache, Switch, AssertMatches, DismissModals, Pick, Page, Clear,
              Refocus, Insert, Submit, Confirm, Stranded
<1> QED BY <1>1 DEF Next, Accept, Fails, Release, Forget, CacheExpires, TurnEnds, Moves, Types

LEMMA NextKeepsControl ==
  ASSUME ControlInv, Next
  PROVE  ControlType /\ LastIsRecord' /\ EnqueueInv' /\ LockInv' /\ LastInv'
<1>1. ASSUME NEW r \in Requests, Step(r) \/ Fails(r)
      PROVE  ControlType /\ LastIsRecord' /\ EnqueueInv' /\ LockInv' /\ LastInv'
  <2>1. UnderWay(r) /\ Advances(r)
    BY <1>1, StepAdvances DEF ControlInv
  <2> QED BY <2>1, AdvanceKeepsControl, Happenings
<1> QED BY <1>1, AcceptKeepsControl, AroundKeepsControl DEF Next, Around

------------------------------------------------------------------------------
(* Types of the windows, the inputs and the chats *)

IdeType ==
  /\ shows \in [Win -> Composers \cup {NoComposer, NoWindow}]
  /\ draft \in [Composers -> Seq(Pieces)]
  /\ busy \in [Composers -> BOOLEAN]
  /\ dialog \in [Win -> [kind : Dialogs, of : Composers \cup {NoComposer}]]
  /\ chat \in [Composers -> Seq(Seq(Pieces))]

\* A window, once it is needed, is known.
WinType ==
  /\ win \in [Requests -> Win \cup {NoWindow}]
  /\ \A r \in Requests :
       pc[r] \in {"dismiss", "page", "clear", "insert", "submit"} => win[r] # NoWindow

CacheType ==
  cache \in [{"server", "other"} -> [composer : Composers \cup {NoComposer},
                                     window : Win \cup {NoWindow}]]

LEMMA AppendedDrafts ==
  ASSUME IdeType, NEW c \in Composers, NEW x \in Pieces
  PROVE  /\ Append(draft[c], x) \in Seq(Pieces)
         /\ Append(chat[c], draft[c]) \in Seq(Seq(Pieces))
         /\ <<>> \in Seq(Pieces)
BY AppendProperties DEF IdeType

LEMMA AnswerType ==
  ASSUME IdeType, NEW ws, NEW S, NEW C, Answer(ws, S, C), UNCHANGED shows
  PROVE  IdeType'
<1> DEFINE held == {c \in Composers : draft[c] # <<>> /\ \E w \in ws : dialog[w] \in [kind : S, of : {c}]}
<1>1. /\ chat' = [c \in Composers |-> IF c \in held THEN Append(chat[c], draft[c]) ELSE chat[c]]
      /\ draft' = [c \in Composers |-> IF c \in held THEN <<>> ELSE draft[c]]
      /\ busy' = [c \in Composers |-> busy[c] \/ c \in held]
      /\ dialog' = [w \in Win |-> IF w \in ws /\ dialog[w].kind \in S \cup C
                                  THEN NoDialog ELSE dialog[w]]
  BY DEF Answer
<1> HIDE DEF held
<1>2. draft' \in [Composers -> Seq(Pieces)]
  BY <1>1 DEF IdeType
<1>3. chat' \in [Composers -> Seq(Seq(Pieces))]
  <2>1. \A c \in Composers : Append(chat[c], draft[c]) \in Seq(Seq(Pieces))
    BY AppendProperties DEF IdeType
  <2> QED BY <1>1, <2>1 DEF IdeType
<1>4. busy' \in [Composers -> BOOLEAN]
  BY <1>1 DEF IdeType
<1>5. dialog' \in [Win -> [kind : Dialogs, of : Composers \cup {NoComposer}]]
  <2>1. NoDialog \in [kind : Dialogs, of : Composers \cup {NoComposer}]
    BY DEF NoDialog, Dialogs
  <2> QED BY <1>1, <2>1 DEF IdeType
<1> QED BY <1>2, <1>3, <1>4, <1>5 DEF IdeType

LEMMA StepKeepsIdeType ==
  ASSUME TypeOK, NEW r \in Requests, Step(r)
  PROVE  IdeType'
<1>1. IdeType /\ r \in Pieces
  BY DEF TypeOK, IdeType, Pieces
<1>2. CASE UNCHANGED ide
  BY <1>1, <1>2 DEF ide, IdeType
<1>3. CASE Switch(r)
  <2>1. PICK clicked : shows' = [w \in Win |-> IF w \in clicked THEN To[r] ELSE shows[w]]
    BY <1>3 DEF Switch
  <2>2. To[r] \in Composers /\ UNCHANGED <<draft, busy, dialog, chat>>
    BY <1>3, RouteAssumption DEF Switch
  <2> QED BY <1>1, <2>1, <2>2 DEF IdeType
<1>4. CASE DismissModals(r) \/ Page(r) \/ Refocus(r) \/ Confirm(r)
  BY <1>1, <1>4, AnswerType DEF DismissModals, Page, Refocus, Confirm
<1>5. CASE Clear(r)
  BY <1>1, <1>5, EmptySeq DEF Clear, IdeType
<1>6. CASE Insert(r)
  <2>1. \A c \in Composers : Append(draft[c], r) \in Seq(Pieces)
    BY <1>1, AppendProperties DEF IdeType
  <2> QED BY <1>1, <1>6, <2>1 DEF Insert, IdeType
<1>7. CASE Submit(r)
  <2>1. CASE UNCHANGED <<draft, busy, dialog, chat>>
    BY <1>1, <1>7, <2>1 DEF Submit, IdeType
  <2> DEFINE c == Here(r)
  <2>2. CASE /\ chat' = [chat EXCEPT ![c] = Append(@, draft[c])]
             /\ draft' = [draft EXCEPT ![c] = <<>>]
             /\ busy' = [busy EXCEPT ![c] = TRUE]
             /\ UNCHANGED <<dialog, shows>>
    <3>1. c \in Composers => Append(chat[c], draft[c]) \in Seq(Seq(Pieces)) /\ <<>> \in Seq(Pieces)
      BY <1>1, AppendedDrafts
    <3> QED BY <1>1, <2>2, <3>1 DEF IdeType
  <2>3. CASE c # NoComposer /\ UNCHANGED <<shows, chat, draft, busy>>
             /\ \E k \in Dialogs \ {"none"} :
                  dialog' = [dialog EXCEPT ![win[r]] = [kind |-> k, of |-> c]]
    <3>1. c \in Composers
      BY <1>7, <2>3 DEF Submit, There, Opened, Here, TypeOK
    <3>2. PICK k \in Dialogs : dialog' = [dialog EXCEPT ![win[r]] = [kind |-> k, of |-> c]]
      BY <2>3
    <3>3. [kind |-> k, of |-> c] \in [kind : Dialogs, of : Composers \cup {NoComposer}]
      BY <3>1
    <3> QED BY <1>1, <2>3, <3>2, <3>3 DEF IdeType
  <2> QED BY <1>7, <2>1, <2>2, <2>3 DEF Submit
<1> QED BY <1>2, <1>3, <1>4, <1>5, <1>6, <1>7
        DEF Step, Find, UseCache, AssertMatches, Pick, Stranded

LEMMA NextKeepsIdeType == ASSUME TypeOK, Next PROVE IdeType'
<1>1. IdeType
  BY DEF TypeOK, IdeType
<1>2. CASE \E r \in Requests : Step(r)
  BY <1>2, StepKeepsIdeType
<1>3. CASE UNCHANGED ide
  BY <1>1, <1>3 DEF ide, IdeType
<1>4. ASSUME NEW c \in Composers, TurnEnds(c) PROVE IdeType'
  BY <1>1, <1>4 DEF TurnEnds, IdeType
<1>5. ASSUME NEW w \in Win, Moves(w) PROVE IdeType'
  <2>1. UNCHANGED <<draft, busy, chat>> /\ dialog' = [dialog EXCEPT ![w] = NoDialog]
    BY <1>5 DEF Moves
  <2>2. PICK c \in Tabs[w] \cup {NoWindow, NoComposer} : shows' = [shows EXCEPT ![w] = c]
    BY <1>5 DEF Moves
  <2>3. NoDialog \in [kind : Dialogs, of : Composers \cup {NoComposer}]
    BY DEF NoDialog, Dialogs
  <2>4. c \in Composers \cup {NoWindow, NoComposer}
    BY <2>2, RouteAssumption
  <2> QED BY <1>1, <2>1, <2>2, <2>3, <2>4 DEF IdeType
<1>6. ASSUME NEW w \in Win, Types(w) PROVE IdeType'
  <2>1. shows[w] \in Composers /\ Person \in Pieces
    BY <1>6 DEF Types, Pieces
  <2>2. Append(draft[shows[w]], Person) \in Seq(Pieces)
    BY <1>1, <2>1, AppendedDrafts
  <2> QED BY <1>1, <1>6, <2>1, <2>2 DEF Types, IdeType
<1> QED BY <1>2, <1>3, <1>4, <1>5, <1>6
        DEF Next, Accept, Fails, Release, Forget, CacheExpires

\* What a step does to the windows of the requests and to the caches.
LEMMA ProceedTypes ==
  ASSUME TypeOK, NEW r \in Requests, NEW w \in Win, Proceed(r, w)
  PROVE  WinType'
<1> USE RouteAssumption
<1>1. win' \in [Requests -> Win \cup {NoWindow}] /\ win'[r] = w
      /\ \A q \in Requests \ {r} : win'[q] = win[q]
  BY DEF Proceed, TypeOK
<1>2. \E how \in {"dismiss", "queued"} : pc' = [pc EXCEPT ![r] = how]
  BY DEF Proceed, Goes, EndsAs
<1> QED BY <1>1, <1>2 DEF TypeOK, WinType

LEMMA ThrowsTypes ==
  ASSUME TypeOK, NEW r \in Requests, NEW b, Throws(r, b), UNCHANGED win
  PROVE  WinType'
<1>1. \E how \in {"find", "failed"} : pc' = [pc EXCEPT ![r] = how]
  BY DEF Throws, EndsAs
<1> QED BY <1>1 DEF TypeOK, WinType

LEMMA DiesTypes ==
  ASSUME TypeOK, ServerDies
  PROVE  (UNCHANGED win => WinType') /\ CacheType'
<1>1. \A q \in Requests : pc'[q] = pc[q] \/ pc'[q] = "dead"
  BY DEF ServerDies
<1>2. NoHit \in [composer : Composers \cup {NoComposer}, window : Win \cup {NoWindow}]
  BY DEF NoHit
<1> QED BY <1>1, <1>2 DEF ServerDies, TypeOK, WinType, CacheType

LEMMA GoesTypes ==
  ASSUME TypeOK, NEW r \in Requests, NEW how, pc' = [pc EXCEPT ![r] = how],
         UNCHANGED win,
         how \in {"dismiss", "page", "clear", "insert", "submit"} => win[r] # NoWindow
  PROVE  WinType'
BY DEF TypeOK, WinType

LEMMA StepKeepsWinType ==
  ASSUME TypeOK, NEW r \in Requests, Step(r)
  PROVE  WinType'
<1> USE RouteAssumption
<1>1. CASE Find(r)
  <2>1. CASE FindWindow(To[r]) # NoWindow
    BY <1>1, <2>1, FindWindowFinds, ProceedTypes DEF Find, Opened
  <2>2. CASE FindWindow(To[r]) = NoWindow
    BY <1>1, <2>2, GoesTypes DEF Find, Goes
  <2> QED BY <2>1, <2>2
<1>2. CASE UseCache(r)
  <2>1. cache[Process(r)].window \in Win \cup {NoWindow}
    BY DEF TypeOK, Process
  <2> QED BY <1>2, <2>1, ProceedTypes, ThrowsTypes, DiesTypes DEF UseCache
<1>3. CASE Switch(r)
  <2> DEFINE c == To[r]
             already == {w \in Scope(c) : shows[w] = c}
  <2>1. Scope(c) \subseteq Win
    BY DEF Scope, Opened
  <2>2. PICK clicked \in SUBSET Scope(c) :
          win' = [win EXCEPT ![r] = IF already # {} THEN First(already)
                                    ELSE IF clicked # {} THEN First(clicked) ELSE NoWindow]
    BY <1>3 DEF Switch
  <2>3. already # {} => First(already) \in Win
    BY <2>1, FirstIsOneOf
  <2>4. clicked # {} => First(clicked) \in Win
    BY <2>1, FirstIsOneOf
  <2>5. \E w \in Win \cup {NoWindow} : win' = [win EXCEPT ![r] = w]
    BY <2>2, <2>3, <2>4
  <2>6. pc' = [pc EXCEPT ![r] = "assert"]
    BY <1>3 DEF Switch, Goes
  <2> QED BY <2>5, <2>6 DEF TypeOK, WinType
<1>4. CASE AssertMatches(r)
  <2>1. Matches(win[r], To[r]) => win[r] \in Win
    BY DEF Matches, TypeOK
  <2> QED BY <1>4, <2>1, ProceedTypes, ThrowsTypes, DiesTypes DEF AssertMatches
<1>5. CASE DismissModals(r)
  BY <1>5, GoesTypes DEF DismissModals, Goes
<1>6. CASE Pick(r)
  <2>1. CASE PageFor(win[r]) = NoWindow
    BY <1>6, <2>1, ThrowsTypes DEF Pick
  <2>2. CASE PageFor(win[r]) # NoWindow
    <3>1. win' = [win EXCEPT ![r] = PageFor(win[r])] /\ PageFor(win[r]) \in Win
      BY <1>6, <2>2, PageForType DEF Pick
    <3>2. \E how \in {"find", "failed", "page"} : pc' = [pc EXCEPT ![r] = how]
      BY <1>6, <2>2 DEF Pick, Throws, EndsAs, Goes
    <3> QED BY <3>1, <3>2 DEF TypeOK, WinType
  <2> QED BY <2>1, <2>2
<1>7. CASE Page(r)
  <2>1. win[r] # NoWindow /\ UNCHANGED win
    BY <1>7 DEF Page, There, Opened
  <2>2. \E b : Throws(r, b) \/ pc' = [pc EXCEPT ![r] = "ok"] \/ pc' = [pc EXCEPT ![r] = Focus(draft[Here(r)])]
    BY <1>7 DEF Page, EndsAs, Goes
  <2> QED BY <2>1, <2>2, ThrowsTypes, GoesTypes
<1>8. CASE Clear(r) \/ Insert(r)
  BY <1>8, GoesTypes DEF Clear, Insert, Goes, There, Opened
<1>9. CASE Refocus(r)
  <2>1. win[r] # NoWindow /\ UNCHANGED win
    BY <1>9 DEF Refocus, There, Opened
  <2>2. \E b : Throws(r, b) \/ pc' = [pc EXCEPT ![r] = "insert"]
    BY <1>9 DEF Refocus, Goes
  <2> QED BY <2>1, <2>2, ThrowsTypes, GoesTypes
<1>10. CASE Submit(r)
  BY <1>10, ThrowsTypes, GoesTypes DEF Submit, Goes
<1>11. CASE Confirm(r)
  BY <1>11, ThrowsTypes, GoesTypes DEF Confirm, EndsAs
<1>12. CASE Stranded(r)
  BY <1>12, ThrowsTypes DEF Stranded
<1> QED BY <1>1, <1>2, <1>3, <1>4, <1>5, <1>6, <1>7, <1>8, <1>9, <1>10, <1>11, <1>12 DEF Step

LEMMA NextKeepsWinType == ASSUME TypeOK, Next PROVE WinType'
<1>1. WinType
  BY DEF TypeOK, WinType
<1>2. ASSUME NEW r \in Requests, Accept(r) PROVE WinType'
  <2>1. \E how \in {"find", "refused"} : pc' = [pc EXCEPT ![r] = how]
    BY <1>2 DEF Accept, Goes
  <2> QED BY <1>2, <2>1, GoesTypes DEF Accept
<1>3. ASSUME NEW r \in Requests, Fails(r) PROVE WinType'
  BY <1>3, ThrowsTypes, DiesTypes DEF Fails
<1>4. CASE Around
  BY <1>1, <1>4 DEF Around, Release, Forget, CacheExpires, TurnEnds, Moves, Types, WinType
<1> QED BY <1>2, <1>3, <1>4, StepKeepsWinType DEF Next, Around

LEMMA NextKeepsCacheType == ASSUME TypeOK, Next PROVE CacheType'
<1>1. CacheType
  BY DEF TypeOK, CacheType
<1>2. ASSUME NEW r \in Requests, Step(r) \/ Accept(r) \/ Fails(r) PROVE CacheType'
  <2>1. CASE UNCHANGED cache
    BY <1>1, <2>1 DEF CacheType
  <2>2. CASE AssertMatches(r)
    <3>1. CASE ServerDies
      BY <3>1, DiesTypes
    <3>2. CASE \E w \in {win[r], NoWindow} :
                 cache' = [cache EXCEPT ![Process(r)] = [composer |-> To[r], window |-> w]]
      <4>1. PICK w \in {win[r], NoWindow} :
              cache' = [cache EXCEPT ![Process(r)] = [composer |-> To[r], window |-> w]]
        BY <3>2
      <4>2. To[r] \in Composers /\ w \in Win \cup {NoWindow}
        BY RouteAssumption DEF TypeOK
      <4>3. [composer |-> To[r], window |-> w]
              \in [composer : Composers \cup {NoComposer}, window : Win \cup {NoWindow}]
        BY <4>2
      <4> QED BY <1>1, <4>1, <4>3 DEF CacheType
    <3> QED BY <2>2, <3>1, <3>2 DEF AssertMatches
  <2>3. CASE ServerDies
    BY <2>3, DiesTypes
  <2> QED BY <1>2, <2>1, <2>2, <2>3
          DEF Step, Find, UseCache, Switch, DismissModals, Pick, Page, Clear, Refocus, Insert,
              Submit, Confirm, Stranded, Accept, Fails
<1>3. ASSUME NEW p \in {"server", "other"}, CacheExpires(p) PROVE CacheType'
  <2>1. NoHit \in [composer : Composers \cup {NoComposer}, window : Win \cup {NoWindow}]
    BY DEF NoHit
  <2> QED BY <1>1, <1>3, <2>1 DEF CacheExpires, CacheType
<1>4. CASE UNCHANGED cache
  BY <1>1, <1>4 DEF CacheType
<1> QED BY <1>2, <1>3, <1>4 DEF Next, Release, Forget, TurnEnds, Moves, Types

\* A step of a request disturbs requests on their way or in an input, never
\* itself.
LEMMA StepDisturbs ==
  ASSUME NEW r \in Requests, Step(r)
  PROVE  \E D \in SUBSET (Requests \ {r}) : disturbed' = disturbed \cup D
<1>1. \A x : OnTheirWay(x) \subseteq Requests /\ InInput(x) \subseteq Requests
  BY DEF OnTheirWay, InInput
<1>2. CASE UNCHANGED disturbed
  <2>1. {} \in SUBSET (Requests \ {r}) /\ disturbed' = disturbed \cup {}
    BY <1>2
  <2> QED BY <2>1
<1>3. CASE \E ws : Disturb(OnTheirWay(ws) \ {r})
  <2>1. PICK ws : Disturb(OnTheirWay(ws) \ {r})
    BY <1>3
  <2>2. OnTheirWay(ws) \ {r} \in SUBSET (Requests \ {r})
    BY <1>1
  <2> QED BY <2>1, <2>2 DEF Disturb
<1>4. CASE DismissModals(r)
  <2> DEFINE U == UNION {InInput(dialog[w].of) : w \in Win}
  <2>1. ASSUME NEW q \in U PROVE q \in Requests
    <3>1. PICK w \in Win : q \in InInput(dialog[w].of)
      OBVIOUS
    <3> QED BY <1>1, <3>1
  <2>2. disturbed' = disturbed \cup (U \ {r})
    BY <1>4 DEF DismissModals, Disturb
  <2> HIDE DEF U
  <2>3. U \ {r} \in SUBSET (Requests \ {r})
    BY <2>1
  <2> QED BY <2>2, <2>3
<1>5. CASE \E c : Disturb(InInput(c) \ {r})
  <2>1. PICK c : Disturb(InInput(c) \ {r})
    BY <1>5
  <2>2. InInput(c) \ {r} \in SUBSET (Requests \ {r})
    BY <1>1
  <2> QED BY <2>1, <2>2 DEF Disturb
<1> QED BY <1>2, <1>3, <1>4, <1>5
        DEF Step, Find, UseCache, Switch, AssertMatches, Pick, Page, Clear, Refocus, Insert,
            Submit, Confirm, Stranded

LEMMA NextKeepsSets ==
  ASSUME TypeOK, Next
  PROVE  (queued \subseteq Requests /\ disturbed \subseteq Requests /\ cached \subseteq Requests
          /\ happened \subseteq Events)'
<1> USE DEF OnTheirWay, InInput, Disturb, Event, ServerDies, Proceed
<1>1. ASSUME NEW r \in Requests, Step(r)
      PROVE  (queued \subseteq Requests /\ disturbed \subseteq Requests /\ cached \subseteq Requests
              /\ happened \subseteq Events)'
  <2>1. (queued \subseteq Requests)'
    BY ZenonT(60), <1>1
       DEF TypeOK, Step, Find, UseCache, Switch, AssertMatches, DismissModals, Pick, Page, Clear,
           Refocus, Insert, Submit, Confirm, Stranded
  <2>2. (disturbed \subseteq Requests)'
    BY <1>1, StepDisturbs DEF TypeOK
  <2>3. (cached \subseteq Requests /\ happened \subseteq Events)'
    BY <1>1 DEF TypeOK, Step, Find, UseCache, Switch, AssertMatches, DismissModals, Pick, Page, Clear, Refocus,
                Insert, Submit, Confirm, Stranded
  <2> QED BY <2>1, <2>2, <2>3
<1>2. ASSUME NEW r \in Requests, Fails(r) \/ Accept(r)
      PROVE  (queued \subseteq Requests /\ disturbed \subseteq Requests /\ cached \subseteq Requests
              /\ happened \subseteq Events)'
  BY <1>2 DEF Fails, Accept, TypeOK
<1>3. CASE Around
  BY <1>3 DEF TypeOK, Around, Release, Forget, CacheExpires, TurnEnds, Moves, Types
<1> QED BY <1>1, <1>2, <1>3 DEF Next, Around

LEMMA InitControl == Init => ControlInv
<1> SUFFICES ASSUME Init PROVE ControlInv
  OBVIOUS
<1>1. TypeOK
  <2>1. \A w \in Win : shows[w] \in Composers
    BY RouteAssumption DEF Init
  <2>2. /\ draft \in [Composers -> Seq(Pieces)] /\ chat \in [Composers -> Seq(Seq(Pieces))]
        /\ dialog \in [Win -> [kind : Dialogs, of : Composers \cup {NoComposer}]]
    BY EmptySeq DEF Init, Dialogs
  <2>3. cache \in [{"server", "other"} -> [composer : Composers \cup {NoComposer},
                                           window : Win \cup {NoWindow}]]
    BY DEF Init, NoHit
  <2> QED BY <2>1, <2>2, <2>3 DEF Init, TypeOK, Closing
<1>2. LastIsRecord /\ EnqueueInv /\ LockInv
  BY DEF Init, LastIsRecord, EnqueueInv, LockInv, UnderWay, Working, InPage
<1>3. LastInv
  BY DEF Init, LastInv, LetIn
<1> QED BY <1>1, <1>2, <1>3 DEF ControlInv

LEMMA NextControl == ControlInv /\ [Next]_vars => ControlInv'
<1> SUFFICES ASSUME ControlInv, [Next]_vars PROVE ControlInv'
  OBVIOUS
<1>1. CASE Next
  <2>1. IdeType' /\ WinType' /\ CacheType'
    BY <1>1, NextKeepsIdeType, NextKeepsWinType, NextKeepsCacheType DEF ControlInv
  <2>2. ControlType /\ LastIsRecord' /\ EnqueueInv' /\ LockInv' /\ LastInv'
    BY <1>1, NextKeepsControl
  <2>3. (queued \subseteq Requests /\ disturbed \subseteq Requests /\ cached \subseteq Requests
          /\ happened \subseteq Events)'
    BY <1>1, NextKeepsSets DEF ControlInv
  <2>4. Closing \cup {"new"} \cup Working
          = Closing \cup {"new", "find", "switch", "assert", "dismiss", "pick", "page",
                          "clear", "refocus", "insert", "submit", "confirm"}
    BY DEF Working, InPage
  <2>5. TypeOK'
    BY <2>1, <2>2, <2>3, <2>4 DEF TypeOK, IdeType, WinType, CacheType, ControlType
  <2> QED BY <2>2, <2>5 DEF ControlInv
<1>2. CASE UNCHANGED vars
  <2>1. TypeOK'
    BY <1>2 DEF ControlInv, TypeOK, vars, ide, lock, Win, Closing, Dialogs, Pieces
  <2>2. LastIsRecord' /\ EnqueueInv' /\ LockInv' /\ LastInv'
    BY <1>2 DEF ControlInv, vars, lock, LastIsRecord, EnqueueInv, LockInv, LastInv, LetIn,
                AnyDead, UnderWay, Locking
  <2> QED BY <2>1, <2>2 DEF ControlInv
<1> QED BY <1>1, <1>2

LEMMA ControlAlways == Spec => []ControlInv
BY InitControl, NextControl, PTL DEF Spec

(***************************************************************************)
(* Types are kept: the steps of a request, the answers to the dialogs and   *)
(* what Cursor and people do leave every variable in its set, and the lock  *)
(* of the route is held while its timer runs.                               *)
(***************************************************************************)
THEOREM TypeCorrect == Spec => []TypeOK
BY ControlAlways, PTL DEF ControlInv

(***************************************************************************)
(* One request of POST /api/send is at work at a time: whichever way it     *)
(* ends, the lock outlives it.                                              *)
(***************************************************************************)
THEOREM RouteIsSerial == Spec => []HttpSerial
<1>1. ControlInv => HttpSerial
  BY DEF ControlInv, TypeOK, LockInv, HttpSerial, UnderWay, Working, InPage, Closing
<1> QED BY <1>1, ControlAlways, PTL

\* Who was let in stays let in, and only an acceptance lets one in.
LEMMA LetInGrows ==
  ASSUME ControlInv, Next
  PROVE  /\ AnyDead => AnyDead'
         /\ \/ LetIn' = LetIn
            \/ \E r \in Requests : Locking(r) /\ Admits(r) /\ LetIn' = LetIn \cup {r}
<1> USE DEF ControlInv
<1>1. ASSUME NEW r \in Requests, Step(r) \/ Fails(r)
      PROVE  LetIn' = LetIn /\ (AnyDead => AnyDead')
  <2>1. UnderWay(r) /\ Advances(r)
    BY <1>1, StepAdvances
  <2>2. CASE \E how \in {"queued", "ok", "failed"} \cup Working : pc' = [pc EXCEPT ![r] = how]
    BY <2>1, <2>2 DEF TypeOK, LetIn, AnyDead, UnderWay, Working, InPage
  <2>3. CASE ServerDies
    BY <2>3 DEF ServerDies, TypeOK, LetIn, AnyDead, Closing
  <2> QED BY <2>1, <2>2, <2>3 DEF Advances, EndsAs, Goes, Requeue, Working
<1>2. ASSUME NEW r \in Requests, Accept(r)
      PROVE  /\ AnyDead => AnyDead'
             /\ \/ LetIn' = LetIn
                \/ Locking(r) /\ Admits(r) /\ LetIn' = LetIn \cup {r}
  <2>1. CASE ~Locking(r) \/ ~Admits(r)
    <3>1. \E how \in {"find", "refused"} :
            pc' = [pc EXCEPT ![r] = how] /\ (Locking(r) => how = "refused")
      BY <1>2, <2>1 DEF Accept, Goes
    <3>2. pc[r] = "new"
      BY <1>2 DEF Accept
    <3>3. LetIn' = LetIn
      BY <3>1, <3>2 DEF TypeOK, LetIn
    <3>4. AnyDead => AnyDead'
      BY <3>1, <3>2 DEF TypeOK, AnyDead
    <3> QED BY <3>3, <3>4
  <2>2. CASE Locking(r) /\ Admits(r)
    <3>1. pc[r] = "new" /\ pc' = [pc EXCEPT ![r] = "find"]
      BY <1>2, <2>2 DEF Accept
    <3> QED BY <2>2, <3>1 DEF TypeOK, LetIn, AnyDead, Locking
  <2> QED BY <2>1, <2>2
<1>3. CASE Around
  BY <1>3 DEF Around, Release, Forget, CacheExpires, TurnEnds, Moves, Types, LetIn, AnyDead
<1>4. CASE \E r \in Requests : Accept(r)
  <2>1. PICK r \in Requests : Accept(r)
    BY <1>4
  <2> QED BY <1>2, <2>1
<1>5. CASE \E r \in Requests : Step(r) \/ Fails(r)
  BY <1>1, <1>5
<1> QED BY <1>3, <1>4, <1>5 DEF Next, Around

(***************************************************************************)
(* The same text is not let in twice within the window of 8 s: what is kept *)
(* of the last send refuses it, unless another text took its place, the     *)
(* window ended or the server died.  That needs, beyond the lock, that the  *)
(* kept text is the text of a request that was let in.                      *)
(***************************************************************************)
THEOREM RouteHasNoTwins == Spec => []HttpNoTwin
<1>1. Init => HttpNoTwin
  BY DEF Init, HttpNoTwin
<1>2. ControlInv /\ HttpNoTwin /\ [Next]_vars => HttpNoTwin'
  <2> SUFFICES ASSUME ControlInv, HttpNoTwin, [Next]_vars PROVE HttpNoTwin'
    OBVIOUS
  <2> DEFINE other(t) == \E q \in LetIn : Text[q] # t
  <2>1. /\ HttpNoTwin <=> \A r, s \in LetIn : \/ r = s \/ Text[r] # Text[s]
                                             \/ "later" \in happened \/ AnyDead \/ other(Text[r])
        /\ HttpNoTwin' <=> \A r, s \in LetIn' : \/ r = s \/ Text[r] # Text[s]
                           \/ "later" \in happened' \/ AnyDead' \/ \E q \in LetIn' : Text[q] # Text[r]
    BY DEF HttpNoTwin, LetIn, AnyDead, Locking
  <2>2. CASE UNCHANGED vars
    BY <2>2 DEF vars, HttpNoTwin, Locking
  <2>3. CASE Next /\ LetIn' = LetIn
    BY <2>1, <2>3, LetInGrows, Happenings
  <2>4. CASE Next /\ \E r \in Requests : Locking(r) /\ Admits(r) /\ LetIn' = LetIn \cup {r}
    <3>1. PICK r \in Requests : Locking(r) /\ Admits(r) /\ LetIn' = LetIn \cup {r}
      BY <2>4
    <3>2. ~(last.fresh /\ last.text = Text[r])
      BY <3>1 DEF Admits
    <3>3. \/ LetIn = {} \/ "later" \in happened' \/ AnyDead'
          \/ \E q \in LetIn' : Text[q] # Text[r]
      BY <2>4, <3>1, <3>2, LetInGrows, Happenings DEF ControlInv, LastInv
    <3>4. SUFFICES ASSUME NEW a \in LetIn', NEW b \in LetIn', a # b, Text[a] = Text[b],
                          "later" \notin happened', ~AnyDead'
                   PROVE  \E q \in LetIn' : Text[q] # Text[a]
      BY <2>1
    <3>5. CASE a = r \/ b = r
      BY <3>1, <3>3, <3>4, <3>5
    <3>6. CASE a \in LetIn /\ b \in LetIn
      BY <2>1, <2>4, <3>1, <3>4, <3>6, LetInGrows, Happenings
    <3> QED BY <3>1, <3>5, <3>6
  <2> QED BY <2>2, <2>3, <2>4, LetInGrows
<1> QED BY <1>1, <1>2, ControlAlways, PTL DEF Spec

------------------------------------------------------------------------------
(* What a step does to the inputs and the chats *)

LEMMA AppendOccurs ==
  ASSUME NEW q \in Seq(Pieces), NEW x \in Pieces, NEW y
  PROVE  (\E j \in DOMAIN Append(q, x) : Append(q, x)[j] = y)
           <=> (\E j \in DOMAIN q : q[j] = y) \/ x = y
<1>1. /\ DOMAIN q = 1 .. Len(q) /\ Len(q) \in Nat
      /\ DOMAIN Append(q, x) = 1 .. (Len(q) + 1)
      /\ Append(q, x)[Len(q) + 1] = x
      /\ \A j \in 1 .. Len(q) : Append(q, x)[j] = q[j]
  BY AppendProperties, LenProperties
<1>2. \A j \in 1 .. (Len(q) + 1) : j \in 1 .. Len(q) \/ j = Len(q) + 1
  BY <1>1
<1>3. Len(q) + 1 \in 1 .. (Len(q) + 1) /\ \A j \in 1 .. Len(q) : j \in 1 .. (Len(q) + 1)
  BY <1>1
<1> QED BY <1>1, <1>2, <1>3

LEMMA AppendStarts ==
  ASSUME NEW q \in Seq(Pieces), NEW x \in Pieces, q # <<>>
  PROVE  Append(q, x) # <<>> /\ Append(q, x)[1] = q[1]
<1>1. Len(q) \in Nat /\ Len(q) # 0
  BY EmptySeq, LenProperties
<1>2. 1 \in 1 .. Len(q)
  BY <1>1
<1> QED BY <1>1, <1>2, AppendProperties

LEMMA SentOnce ==
  ASSUME NEW ch \in Seq(Seq(Pieces)), NEW d \in Seq(Pieces)
  PROVE  /\ DOMAIN Append(ch, d) = DOMAIN ch \cup {Len(ch) + 1}
         /\ Len(ch) + 1 \notin DOMAIN ch
         /\ Append(ch, d)[Len(ch) + 1] = d
         /\ \A i \in DOMAIN ch : Append(ch, d)[i] = ch[i]
<1>1. /\ DOMAIN ch = 1 .. Len(ch) /\ Len(ch) \in Nat
      /\ DOMAIN Append(ch, d) = 1 .. (Len(ch) + 1)
      /\ Append(ch, d)[Len(ch) + 1] = d
      /\ \A j \in 1 .. Len(ch) : Append(ch, d)[j] = ch[j]
  BY AppendProperties, LenProperties
<1>2. 1 .. (Len(ch) + 1) = 1 .. Len(ch) \cup {Len(ch) + 1}
  BY <1>1
<1>3. Len(ch) + 1 \notin 1 .. Len(ch)
  BY <1>1
<1> QED BY <1>1, <1>2, <1>3

\* The five things that can become of an input and its chat.
Kept(c)    == draft'[c] = draft[c] /\ chat'[c] = chat[c]
Emptied(c) == draft'[c] = <<>> /\ chat'[c] = chat[c] /\ \E r \in Requests : Clear(r) /\ Here(r) = c
Typed(c)   == /\ draft'[c] = Append(draft[c], Person) /\ chat'[c] = chat[c]
Filled(c)  == /\ chat'[c] = chat[c]
              /\ \E r \in Requests : Insert(r) /\ Here(r) = c /\ draft'[c] = Append(draft[c], r)
Sent(c)    == draft[c] # <<>> /\ draft'[c] = <<>> /\ chat'[c] = Append(chat[c], draft[c])

LEMMA AnswerEffect ==
  ASSUME TypeOK, NEW ws, NEW S, NEW C, Answer(ws, S, C)
  PROVE  /\ \A c \in Composers :
              \/ Kept(c)
              \/ Sent(c) /\ \E w \in ws : dialog[w] \in [kind : S, of : {c}]
         /\ \A w \in Win : dialog'[w] \in {dialog[w], NoDialog}
BY DEF Answer, TypeOK, Kept, Sent

LEMMA InputEffect ==
  ASSUME TypeOK, Next, NEW c \in Composers
  PROVE  Kept(c) \/ Emptied(c) \/ Typed(c) \/ Filled(c) \/ Sent(c)
<1>1. ASSUME UNCHANGED <<draft, chat>> PROVE Kept(c)
  BY <1>1 DEF Kept
<1>2. ASSUME NEW r \in Requests, DismissModals(r) \/ Page(r) \/ Refocus(r) \/ Confirm(r)
      PROVE  Kept(c) \/ Sent(c)
  BY <1>2, AnswerEffect DEF DismissModals, Page, Refocus, Confirm
<1>3. ASSUME NEW r \in Requests, Clear(r) PROVE Kept(c) \/ Emptied(c)
  BY <1>3 DEF Clear, Kept, Emptied, TypeOK
<1>4. ASSUME NEW r \in Requests, Insert(r) PROVE Kept(c) \/ Filled(c)
  BY <1>4 DEF Insert, Kept, Filled, TypeOK
<1>5. ASSUME NEW r \in Requests, Submit(r) PROVE Kept(c) \/ Sent(c)
  <2>1. \/ UNCHANGED <<draft, chat>>
        \/ /\ draft[Here(r)] # <<>>
           /\ chat' = [chat EXCEPT ![Here(r)] = Append(@, draft[Here(r)])]
           /\ draft' = [draft EXCEPT ![Here(r)] = <<>>]
    BY <1>5 DEF Submit
  <2> QED BY <2>1 DEF Kept, Sent, TypeOK
<1>6. ASSUME NEW w \in Win, Types(w) PROVE Kept(c) \/ Typed(c)
  BY <1>6 DEF Types, Kept, Typed, TypeOK
<1>7. ASSUME NEW r \in Requests, Step(r)
      PROVE  Kept(c) \/ Emptied(c) \/ Filled(c) \/ Sent(c)
  <2>1. \/ UNCHANGED <<draft, chat>> \/ Clear(r) \/ Insert(r) \/ Submit(r)
        \/ DismissModals(r) \/ Page(r) \/ Refocus(r) \/ Confirm(r)
    BY <1>7 DEF Step, Find, UseCache, Switch, AssertMatches, Pick, Stranded, ide
  <2>2. CASE DismissModals(r) \/ Page(r) \/ Refocus(r) \/ Confirm(r)
    BY <1>2, <2>2
  <2>3. CASE Clear(r)
    BY <1>3, <2>3
  <2>4. CASE Insert(r)
    BY <1>4, <2>4
  <2>5. CASE Submit(r)
    BY <1>5, <2>5
  <2>6. CASE UNCHANGED <<draft, chat>>
    BY <1>1, <2>6
  <2> QED BY <2>1, <2>2, <2>3, <2>4, <2>5, <2>6
<1>8. \/ UNCHANGED <<draft, chat>> \/ \E w \in Win : Types(w)
      \/ \E r \in Requests : Step(r)
  BY DEF Next, Accept, Fails, Release, Forget, CacheExpires, TurnEnds, Moves, ide
<1> QED BY <1>1, <1>6, <1>7, <1>8

LEMMA NextKeepsDialogInv == TypeOK /\ DialogInv /\ [Next]_vars => DialogInv'
<1> SUFFICES ASSUME TypeOK, DialogInv, [Next]_vars, "dialog" \notin happened',
                    NEW w \in Win
             PROVE  dialog'[w] = NoDialog
  BY DEF DialogInv, Win
<1>1. "dialog" \notin happened /\ dialog[w] = NoDialog
  BY Happenings DEF DialogInv, vars
<1>2. CASE UNCHANGED dialog
  BY <1>1, <1>2
<1>3. ASSUME NEW r \in Requests, DismissModals(r) \/ Page(r) \/ Refocus(r) \/ Confirm(r)
      PROVE  dialog'[w] = NoDialog
  BY <1>1, <1>3, AnswerEffect DEF DismissModals, Page, Refocus, Confirm
<1>4. ASSUME NEW r \in Requests, Submit(r) PROVE dialog'[w] = NoDialog
  BY <1>1, <1>4 DEF Submit, Event
<1>5. ASSUME NEW v \in Win, Moves(v) PROVE dialog'[w] = NoDialog
  BY <1>1, <1>5 DEF Moves, TypeOK
<1>6. ASSUME NEW r \in Requests, Step(r) PROVE dialog'[w] = NoDialog
  BY <1>2, <1>3, <1>4, <1>6
     DEF Step, Find, UseCache, Switch, AssertMatches, Pick, Clear, Insert, Stranded, ide
<1> QED BY <1>2, <1>5, <1>6
        DEF Next, Accept, Fails, Release, Forget, CacheExpires, TurnEnds, Types, ide, vars

------------------------------------------------------------------------------
(* What a step does to a request that does not take it *)

\* A step of another request, or of none.
Others(r) == \/ \E s \in Requests \ {r} : Accept(s) \/ Step(s) \/ Fails(s)
             \/ Around
Own(r)    == Accept(r) \/ Step(r) \/ Fails(r)

LEMMA OthersLeave ==
  ASSUME ControlInv, NEW r \in Requests, Others(r)
  PROVE  /\ mode'[r] = mode[r] /\ win'[r] = win[r]
         /\ pc'[r] = pc[r] \/ (UnderWay(r) /\ pc'[r] = "dead")
<1> USE DEF ControlInv
<1>1. ASSUME NEW s \in Requests \ {r}, Step(s) \/ Fails(s)
      PROVE  /\ mode'[r] = mode[r]
             /\ pc'[r] = pc[r] \/ (UnderWay(r) /\ pc'[r] = "dead")
  <2>1. Advances(s)
    BY <1>1, StepAdvances
  <2>2. CASE ServerDies
    BY <2>2 DEF ServerDies, UnderWay, TypeOK, Working, InPage
  <2>3. CASE /\ \E how : pc' = [pc EXCEPT ![s] = how]
             /\ UNCHANGED mode \/ mode' = [mode EXCEPT ![s] = "enqueue"]
    BY <1>1, <2>3 DEF TypeOK
  <2> QED BY <2>1, <2>2, <2>3 DEF Advances, EndsAs, Goes, Requeue
<1>2. ASSUME NEW s \in Requests \ {r}, Step(s) PROVE win'[r] = win[r]
  <2>1. UNCHANGED win \/ \E w : win' = [win EXCEPT ![s] = w]
    BY <1>2 DEF Step, Find, UseCache, Switch, AssertMatches, DismissModals, Pick, Page, Clear,
                Refocus, Insert, Submit, Confirm, Stranded, Proceed
  <2> QED BY <1>2, <2>1 DEF TypeOK
<1>3. ASSUME NEW s \in Requests \ {r}, Fails(s) PROVE win'[r] = win[r]
  BY <1>3 DEF Fails
<1>4. ASSUME NEW s \in Requests \ {r}, Accept(s)
      PROVE  mode'[r] = mode[r] /\ win'[r] = win[r] /\ pc'[r] = pc[r]
  BY <1>4 DEF Accept, Goes, TypeOK
<1>5. CASE Around
  BY <1>5 DEF Around, Release, Forget, CacheExpires, TurnEnds, Moves, Types
<1>6. CASE \E s \in Requests \ {r} : Accept(s)
  BY <1>4, <1>6
<1>7. CASE \E s \in Requests \ {r} : Step(s)
  BY <1>1, <1>2, <1>7
<1>8. CASE \E s \in Requests \ {r} : Fails(s)
  BY <1>1, <1>3, <1>8
<1> QED BY <1>5, <1>6, <1>7, <1>8 DEF Others

InAnInput == {"clear", "refocus", "insert", "submit", "confirm"}

\* Unless it is disturbed, the request's window shows what it showed, and the
\* input it is in holds what it held.
LEMMA OthersSpareWindow ==
  ASSUME ControlInv, NEW r \in Requests, Others(r), r \notin disturbed',
         win[r] \in Win, pc[r] \in {"assert", "dismiss", "pick"} \cup InPage
  PROVE  shows'[win[r]] = shows[win[r]]
<1> USE DEF ControlInv
<1>1. CASE UNCHANGED shows
  BY <1>1
<1>2. \A ws : win[r] \in ws => r \in OnTheirWay(ws)
  BY DEF OnTheirWay, Closing, InPage
<1>3. ASSUME NEW s \in Requests \ {r}, Switch(s) PROVE shows'[win[r]] = shows[win[r]]
  <2>1. PICK clicked : /\ shows' = [w \in Win |-> IF w \in clicked THEN To[s] ELSE shows[w]]
                       /\ Disturb(OnTheirWay(clicked) \ {s})
    BY <1>3 DEF Switch
  <2>2. win[r] \notin clicked
    BY <1>2, <1>3, <2>1 DEF Disturb
  <2> QED BY <2>1, <2>2
<1>4. ASSUME NEW w \in Win, Moves(w) PROVE shows'[win[r]] = shows[win[r]]
  <2>1. w # win[r]
    BY <1>2, <1>4 DEF Moves, Disturb
  <2> QED BY <1>4, <2>1 DEF Moves, TypeOK
<1>5. ASSUME NEW s \in Requests \ {r}, Step(s) PROVE UNCHANGED shows \/ Switch(s)
  BY <1>5 DEF Step, Find, UseCache, AssertMatches, DismissModals, Pick, Page, Clear, Refocus,
              Insert, Submit, Confirm, Stranded, ide
<1>6. \/ UNCHANGED shows \/ \E w \in Win : Moves(w)
      \/ \E s \in Requests \ {r} : Step(s)
  BY DEF Others, Around, Accept, Fails, Release, Forget, CacheExpires, TurnEnds, Types, ide
<1> QED BY <1>1, <1>3, <1>4, <1>5, <1>6

LEMMA OthersSpareInput ==
  ASSUME ControlInv, NEW r \in Requests, Others(r), r \notin disturbed',
         win[r] \in Win, Here(r) \in Composers, pc[r] \in InAnInput
  PROVE  draft'[Here(r)] = draft[Here(r)]
<1> USE DEF ControlInv
<1> DEFINE c == Here(r)
<1>1. r \in InInput(c)
  BY RouteAssumption DEF InInput, InAnInput, Here
<1>2. CASE UNCHANGED draft
  BY <1>2
<1>3. ASSUME NEW s \in Requests \ {r}, NEW ws, NEW S, NEW C, Answer(ws, S, C),
             \A w \in ws : dialog[w].of = c => r \in disturbed'
      PROVE  draft'[c] = draft[c]
  <2>1. Kept(c) \/ \E w \in ws : dialog[w].of = c
    BY <1>3, AnswerEffect
  <2> QED BY <1>3, <2>1 DEF Kept
<1>4. ASSUME NEW s \in Requests \ {r}, DismissModals(s) PROVE draft'[c] = draft[c]
  <2>1. \A w \in Win : dialog[w].of = c => r \in disturbed'
    BY <1>1, <1>4 DEF DismissModals, Disturb
  <2> QED BY <1>3, <1>4, <2>1 DEF DismissModals
<1>5. ASSUME NEW s \in Requests \ {r}, Page(s) \/ Refocus(s) \/ Confirm(s)
      PROVE draft'[c] = draft[c]
  <2>1. \A w \in {win[s]} : dialog[w].of = c => r \in disturbed'
    BY <1>1, <1>5 DEF Page, Refocus, Confirm, Disturb
  <2> QED BY <1>3, <1>5, <2>1 DEF Page, Refocus, Confirm
<1>6. ASSUME NEW s \in Requests \ {r}, Clear(s) \/ Insert(s) \/ Submit(s)
      PROVE draft'[c] = draft[c]
  <2>1. Disturb(InInput(Here(s)) \ {s}) \/ UNCHANGED draft
    BY <1>6 DEF Clear, Insert, Submit
  <2>2. CASE Here(s) # c
    BY <1>6, <2>2 DEF Clear, Insert, Submit, TypeOK
  <2>3. CASE Here(s) = c
    BY <1>1, <2>1, <2>3 DEF Disturb
  <2> QED BY <2>2, <2>3
<1>7. ASSUME NEW w \in Win, Types(w) PROVE draft'[c] = draft[c]
  <2>1. shows[w] # c
    BY <1>1, <1>7 DEF Types, Disturb
  <2> QED BY <1>7, <2>1 DEF Types, TypeOK
<1>8. ASSUME NEW s \in Requests \ {r}, Step(s)
      PROVE  \/ UNCHANGED draft \/ DismissModals(s) \/ Page(s) \/ Refocus(s) \/ Confirm(s)
             \/ Clear(s) \/ Insert(s) \/ Submit(s)
  BY <1>8 DEF Step, Find, UseCache, Switch, AssertMatches, Pick, Stranded, ide
<1>9. \/ UNCHANGED draft \/ \E w \in Win : Types(w)
      \/ \E s \in Requests \ {r} : Step(s)
  BY DEF Others, Around, Accept, Fails, Release, Forget, CacheExpires, TurnEnds, Moves, ide
<1> QED BY <1>2, <1>4, <1>5, <1>6, <1>7, <1>8, <1>9

------------------------------------------------------------------------------
(* Before it is typed a prompt is nowhere *)

Untyped == {"new", "find", "switch", "assert", "dismiss", "pick", "page", "clear", "refocus",
            "insert"}

\* Once typed, a prompt is not typed again.
LEMMA NotUntypedAgain ==
  ASSUME ControlInv, Next, NEW r \in Requests, mode'[r] = "send", pc'[r] \in Untyped
  PROVE  mode[r] = "send" /\ pc[r] \in Untyped
<1> USE DEF ControlInv
<1>1. CASE Others(r)
  BY <1>1, OthersLeave DEF Untyped
<1>2. CASE Accept(r)
  BY <1>2 DEF Accept, Goes, Untyped
<1>3. ASSUME Step(r) \/ Fails(r) PROVE mode[r] = "send" /\ pc[r] \in Untyped
  <2>1. UnderWay(r) /\ Advances(r)
    BY <1>3, StepAdvances
  <2>2. mode[r] = "send"
    BY <2>1 DEF Advances, EndsAs, Goes, Requeue, ServerDies, TypeOK
  <2>3. pc[r] \notin {"submit", "confirm"}
    <3>1. ASSUME NEW b, Throws(r, b) PROVE ~(mode'[r] = "send" /\ pc'[r] \in Untyped)
      BY <3>1 DEF Throws, EndsAs, TypeOK, Untyped
    <3>2. ~(Goes(r, "confirm") \/ EndsAs(r, "ok"))
      BY DEF Goes, EndsAs, TypeOK, Untyped
    <3>3. CASE Step(r) /\ pc[r] \in {"submit", "confirm"}
      BY <3>1, <3>2, <3>3
         DEF Step, Find, UseCache, Switch, AssertMatches, DismissModals, Pick, Page, Clear,
             Refocus, Insert, Submit, Confirm, Stranded
    <3>4. CASE Fails(r)
      BY <2>2, <3>1, <3>4 DEF Fails
    <3> QED BY <1>3, <3>3, <3>4
  <2> QED BY <2>1, <2>2, <2>3 DEF UnderWay, Working, InPage, Untyped
<1> QED BY <1>1, <1>2, <1>3 DEF Next, Others, Around

\* A chat gets a prompt only from the input that holds it.
LEMMA LandedStays ==
  ASSUME TypeOK, Next, NEW r \in Requests, NEW c \in Composers, ~InDraft(r, c) \/ ~Sent(c)
  PROVE  /\ Landed(r, c)' = Landed(r, c)
         /\ \A i \in Landed(r, c) : chat'[c][i] = chat[c][i]
<1>1. draft[c] \in Seq(Pieces) /\ chat[c] \in Seq(Seq(Pieces))
  BY DEF TypeOK
<1>2. CASE chat'[c] = chat[c]
  BY <1>2 DEF Landed
<1>3. CASE Sent(c)
  <2>1. chat'[c] = Append(chat[c], draft[c]) /\ ~InDraft(r, c)
    BY <1>3 DEF Sent
  <2>2. ASSUME NEW i \in Landed(r, c)' PROVE i \in Landed(r, c)
    <3>1. i \in DOMAIN chat'[c] /\ \E j \in DOMAIN chat'[c][i] : chat'[c][i][j] = r
      BY <2>2 DEF Landed
    <3>2. i # Len(chat[c]) + 1
      BY <1>1, <2>1, <3>1, SentOnce DEF InDraft
    <3>3. i \in DOMAIN chat[c] /\ chat'[c][i] = chat[c][i]
      BY <1>1, <2>1, <3>1, <3>2, SentOnce
    <3> QED BY <3>1, <3>3 DEF Landed
  <2>3. ASSUME NEW i \in Landed(r, c) PROVE i \in Landed(r, c)' /\ chat'[c][i] = chat[c][i]
    <3>1. i \in DOMAIN chat'[c] /\ chat'[c][i] = chat[c][i]
      BY <1>1, <2>1, <2>3, SentOnce DEF Landed
    <3> QED BY <2>3, <3>1 DEF Landed
  <2> QED BY <2>2, <2>3
<1> QED BY <1>2, <1>3, InputEffect DEF Kept, Emptied, Typed, Filled

\* An input gets a prompt only from its own request.
LEMMA DraftStays ==
  ASSUME TypeOK, Next, NEW r \in Requests, NEW c \in Composers, ~InDraft(r, c), ~Insert(r)
  PROVE  ~InDraft(r, c)'
<1>1. draft[c] \in Seq(Pieces) /\ Person \in Pieces /\ Person # r /\ Requests \subseteq Pieces
  BY RouteAssumption DEF TypeOK, Pieces
<1>2. CASE draft'[c] = <<>> \/ draft'[c] = draft[c]
  BY <1>2, EmptySeq DEF InDraft
<1>3. CASE Typed(c)
  BY <1>1, <1>3, AppendOccurs DEF Typed, InDraft
<1>4. CASE Filled(c)
  <2>1. PICK s \in Requests : Insert(s) /\ draft'[c] = Append(draft[c], s)
    BY <1>4 DEF Filled
  <2> QED BY <1>1, <2>1, AppendOccurs DEF InDraft
<1> QED BY <1>2, <1>3, <1>4, InputEffect DEF Kept, Emptied, Sent

LEMMA NextKeepsUntypedInv == ControlInv /\ UntypedInv /\ [Next]_vars => UntypedInv'
<1> SUFFICES ASSUME ControlInv, UntypedInv, [Next]_vars,
                    NEW r \in Requests, mode'[r] = "send", pc'[r] \in Untyped
             PROVE  Nowhere(r)'
  BY DEF UntypedInv, Untyped
<1>1. CASE UNCHANGED vars
  BY <1>1 DEF vars, ide, UntypedInv, Untyped, Nowhere, NotInChats, Landed, InDraft
<1>2. CASE Next
  <2>1. Nowhere(r)
    BY <1>2, NotUntypedAgain DEF UntypedInv, Untyped
  <2>2. ~Insert(r)
    BY DEF Insert, Goes, ControlInv, TypeOK, Untyped
  <2> QED BY <1>2, <2>1, <2>2, LandedStays, DraftStays DEF ControlInv, Nowhere, NotInChats
<1> QED BY <1>1, <1>2

------------------------------------------------------------------------------
(* An input that nobody touched is as its request left it *)

LEMMA OpenedShows ==
  ASSUME TypeOK, NEW r \in Requests, There(r), Here(r) # NoComposer
  PROVE  win[r] \in Win /\ Here(r) \in Composers
BY DEF TypeOK, There, Here, Opened

LEMMA NextKeepsInputInv == ControlInv /\ InputInv /\ [Next]_vars => InputInv'
<1> SUFFICES ASSUME ControlInv, InputInv, [Next]_vars,
                    NEW r \in Requests, r \notin disturbed',
                    pc'[r] \in {"clear", "refocus", "insert", "submit"}
             PROVE  (/\ win[r] \in Win /\ Here(r) \in Composers
                     /\ pc[r] = "clear" => draft[Here(r)] = <<>> \/ draft[Here(r)][1] \in Marked
                     /\ pc[r] \in {"refocus", "insert"} => draft[Here(r)] = <<>>
                     /\ pc[r] = "submit" => draft[Here(r)] = <<r>>)'
  BY DEF InputInv, Win
<1> USE DEF ControlInv
<1>0. r \notin disturbed
  BY Happenings DEF vars
<1>1. CASE UNCHANGED vars
  BY <1>0, <1>1 DEF vars, ide, InputInv, Here
<1>2. CASE Others(r)
  <2>1. win'[r] = win[r] /\ pc'[r] = pc[r]
    BY <1>2, OthersLeave
  <2>2. win[r] \in Win /\ Here(r) \in Composers
    BY <1>0, <2>1 DEF InputInv
  <2>3. shows'[win[r]] = shows[win[r]]
    BY <1>2, <2>1, <2>2, OthersSpareWindow DEF InPage
  <2>4. draft'[Here(r)] = draft[Here(r)]
    BY <1>2, <2>1, <2>2, OthersSpareInput DEF InAnInput
  <2>5. Here(r)' = Here(r)
    BY <2>1, <2>3 DEF Here
  <2> QED BY <1>0, <2>1, <2>2, <2>4, <2>5 DEF InputInv
<1>3. CASE Page(r)
  <2>1. /\ Here(r) # NoComposer /\ There(r) /\ UNCHANGED <<shows, win>>
        /\ dialog[win[r]].kind \notin {"revert", "late"}
        /\ pc'[r] = Focus(draft[Here(r)])
        /\ Answer({win[r]}, {"revert", "late"}, {"stuck"})
    BY <1>3 DEF Page, Throws, EndsAs, Goes, TypeOK
  <2>2. win[r] \in Win /\ Here(r) \in Composers /\ Here(r)' = Here(r)
    BY <2>1, OpenedShows DEF Here
  <2>3. draft'[Here(r)] = draft[Here(r)]
    BY <2>1, <2>2, AnswerEffect DEF Kept
  <2> QED BY <2>1, <2>2, <2>3 DEF Focus, Ours
<1>4. CASE Clear(r)
  BY <1>0, <1>4 DEF Clear, Goes, TypeOK, InputInv, Here
<1>5. CASE Refocus(r)
  <2>1. /\ Here(r) # NoComposer /\ There(r) /\ UNCHANGED <<shows, win>>
        /\ pc'[r] = "insert" /\ Focus(draft'[Here(r)]) = "insert"
    BY <1>5 DEF Refocus, Throws, EndsAs, Goes, TypeOK
  <2>2. win[r] \in Win /\ Here(r) \in Composers /\ Here(r)' = Here(r)
    BY <2>1, OpenedShows DEF Here
  <2> QED BY <2>1, <2>2 DEF Focus
<1>6. CASE Insert(r)
  <2>1. /\ win[r] \in Win /\ Here(r) \in Composers /\ draft[Here(r)] = <<>>
        /\ pc'[r] = "submit" /\ UNCHANGED <<shows, win>>
    BY <1>0, <1>6 DEF Insert, Goes, TypeOK, InputInv
  <2>2. draft'[Here(r)] = <<r>> /\ Here(r)' = Here(r)
    BY <1>6, <2>1 DEF Insert, TypeOK, Here
  <2> QED BY <2>1, <2>2
<1>7. CASE Accept(r) \/ Fails(r)
  <2>1. ~Accept(r)
    BY DEF Accept, Goes, TypeOK
  <2>2. CASE mode[r] = "enqueue"
    BY <1>7, <2>1, <2>2 DEF Fails, ServerDies, EnqueueInv
  <2>3. CASE mode[r] # "enqueue"
    BY <1>7, <2>1, <2>3 DEF Fails, Throws, EndsAs, TypeOK
  <2> QED BY <2>2, <2>3
<1>8. ASSUME Step(r) PROVE Page(r) \/ Clear(r) \/ Refocus(r) \/ Insert(r)
  <2>1. ASSUME NEW b, Throws(r, b) PROVE FALSE
    BY <2>1 DEF Throws, EndsAs, TypeOK
  <2>2. ASSUME NEW w, Proceed(r, w) PROVE FALSE
    BY <2>2 DEF Proceed, Goes, EndsAs, TypeOK
  <2>3. ASSUME ServerDies, mode[r] = "enqueue" PROVE FALSE
    BY <2>3 DEF ServerDies, EnqueueInv
  <2>4. \A how \in {"switch", "assert", "pick", "page", "confirm"} : ~Goes(r, how)
    BY DEF Goes, TypeOK
  <2>5. ~EndsAs(r, "ok")
    BY DEF EndsAs, TypeOK
  <2> QED BY <1>8, <2>1, <2>2, <2>3, <2>4, <2>5
          DEF Step, Find, UseCache, Switch, AssertMatches, DismissModals, Pick, Submit, Confirm,
              Stranded
<1> QED BY <1>1, <1>2, <1>3, <1>4, <1>5, <1>6, <1>7, <1>8 DEF Next, Others, Around

------------------------------------------------------------------------------
(* Who is not disturbed reaches the chat it was meant for *)

\* In the window of its composer.
OnItsPath(r) == pc[r] \in {"dismiss", "pick"} \cup InPage => win[r] \in Win /\ Here(r) = To[r]
TypedWhole(r) == pc[r] = "submit" =>
                   NotInChats(r) /\ \A c \in Composers : InDraft(r, c) => c = To[r]
SentWhole(r) == pc[r] \in {"confirm", "ok"} =>
                   OnItsOwn(r) /\ \A c \in Composers : ~InDraft(r, c)

DataInv == ControlInv /\ DialogInv /\ UntypedInv /\ InputInv /\ PathInv

LEMMA PathParts ==
  PathInv <=> ("dialog" \notin happened =>
                 \A r \in Requests \ (disturbed \cup cached) :
                   OnItsPath(r) /\ TypedWhole(r) /\ SentWhole(r))
BY DEF PathInv, OnItsPath, TypedWhole, SentWhole

\* A request that stays undisturbed was undisturbed.
LEMMA PathBefore ==
  ASSUME DataInv, Next, NEW r \in Requests, r \notin disturbed' \cup cached',
         "dialog" \notin happened'
  PROVE  /\ r \notin disturbed \cup cached /\ "dialog" \notin happened
         /\ OnItsPath(r) /\ TypedWhole(r) /\ SentWhole(r)
BY Happenings, PathParts DEF DataInv

LEMMA OthersKeepPath ==
  ASSUME DataInv, Next, NEW r \in Requests, r \notin disturbed' \cup cached',
         "dialog" \notin happened', Others(r)
  PROVE  OnItsPath(r)' /\ TypedWhole(r)' /\ SentWhole(r)'
<1> USE DEF DataInv
<1>1. /\ r \notin disturbed \cup cached /\ OnItsPath(r) /\ TypedWhole(r) /\ SentWhole(r)
      /\ win'[r] = win[r] /\ (pc'[r] = pc[r] \/ pc'[r] = "dead")
  BY PathBefore, OthersLeave
<1>2. TypeOK /\ ControlInv
  BY DEF ControlInv
<1>3. OnItsPath(r)'
  <2>1. SUFFICES ASSUME pc[r] \in {"dismiss", "pick"} \cup InPage, pc'[r] = pc[r]
                 PROVE  (win[r] \in Win /\ Here(r) = To[r])'
    BY <1>1 DEF OnItsPath, InPage
  <2>2. win[r] \in Win /\ Here(r) = To[r]
    BY <1>1, <2>1 DEF OnItsPath
  <2>3. shows'[win[r]] = shows[win[r]]
    BY <1>2, <2>1, <2>2, OthersSpareWindow
  <2> QED BY <1>1, <2>2, <2>3 DEF Here, Win
<1>4. TypedWhole(r)'
  <2>1. SUFFICES ASSUME pc[r] = "submit", pc'[r] = pc[r]
                 PROVE  (NotInChats(r) /\ \A c \in Composers : InDraft(r, c) => c = To[r])'
    BY <1>1 DEF TypedWhole
  <2>2. /\ NotInChats(r) /\ \A c \in Composers : InDraft(r, c) => c = To[r]
        /\ win[r] \in Win /\ Here(r) = To[r] /\ To[r] \in Composers /\ draft[Here(r)] = <<r>>
    BY <1>1, <2>1, RouteAssumption DEF TypedWhole, OnItsPath, InPage, InputInv
  <2>3. draft'[To[r]] = <<r>>
    BY <1>2, <2>1, <2>2, OthersSpareInput DEF InAnInput
  <2>4. ~Sent(To[r]) /\ ~Insert(r)
    BY <2>1, <2>3 DEF Sent, Insert
  <2>5. ASSUME NEW c \in Composers PROVE Landed(r, c)' = {}
    BY <1>2, <2>2, <2>4, LandedStays DEF NotInChats
  <2>6. ASSUME NEW c \in Composers \ {To[r]} PROVE ~InDraft(r, c)'
    BY <1>2, <2>2, <2>4, DraftStays
  <2> QED BY <2>5, <2>6 DEF NotInChats
<1>5. SentWhole(r)'
  <2>1. SUFFICES ASSUME pc[r] \in {"confirm", "ok"}, pc'[r] = pc[r]
                 PROVE  (OnItsOwn(r) /\ \A c \in Composers : ~InDraft(r, c))'
    BY <1>1 DEF SentWhole
  <2>2. /\ OnItsOwn(r) /\ \A c \in Composers : ~InDraft(r, c)
        /\ ~Insert(r) /\ To[r] \in Composers
    BY <1>1, <2>1, RouteAssumption DEF SentWhole, Insert
  <2> QED BY <1>2, <2>2, LandedStays, DraftStays DEF OnItsOwn
<1> QED BY <1>3, <1>4, <1>5

\* Where a step of the request itself leads.
LEMMA FindKeepsPath ==
  ASSUME DataInv, Next, NEW r \in Requests, r \notin disturbed' \cup cached',
         Find(r) \/ UseCache(r) \/ Switch(r) \/ AssertMatches(r)
  PROVE  OnItsPath(r)' /\ TypedWhole(r)' /\ SentWhole(r)'
<1> USE DEF DataInv, ControlInv
<1>1. ASSUME NEW w \in Win, shows[w] = To[r], Proceed(r, w), UNCHANGED shows
      PROVE  OnItsPath(r)' /\ TypedWhole(r)' /\ SentWhole(r)'
  BY <1>1 DEF Proceed, Goes, EndsAs, TypeOK, OnItsPath, TypedWhole, SentWhole, InPage, Here
<1>2. ASSUME NEW how \in {"switch", "assert", "find", "failed", "dead"}, pc'[r] = how
      PROVE  OnItsPath(r)' /\ TypedWhole(r)' /\ SentWhole(r)'
  BY <1>2 DEF OnItsPath, TypedWhole, SentWhole, InPage
<1>3. CASE Find(r)
  <2>1. CASE FindWindow(To[r]) # NoWindow
    BY <1>1, <1>3, <2>1, FindWindowFinds DEF Find, Opened, ide
  <2>2. CASE FindWindow(To[r]) = NoWindow
    BY <1>2, <1>3, <2>2 DEF Find, Goes, TypeOK
  <2> QED BY <2>1, <2>2
<1>4. CASE UseCache(r)
  BY <1>4 DEF UseCache
<1>5. CASE Switch(r)
  BY <1>2, <1>5 DEF Switch, Goes, TypeOK
<1>6. CASE AssertMatches(r)
  <2>1. CASE Matches(win[r], To[r])
    BY <1>1, <1>6, <2>1 DEF AssertMatches, Matches, TypeOK, ide
  <2>2. CASE ~Matches(win[r], To[r])
    <3>1. mode[r] = "enqueue" => Process(r) = "server"
      BY DEF EnqueueInv, Process
    <3>2. pc'[r] \in {"find", "failed", "dead"}
      BY <1>6, <2>2, <3>1
         DEF AssertMatches, Throws, EndsAs, ServerDies, TypeOK, Closing
    <3> QED BY <1>2, <3>2
  <2> QED BY <2>1, <2>2
<1> QED BY <1>3, <1>4, <1>5, <1>6

\* Without a dialog an answer changes nothing.
LEMMA AnswerIdle ==
  ASSUME DataInv, "dialog" \notin happened, NEW ws \in SUBSET Win, NEW S, NEW C,
         Answer(ws, S, C), "none" \notin S
  PROVE  \A c \in Composers : Kept(c)
<1>1. \A w \in ws : dialog[w].kind = "none"
  BY DEF DataInv, DialogInv, NoDialog
<1>2. \A w \in ws : \A c : ~(dialog[w] \in [kind : S, of : {c}])
  BY <1>1
<1> QED BY <1>2, AnswerEffect DEF DataInv, ControlInv

LEMMA PageKeepsPath ==
  ASSUME DataInv, Next, NEW r \in Requests, r \notin disturbed' \cup cached',
         "dialog" \notin happened',
         \/ DismissModals(r) \/ Pick(r) \/ Page(r) \/ Clear(r) \/ Refocus(r) \/ Stranded(r)
         \/ Accept(r) \/ Fails(r)
  PROVE  OnItsPath(r)' /\ TypedWhole(r)' /\ SentWhole(r)'
<1> USE DEF DataInv, ControlInv
<1>1. r \notin disturbed \cup cached /\ "dialog" \notin happened /\ OnItsPath(r)
  BY PathBefore
<1>2. pc[r] \in {"dismiss", "pick"} \cup InPage =>
        win[r] \in Win /\ shows[win[r]] = To[r] /\ win[r] \in Opened
  BY <1>1, RouteAssumption DEF OnItsPath, Here, Opened
<1>3. ASSUME NEW how \in {"pick", "page", "clear", "refocus", "insert", "find", "failed", "refused",
                          "dead"},
             pc'[r] = how, how \in {"pick", "page", "clear", "refocus", "insert"} =>
                             pc[r] \in {"dismiss", "pick"} \cup InPage,
             UNCHANGED <<shows, win>>
      PROVE  OnItsPath(r)' /\ TypedWhole(r)' /\ SentWhole(r)'
  BY <1>2, <1>3 DEF OnItsPath, TypedWhole, SentWhole, InPage, Here
<1>4. ASSUME NEW b, Throws(r, b) PROVE pc'[r] \in {"find", "failed"}
  BY <1>4 DEF Throws, EndsAs, TypeOK
<1>5. CASE DismissModals(r)
  BY <1>3, <1>5 DEF DismissModals, Goes, TypeOK
<1>6. CASE Pick(r)
  <2>1. PageFor(win[r]) = win[r] /\ win[r] # NoWindow
    BY <1>2, <1>6, RouteAssumption DEF Pick, PageFor
  <2>2. win'[r] = win[r] /\ UNCHANGED shows /\ pc'[r] \in {"find", "failed", "page"}
    BY <1>4, <1>6, <2>1 DEF Pick, Goes, TypeOK, ide
  <2> QED BY <1>2, <1>6, <2>2 DEF Pick, OnItsPath, TypedWhole, SentWhole, InPage, Here
<1>7. CASE Page(r)
  <2>1. dialog[win[r]].kind = "none"
    <3>1. pc[r] = "page"
      BY <1>7 DEF Page
    <3>2. win[r] \in Win
      BY <1>2, <3>1 DEF InPage
    <3>3. dialog[win[r]] = NoDialog
      BY <1>1, <3>2 DEF DialogInv
    <3> QED BY <3>3 DEF NoDialog
  <2>2. (\E b : Throws(r, b)) \/ Goes(r, "insert") \/ Goes(r, "clear")
    <3>1. Focus(draft[Here(r)]) \in {"insert", "clear", "user typing"}
      BY DEF Focus
    <3> QED BY <1>7, <2>1, <3>1 DEF Page
  <2>3. pc'[r] \in {"find", "failed", "clear", "insert"}
    BY <1>4, <2>2 DEF Goes, TypeOK
  <2> QED BY <1>3, <1>7, <2>3 DEF Page, InPage
<1>8. CASE Clear(r)
  BY <1>3, <1>8 DEF Clear, Goes, TypeOK, InPage
<1>9. CASE Refocus(r)
  <2>1. pc'[r] \in {"find", "failed", "insert"}
    BY <1>4, <1>9 DEF Refocus, Goes, TypeOK
  <2> QED BY <1>3, <1>9, <2>1 DEF Refocus, InPage
<1>10. CASE Stranded(r)
  BY <1>3, <1>4, <1>10 DEF Stranded, ide
<1>11. CASE Accept(r)
  BY <1>3, <1>11 DEF Accept, Goes, TypeOK, ide
<1>12. CASE Fails(r)
  <2>1. mode[r] = "enqueue" => Process(r) = "server"
    BY DEF EnqueueInv, Process
  <2>2. pc'[r] \in {"find", "failed", "dead"}
    BY <1>4, <1>12, <2>1 DEF Fails, ServerDies, TypeOK
  <2> QED BY <1>3, <1>12, <2>2 DEF Fails, ide
<1> QED BY <1>5, <1>6, <1>7, <1>8, <1>9, <1>10, <1>11, <1>12

LEMMA InsertKeepsPath ==
  ASSUME DataInv, Next, NEW r \in Requests, r \notin disturbed' \cup cached',
         "dialog" \notin happened', Insert(r)
  PROVE  OnItsPath(r)' /\ TypedWhole(r)' /\ SentWhole(r)'
<1> USE DEF DataInv, ControlInv
<1>1. win[r] \in Win /\ Here(r) = To[r] /\ pc[r] = "insert" /\ pc'[r] = "submit"
      /\ UNCHANGED <<shows, win, chat>>
  BY PathBefore DEF OnItsPath, InPage, Insert, Goes, TypeOK
<1>2. mode[r] = "send"
  BY <1>1 DEF EnqueueInv, TypeOK
<1>3. Nowhere(r)
  BY <1>1, <1>2 DEF UntypedInv
<1>4. NotInChats(r)'
  BY <1>1, <1>3 DEF Nowhere, NotInChats, Landed
<1>5. ASSUME NEW c \in Composers \ {To[r]} PROVE ~InDraft(r, c)'
  <2>1. draft'[c] = draft[c]
    BY <1>1 DEF Insert, TypeOK
  <2> QED BY <1>3, <2>1 DEF Nowhere, InDraft
<1> QED BY <1>1, <1>4, <1>5 DEF OnItsPath, TypedWhole, SentWhole, InPage, Here, Win

LEMMA SubmitKeepsPath ==
  ASSUME DataInv, Next, NEW r \in Requests, r \notin disturbed' \cup cached',
         "dialog" \notin happened', Submit(r)
  PROVE  OnItsPath(r)' /\ TypedWhole(r)' /\ SentWhole(r)'
<1> USE DEF DataInv, ControlInv
<1>1. /\ r \notin disturbed /\ OnItsPath(r) /\ TypedWhole(r) /\ pc[r] = "submit"
      /\ UNCHANGED <<shows, win>>
  BY PathBefore DEF Submit
<1>2. /\ win[r] \in Win /\ Here(r) = To[r] /\ To[r] \in Composers /\ draft[To[r]] = <<r>>
      /\ NotInChats(r) /\ \A c \in Composers : InDraft(r, c) => c = To[r]
  BY <1>1, RouteAssumption DEF OnItsPath, TypedWhole, InPage, InputInv
<1>3. CASE Throws(r, TRUE)
  BY <1>3 DEF Throws, EndsAs, TypeOK, OnItsPath, TypedWhole, SentWhole, InPage
<1>4. CASE /\ chat' = [chat EXCEPT ![To[r]] = Append(@, draft[To[r]])]
           /\ draft' = [draft EXCEPT ![To[r]] = <<>>] /\ Goes(r, "confirm")
  <2>1. /\ chat[To[r]] \in Seq(Seq(Pieces)) /\ <<r>> \in Seq(Pieces)
        /\ chat'[To[r]] = Append(chat[To[r]], <<r>>) /\ draft'[To[r]] = <<>>
        /\ \A c \in Composers \ {To[r]} : chat'[c] = chat[c] /\ draft'[c] = draft[c]
        /\ pc'[r] = "confirm"
    BY <1>2, <1>4 DEF TypeOK, Goes, Pieces
  <2> DEFINE n == Len(chat[To[r]]) + 1
  <2>2. /\ n \in DOMAIN chat'[To[r]] /\ chat'[To[r]][n] = <<r>>
        /\ \A i \in DOMAIN chat'[To[r]] : i # n => i \in DOMAIN chat[To[r]]
                                               /\ chat'[To[r]][i] = chat[To[r]][i]
    BY <2>1, SentOnce
  <2> HIDE DEF n
  <2>3. n \in Landed(r, To[r])'
    <3>1. 1 \in DOMAIN <<r>> /\ <<r>>[1] = r
      OBVIOUS
    <3> QED BY <2>2, <3>1 DEF Landed
  <2>4. \A i \in Landed(r, To[r])' : i = n
    BY <1>2, <2>2 DEF Landed, NotInChats
  <2>5. \A c \in Composers \ {To[r]} : Landed(r, c)' = {}
    BY <1>2, <2>1 DEF Landed, NotInChats
  <2>6. OnItsOwn(r)'
    <3>1. Landed(r, To[r])' = {n}
      BY <2>3, <2>4
    <3> QED BY <2>2, <2>3, <2>5, <3>1 DEF OnItsOwn
  <2>7. \A c \in Composers : ~InDraft(r, c)'
    BY <1>2, <2>1, EmptySeq DEF InDraft
  <2> QED BY <1>1, <1>2, <2>1, <2>6, <2>7 DEF OnItsPath, TypedWhole, SentWhole, Here, Win
<1> QED BY <1>2, <1>3, <1>4 DEF Submit, Event

LEMMA ConfirmKeepsPath ==
  ASSUME DataInv, Next, NEW r \in Requests, r \notin disturbed' \cup cached',
         "dialog" \notin happened', Confirm(r)
  PROVE  OnItsPath(r)' /\ TypedWhole(r)' /\ SentWhole(r)'
<1> USE DEF DataInv, ControlInv
<1>1. /\ r \notin disturbed /\ OnItsPath(r) /\ SentWhole(r) /\ pc[r] = "confirm"
      /\ "dialog" \notin happened /\ win[r] \in Win
  BY PathBefore DEF Confirm, OnItsPath, InPage
<1>2. \A c \in Composers : Kept(c)
  BY <1>1, AnswerIdle DEF Confirm
<1>3. pc'[r] \in {"failed", "find", "ok"}
  BY DEF Confirm, Throws, EndsAs, TypeOK
<1>4. OnItsOwn(r) /\ \A c \in Composers : ~InDraft(r, c)
  BY <1>1 DEF SentWhole
<1>5. OnItsOwn(r)' /\ \A c \in Composers : ~InDraft(r, c)'
  <2>1. \A c \in Composers : chat'[c] = chat[c] /\ draft'[c] = draft[c]
    BY <1>2 DEF Kept
  <2>2. To[r] \in Composers
    BY RouteAssumption
  <2> QED BY <1>4, <2>1, <2>2 DEF OnItsOwn, Landed, InDraft
<1> QED BY <1>3, <1>5 DEF OnItsPath, TypedWhole, SentWhole, InPage

LEMMA NextKeepsPathInv == DataInv /\ [Next]_vars => PathInv'
<1> SUFFICES ASSUME DataInv, [Next]_vars, "dialog" \notin happened',
                    NEW r \in Requests, r \notin disturbed' \cup cached'
             PROVE  OnItsPath(r)' /\ TypedWhole(r)' /\ SentWhole(r)'
  BY DEF PathInv, OnItsPath, TypedWhole, SentWhole
<1>1. CASE UNCHANGED vars
  <2>1. OnItsPath(r) /\ TypedWhole(r) /\ SentWhole(r)
    BY <1>1, PathParts DEF DataInv, vars
  <2> QED BY <1>1, <2>1 DEF vars, ide, OnItsPath, TypedWhole, SentWhole, Here, Win, NotInChats,
                            OnItsOwn, Landed, InDraft
<1>2. CASE Next
  <2>1. CASE Others(r)
    BY <1>2, <2>1, OthersKeepPath
  <2>2. CASE Accept(r) \/ Fails(r) \/ Step(r)
    BY <1>2, <2>2, FindKeepsPath, PageKeepsPath, InsertKeepsPath, SubmitKeepsPath,
       ConfirmKeepsPath DEF Step
  <2> QED BY <1>2, <2>1, <2>2 DEF Next, Others, Around
<1> QED BY <1>1, <1>2

------------------------------------------------------------------------------
(* What is reported as sent, and what a person has typed *)

LEMMA DataAlways == Spec => []DataInv
<1>1. Init => DataInv
  <2> SUFFICES ASSUME Init PROVE DataInv
    OBVIOUS
  <2>1. ControlInv
    BY InitControl
  <2>2. DialogInv
    BY DEF Init, DialogInv, NoDialog
  <2>3. UntypedInv
    <3>1. \A c \in Composers : DOMAIN chat[c] = {} /\ DOMAIN draft[c] = {}
      <4>1. DOMAIN <<>> = {}
        OBVIOUS
      <4> QED BY <4>1 DEF Init
    <3> QED BY <3>1 DEF UntypedInv, Nowhere, NotInChats, Landed, InDraft
  <2>4. InputInv /\ PathInv
    BY DEF Init, InputInv, PathInv, InPage
  <2> QED BY <2>1, <2>2, <2>3, <2>4 DEF DataInv
<1>2. DataInv /\ [Next]_vars => DataInv'
  <2> SUFFICES ASSUME DataInv, [Next]_vars PROVE DataInv'
    OBVIOUS
  <2>1. TypeOK
    BY DEF DataInv, ControlInv
  <2> QED BY <2>1, NextControl, NextKeepsDialogInv, NextKeepsUntypedInv, NextKeepsInputInv,
             NextKeepsPathInv DEF DataInv
<1> QED BY <1>1, <1>2, PTL DEF Spec

(***************************************************************************)
(* What is reported as sent is a message of its own in the chat it was      *)
(* meant for, once, and in no other chat, unless others changed its window  *)
(* or its input, Cursor asked about it or its window came from the cache.   *)
(* The argument follows the prompt: nowhere until it is typed; typed into   *)
(* the input of its composer alone, for the window is looked at again after *)
(* the last switch; sent from there once, and never typed again.            *)
(***************************************************************************)
THEOREM SentIsLanded == Spec => []AckedLanded
<1>1. DataInv => AckedLanded
  BY PathParts DEF DataInv, AckedLanded, SentWhole, OnItsOwn
<1> QED BY <1>1, DataAlways, PTL

\* The steps that change an input a person began.
PersonsStep(c) ==
  \/ draft'[c] # <<>> /\ draft'[c][1] = Person
  \/ chat'[c] = Append(chat[c], draft[c]) /\ (disturbed' # {} \/ "dialog" \in happened)
  \/ \E r \in disturbed : pc[r] = "clear" /\ pc'[r] = "refocus"

LEMMA DraftOfAPerson ==
  ASSUME DataInv, Next, NEW c \in Composers, draft[c] # <<>>, draft[c][1] = Person
  PROVE  PersonsStep(c)
<1> USE DEF DataInv, ControlInv
<1>1. /\ draft[c] \in Seq(Pieces) /\ Person \in Pieces /\ Person \notin Requests
      /\ Requests \subseteq Pieces /\ Person \notin Marked
  BY RouteAssumption DEF TypeOK, Pieces
<1>2. CASE Kept(c)
  BY <1>2 DEF Kept, PersonsStep
<1>3. CASE Typed(c)
  BY <1>1, <1>3, AppendStarts DEF Typed, PersonsStep
<1>4. CASE Filled(c)
  BY <1>1, <1>4, AppendStarts DEF Filled, PersonsStep
<1>5. CASE Emptied(c)
  <2>1. PICK r \in Requests : Clear(r) /\ Here(r) = c
    BY <1>5 DEF Emptied
  <2>2. pc[r] = "clear" /\ pc'[r] = "refocus"
    BY <2>1 DEF Clear, Goes, TypeOK
  <2>3. r \in disturbed
    BY <1>1, <2>1, <2>2 DEF InputInv
  <2> QED BY <2>2, <2>3 DEF PersonsStep
<1>6. CASE Sent(c)
  <2>1. chat'[c] = Append(chat[c], draft[c]) /\ draft'[c] # draft[c]
    BY <1>6 DEF Sent
  <2>2. CASE "dialog" \in happened
    BY <2>1, <2>2 DEF PersonsStep
  <2>3. ASSUME "dialog" \notin happened, NEW r \in Requests, Step(r)
        PROVE  disturbed' # {}
    <3>1. CASE DismissModals(r) \/ Page(r) \/ Refocus(r) \/ Confirm(r)
      <4>1. win[r] \in Win \/ DismissModals(r)
        BY <3>1 DEF Page, Refocus, Confirm, There, Opened
      <4>2. Kept(c)
        BY <2>3, <3>1, <4>1, AnswerIdle DEF DismissModals, Page, Refocus, Confirm
      <4> QED BY <2>1, <4>2 DEF Kept
    <3>2. CASE Submit(r)
      <4>1. Here(r) = c
        BY <2>1, <3>2 DEF Submit, TypeOK
      <4>2. r \in disturbed
        BY <1>1, <3>2, <4>1 DEF Submit, InputInv
      <4> QED BY <2>3, <4>2, Happenings
    <3>3. CASE Clear(r) \/ Insert(r)
      <4>1. chat'[c] = chat[c]
        BY <3>3 DEF Clear, Insert
      <4>2. Append(chat[c], draft[c]) # chat[c]
        <5>1. chat[c] \in Seq(Seq(Pieces))
          BY DEF TypeOK
        <5> QED BY <1>1, <5>1, SentOnce
      <4> QED BY <2>1, <4>1, <4>2
    <3>4. CASE UNCHANGED draft
      BY <2>1, <3>4
    <3> QED BY <2>3, <3>1, <3>2, <3>3, <3>4
            DEF Step, Find, UseCache, Switch, AssertMatches, Pick, Stranded, ide
  <2>4. ASSUME NEW w \in Win, Types(w) PROVE FALSE
    <3>1. chat'[c] = chat[c]
      BY <2>4 DEF Types
    <3>2. Append(chat[c], draft[c]) # chat[c]
      <4>1. chat[c] \in Seq(Seq(Pieces))
        BY DEF TypeOK
      <4> QED BY <1>1, <4>1, SentOnce
    <3> QED BY <2>1, <3>1, <3>2
  <2>5. ~ UNCHANGED draft
    BY <2>1
  <2>6. (\E r \in Requests : Step(r)) \/ (\E w \in Win : Types(w))
    BY <2>5 DEF Next, Accept, Fails, Release, Forget, CacheExpires, TurnEnds, Moves, ide
  <2> QED BY <2>1, <2>2, <2>3, <2>4, <2>6 DEF PersonsStep
<1> QED BY <1>2, <1>3, <1>4, <1>5, <1>6, InputEffect

(***************************************************************************)
(* A draft that a person began is not deleted by the code: it is sent off   *)
(* along with what was being typed into the same input, or cleared by a     *)
(* request that was disturbed after it looked at the input.                 *)
(***************************************************************************)
THEOREM PersonsDraftIsKept == Spec => PersonsDraftKept
<1>1. DataInv /\ [Next]_vars =>
        [\A c \in Composers :
           draft[c] # <<>> /\ draft[c][1] = Person =>
             \/ draft'[c] # <<>> /\ draft'[c][1] = Person
             \/ chat'[c] = Append(chat[c], draft[c]) /\ (disturbed' # {} \/ "dialog" \in happened)
             \/ \E r \in disturbed : pc[r] = "clear" /\ pc'[r] = "refocus"]_vars
  BY DraftOfAPerson DEF PersonsStep
<1> QED BY <1>1, DataAlways, PTL DEF Spec, PersonsDraftKept
=============================================================================
