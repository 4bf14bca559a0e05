----------------------------- MODULE ServerProofs -----------------------------
(***************************************************************************)
(* Proofs about the parts of MCServer, each for every number of chats,      *)
(* requests, turns and faults.                                              *)
(***************************************************************************)
EXTENDS MCServer, TLAPS, FiniteSetTheorems, SequenceTheorems, WellFoundedInduction

\* A step of the whole is a step of each part, or leaves it alone.
LEMMA PartSteps ==
  [ServerNext]_allVars =>
    /\ [Next]_viewVars /\ [Am!Next]_agentVars /\ [Cs!Next]_storeVars
    /\ [At!Next]_tokenVars /\ [Sr!Next]_stepVars /\ [Wi!Next]_probeVars
BY DEF ServerNext, allVars

------------------------------------------------------------------------------
(* The chat view *)

\* At most one feed; a stream is of the chat that is selected.
FeedInv ==
  \/ feeds = <<>>
  \/ feeds = <<Poll>>
  \/ feeds = <<Stream(selected)>>

\* The poll that takes over from a broken stream is alone.
LEMMA BrokenStream ==
  ASSUME FeedInv, StreamError
  PROVE  feeds' = <<Poll>>
<1>1. feeds' = Append(Polls, Poll)
  BY DEF StreamError
<1>2. feeds = <<Stream(selected)>>
  <2>1. PICK f \in ToSet(feeds) : f.kind = "stream"
    BY DEF StreamError
  <2>2. feeds # <<>> /\ feeds # <<Poll>>
    BY <2>1 DEF ToSet, Poll
  <2> QED BY <2>2 DEF FeedInv
<1>3. {i \in DOMAIN feeds : feeds[i].kind = "poll"} = {}
  BY <1>2 DEF Stream
<1>4. Cardinality({}) = 0
  BY FS_EmptySet
<1>5. Polls = [i \in 1..0 |-> Poll]
  BY <1>3, <1>4 DEF Polls
<1>6. Append(Polls, Poll) = <<Poll>>
  BY <1>5
<1> QED BY <1>1, <1>6

LEMMA FeedStep == FeedInv /\ [Next]_viewVars => FeedInv'
<1> SUFFICES ASSUME FeedInv, [Next]_viewVars PROVE FeedInv'
  OBVIOUS
<1>1. CASE UNCHANGED <<feeds, selected>>
  BY <1>1 DEF FeedInv, Stream, Poll
<1>2. CASE feeds' = Started(selected) /\ selected' = selected
  BY <1>2 DEF FeedInv, Started, Stream, Poll
<1>3. CASE feeds' = Halted
  BY <1>3 DEF FeedInv, Halted
<1>4. CASE StreamError
  BY <1>4, BrokenStream DEF FeedInv
<1>5. CASE UNCHANGED viewVars
  BY <1>5, <1>1 DEF viewVars, vars
<1>6. CASE Snapshot \/ Refresh \/ \E s \in snaps : Deliver(s)
  BY <1>6, <1>1 DEF Snapshot, Refresh, Deliver
<1>7. CASE Submit \/ \E c \in Composers : OpenChat(c)
  BY <1>7, <1>3 DEF Submit, OpenChat, Halt
<1>8. CASE Refused
  BY <1>8, <1>2 DEF Refused, Start
<1>9. CASE \E r \in chats : ReadChat(r)
  BY <1>9, <1>1 DEF ReadChat
<1>10. CASE \E r \in chats : Arrive(r)
  BY <1>10, <1>1, <1>2 DEF Arrive, OpenEnds, Start
<1>11. CASE \E r \in chats : Fail(r)
  BY <1>11, <1>1, <1>2 DEF Fail, OpenEnds, Start
<1>12. CASE \E c \in Composers : TurnStarts(c) \/ TurnEnds(c)
  BY <1>12, <1>1 DEF TurnStarts, TurnEnds
<1> QED BY <1>4, <1>5, <1>6, <1>7, <1>8, <1>9, <1>10, <1>11, <1>12 DEF Next

(***************************************************************************)
(* The browser has one feed at most, of the chat that is selected if it is  *)
(* a stream, however openings, answers, sends and errors overlap: whoever   *)
(* starts a feed halts the one there is, and with no feed to halt none was   *)
(* left running.                                                            *)
(***************************************************************************)
THEOREM OneFeedAlways == ServerSpec => []OneFeed
<1>1. ServerInit => FeedInv
  BY DEF ServerInit, Init, FeedInv
<1>2. FeedInv /\ [ServerNext]_allVars => FeedInv'
  BY FeedStep, PartSteps
<1>3. FeedInv => OneFeed
  <2>1. CASE feeds = <<>>
    BY <2>1 DEF OneFeed, ToSet
  <2>2. ASSUME NEW f, feeds = <<f>>, f.kind = "stream" => f.of = selected
        PROVE  OneFeed
    <3>1. Len(feeds) = 1 /\ \A g \in ToSet(feeds) : g = f
      BY <2>2 DEF ToSet
    <3> QED BY <2>2, <3>1 DEF OneFeed
  <2>3. Stream(selected).of = selected /\ Poll.kind # "stream"
    BY DEF Stream, Poll
  <2> QED BY <2>1, <2>2, <2>3 DEF FeedInv
<1> QED BY <1>1, <1>2, <1>3, PTL DEF ServerSpec
\* What the requests and the snapshots under way are.
ChatRequest == [n : Ids, of : Composers, why : {"open", "catchup", "refresh"},
                phase : {"asked", "read"}, ver : 0..MaxTurns, busy : BOOLEAN]
SnapRequest == [n : Ids, of : Composers \cup {None}, busy : BOOLEAN, via : {"stream", "tick"}]

ViewCore ==
  /\ busy \in [Composers -> BOOLEAN] /\ ver \in [Composers -> 0..MaxTurns]
  /\ selected \in Composers \cup {None}
  /\ agent \in {"none", "busy", "idle"}
  /\ msgs \in [ver : 0..MaxTurns, busy : BOOLEAN, sig : BOOLEAN]
  /\ shown \in Composers \cup {"loading", None}
  /\ chats \subseteq ChatRequest /\ snaps \subseteq SnapRequest
  /\ sending \in BOOLEAN
  /\ \A c \in Composers : busy[c] => ver[c] < MaxTurns

ViewInv ==
  /\ ViewCore /\ FeedInv
  /\ usePoll => feeds = <<>> \/ feeds = <<Poll>>
  /\ chats # {} => selected # None

LEMMA ViewTypes == ViewInv => TypeOK
<1> SUFFICES ASSUME ViewInv PROVE TypeOK
  OBVIOUS
<1>1. \A f \in ToSet(feeds) : f = Poll \/ f = Stream(selected)
  BY DEF ViewInv, FeedInv, ToSet
<1>2. usePoll => \A f \in ToSet(feeds) : f = Poll
  BY DEF ViewInv, ToSet
<1> QED BY <1>1, <1>2 DEF ViewInv, ViewCore, TypeOK, ChatRequest, SnapRequest

LEMMA AskType ==
  ASSUME chats \subseteq ChatRequest, NEW c \in Composers,
         NEW why \in {"open", "catchup", "refresh"}, Ask(c, why, chats)
  PROVE  chats' \subseteq ChatRequest
<1>1. PICK n \in FreeIds(chats) :
        chats' = chats \cup {[n |-> n, of |-> c, why |-> why, phase |-> "asked", ver |-> 0, busy |-> FALSE]}
  BY DEF Ask
<1>2. n \in Ids /\ 0 \in 0..MaxTurns
  BY PartsAssumption DEF FreeIds, ViewAssumption
<1>3. [n |-> n, of |-> c, why |-> why, phase |-> "asked", ver |-> 0, busy |-> FALSE] \in ChatRequest
  BY <1>2 DEF ChatRequest
<1> QED BY <1>1, <1>3

LEMMA ViewStep == ViewInv /\ [Next]_viewVars => ViewInv'
<1> SUFFICES ASSUME ViewInv, [Next]_viewVars PROVE ViewInv'
  OBVIOUS
<1> USE DEF ViewCore, ide
<1>1. FeedInv'
  BY FeedStep DEF ViewInv
<1>2. ViewCore /\ (chats # {} => selected # None) /\ (usePoll => feeds = <<>> \/ feeds = <<Poll>>)
  BY DEF ViewInv
<1>3. None \notin Composers /\ MaxTurns \in Nat
  BY PartsAssumption DEF ViewAssumption
<1> SUFFICES /\ ViewCore'
             /\ chats' # {} => selected' # None
             /\ usePoll' => feeds' = <<>> \/ feeds' = <<Poll>>
  BY <1>1 DEF ViewInv
<1>4. CASE UNCHANGED viewVars
  BY <1>2, <1>4 DEF viewVars, vars
<1>5. CASE StreamError
  <2>1. feeds' = <<Poll>>
    BY <1>5, BrokenStream DEF ViewInv
  <2> QED BY <1>2, <1>5, <2>1 DEF StreamError, Undelivered
<1>6. CASE Snapshot
  <2>1. PICK f \in ToSet(feeds), n \in FreeIds(snaps) :
          \E c \in Composers \cup {None} :
            snaps' = snaps \cup
              {[n |-> n, of |-> c, busy |-> BusyOf(c), via |-> IF f.kind = "stream" THEN "stream" ELSE "tick"]}
    <3>1. PICK f \in ToSet(feeds), n \in FreeIds(snaps) :
            LET c == IF f.kind = "stream" THEN f.of ELSE selected IN
              snaps' = snaps \cup
                {[n |-> n, of |-> c, busy |-> BusyOf(c), via |-> IF f.kind = "stream" THEN "stream" ELSE "tick"]}
      BY <1>6 DEF Snapshot
    <3>2. f.kind = "stream" => f.of = selected
      BY DEF ViewInv, FeedInv, ToSet, Stream, Poll
    <3> QED BY <1>2, <3>1, <3>2
  <2>2. \A c \in Composers \cup {None} : BusyOf(c) \in BOOLEAN
    BY <1>2 DEF BusyOf
  <2>3. snaps' \subseteq SnapRequest
    BY <1>2, <2>1, <2>2 DEF FreeIds, SnapRequest
  <2> QED BY <1>2, <1>6, <2>3 DEF Snapshot
<1>7. ASSUME NEW s \in snaps, Deliver(s)
      PROVE  ViewCore' /\ (chats' # {} => selected' # None) /\ (usePoll' => feeds' = <<>> \/ feeds' = <<Poll>>)
  <2>1. chats' \subseteq ChatRequest /\ (chats' # {} => selected' # None)
    <3>1. CASE UNCHANGED chats
      BY <1>2, <1>7, <3>1 DEF Deliver
    <3>2. CASE selected # None /\ Ask(selected, "catchup", chats)
      BY <1>2, <1>7, <3>2, AskType DEF Deliver
    <3> QED BY <1>7, <3>1, <3>2 DEF Deliver
  <2>2. agent' \in {"none", "busy", "idle"}
    BY <1>7 DEF Deliver, State
  <2> QED BY <1>2, <1>7, <2>1, <2>2 DEF Deliver
<1>8. ASSUME NEW c \in Composers, OpenChat(c)
      PROVE  ViewCore' /\ (chats' # {} => selected' # None) /\ (usePoll' => feeds' = <<>> \/ feeds' = <<Poll>>)
  <2>1. chats' \subseteq ChatRequest
    BY <1>2, <1>8, AskType DEF OpenChat
  <2>2. NoMsgs \in [ver : 0..MaxTurns, busy : BOOLEAN, sig : BOOLEAN]
    BY <1>3 DEF NoMsgs
  <2> QED BY <1>2, <1>3, <1>8, <2>1, <2>2 DEF OpenChat, Halt, Halted, Undelivered
<1>9. CASE Refresh
  <2>1. chats' \subseteq ChatRequest
    BY <1>2, <1>9, AskType DEF Refresh
  <2> QED BY <1>2, <1>9, <2>1 DEF Refresh
<1>10. ASSUME NEW r \in chats, ReadChat(r)
       PROVE  ViewCore' /\ (chats' # {} => selected' # None) /\ (usePoll' => feeds' = <<>> \/ feeds' = <<Poll>>)
  <2>1. chats' = (chats \ {r}) \cup {[r EXCEPT !.phase = "read", !.ver = ver[r.of], !.busy = busy[r.of]]}
    BY <1>10 DEF ReadChat
  <2>2. r \in ChatRequest /\ r.of \in Composers
    BY <1>2 DEF ChatRequest
  <2>3. ver[r.of] \in 0..MaxTurns /\ busy[r.of] \in BOOLEAN
    BY <1>2, <2>2
  <2>4. [r EXCEPT !.phase = "read", !.ver = ver[r.of], !.busy = busy[r.of]] \in ChatRequest
    BY <2>2, <2>3 DEF ChatRequest
  <2>5. chats' \subseteq ChatRequest
    BY <1>2, <2>1, <2>4
  <2> QED BY <1>2, <1>10, <2>5 DEF ReadChat
<1>11. ASSUME NEW r \in chats, Arrive(r)
       PROVE  ViewCore' /\ (chats' # {} => selected' # None) /\ (usePoll' => feeds' = <<>> \/ feeds' = <<Poll>>)
  <2>1. r \in ChatRequest
    BY <1>2
  <2>2. r.of \in Composers /\ r.ver \in 0..MaxTurns /\ r.busy \in BOOLEAN
    BY <2>1 DEF ChatRequest
  <2>3. \A b : b = (r.busy \/ busy[r.of]) =>
          /\ [ver |-> r.ver, busy |-> b, sig |-> TRUE] \in [ver : 0..MaxTurns, busy : BOOLEAN, sig : BOOLEAN]
          /\ State(b) \in {"none", "busy", "idle"}
    <3>1. (r.busy \/ busy[r.of]) \in BOOLEAN
      BY <1>2, <2>2
    <3> QED BY <2>2, <3>1 DEF State
  <2>4. msgs' \in [ver : 0..MaxTurns, busy : BOOLEAN, sig : BOOLEAN] /\ agent' \in {"none", "busy", "idle"}
    <3>1. PICK b : /\ b = (r.busy \/ busy[r.of])
                   /\ \/ UNCHANGED <<agent, msgs>>
                      \/ msgs' = [ver |-> r.ver, busy |-> b, sig |-> TRUE] /\ agent' = State(b)
      BY <1>11 DEF Arrive
    <3> QED BY <1>2, <2>3, <3>1
  <2>5. /\ shown' \in Composers \cup {"loading", None} /\ snaps' \subseteq SnapRequest
        /\ usePoll' => feeds' = <<>> \/ feeds' = <<Poll>>
    BY <1>2, <1>11, <2>2 DEF Arrive, OpenEnds, Start, Started, Undelivered
  <2> QED BY <1>2, <1>11, <2>4, <2>5 DEF Arrive
<1>12. ASSUME NEW r \in chats, Fail(r)
       PROVE  ViewCore' /\ (chats' # {} => selected' # None) /\ (usePoll' => feeds' = <<>> \/ feeds' = <<Poll>>)
  BY <1>2, <1>12 DEF Fail, OpenEnds, Start, Started, Undelivered
<1>13. CASE Submit
  BY <1>2, <1>13 DEF Submit, Halt, Halted, Undelivered
<1>14. CASE Refused
  BY <1>2, <1>14 DEF Refused, Start, Started, Undelivered
<1>15. ASSUME NEW c \in Composers, TurnStarts(c)
       PROVE  ViewCore' /\ (chats' # {} => selected' # None) /\ (usePoll' => feeds' = <<>> \/ feeds' = <<Poll>>)
  BY <1>2, <1>15 DEF TurnStarts
<1>16. ASSUME NEW c \in Composers, TurnEnds(c)
       PROVE  ViewCore' /\ (chats' # {} => selected' # None) /\ (usePoll' => feeds' = <<>> \/ feeds' = <<Poll>>)
  <2>1. ver[c] \in 0..MaxTurns /\ ver[c] < MaxTurns
    BY <1>2, <1>16 DEF TurnEnds
  <2>2. ver[c] + 1 \in 0..MaxTurns
    BY <1>3, <2>1
  <2>3. busy' \in [Composers -> BOOLEAN] /\ ver' \in [Composers -> 0..MaxTurns]
    BY <1>2, <1>16, <2>2 DEF TurnEnds
  <2>4. \A d \in Composers : busy'[d] => ver'[d] < MaxTurns
    BY <1>2, <1>16 DEF TurnEnds
  <2> QED BY <1>2, <1>16, <2>3, <2>4 DEF TurnEnds
<1> QED BY <1>4, <1>5, <1>6, <1>7, <1>8, <1>9, <1>10, <1>11, <1>12, <1>13, <1>14, <1>15, <1>16 DEF Next

LEMMA ViewInitial == Init => ViewInv
<1> SUFFICES ASSUME Init PROVE ViewInv
  OBVIOUS
<1>1. 0 \in 0..MaxTurns
  BY PartsAssumption DEF ViewAssumption
<1> QED BY <1>1 DEF Init, ViewInv, ViewCore, FeedInv, NoMsgs

(***************************************************************************)
(* What a busy snapshot of the selected chat has shown is still being asked *)
(* for by a request that loads what it gets.  A refresh is not enough: it   *)
(* leaves the store alone when nothing seems new.                           *)
(***************************************************************************)
CatchInv ==
  /\ owed => selected # None /\ agent # "none"
  /\ chats # {} => selected # None
  /\ owed /\ agent = "idle" /\ ~ excused =>
       \E r \in chats : r.of = selected /\ r.why # "refresh"

LEMMA CatchStep == ViewInv /\ CatchInv /\ [Next]_viewVars => CatchInv'
<1> SUFFICES ASSUME ViewInv, CatchInv, [Next]_viewVars PROVE CatchInv'
  OBVIOUS
<1>0. agent \in {"none", "busy", "idle"} /\ chats \subseteq ChatRequest
  BY DEF ViewInv, ViewCore
<1> DEFINE Asked == \E r \in chats : r.of = selected /\ r.why # "refresh"
<1>1. CASE UNCHANGED <<selected, agent, owed, excused, chats>>
  BY <1>1 DEF CatchInv
<1>2. CASE Refresh
  BY <1>2 DEF Refresh, Ask, CatchInv
<1>3. ASSUME NEW s \in snaps, Deliver(s) PROVE CatchInv'
  <2> USE <1>3 DEF Deliver
  <2>1. chats \subseteq chats' /\ selected' = selected /\ excused' = excused
    BY DEF Ask
  <2>2. owed' => selected' # None /\ agent' # "none"
    BY DEF CatchInv, State
  <2>3. chats' # {} => selected' # None
    BY DEF Ask, CatchInv
  <2>4. ASSUME owed', agent' = "idle", ~ excused' PROVE Asked'
    <3>1. ~ s.busy /\ owed
      BY <2>4 DEF State
    <3>2. CASE agent = "idle"
      BY <2>1, <2>4, <3>1, <3>2 DEF CatchInv
    <3>3. CASE agent = "busy"
      <4>1. Ask(selected, "catchup", chats)
        BY <2>1, <2>2, <2>4, <3>3 DEF TurnOver
      <4>2. PICK n \in FreeIds(chats) :
              chats' = chats \cup {[n |-> n, of |-> selected, why |-> "catchup",
                                    phase |-> "asked", ver |-> 0, busy |-> FALSE]}
        BY <4>1 DEF Ask
      <4> DEFINE q == [n |-> n, of |-> selected, why |-> "catchup",
                       phase |-> "asked", ver |-> 0, busy |-> FALSE]
      <4>3. q \in chats' /\ q.of = selected /\ q.why # "refresh"
        BY <4>2
      <4> HIDE DEF q
      <4> QED BY <2>1, <4>3
    <3> QED BY <1>0, <3>1, <3>2, <3>3 DEF CatchInv
  <2> QED BY <2>2, <2>3, <2>4 DEF CatchInv
<1>4. ASSUME NEW c \in Composers, OpenChat(c) PROVE CatchInv'
  <2>1. selected' = c /\ c # None /\ owed' = FALSE
    BY <1>4, PartsAssumption DEF OpenChat, ViewAssumption
  <2> QED BY <2>1 DEF CatchInv
<1>5. ASSUME NEW r \in chats, ReadChat(r) PROVE CatchInv'
  <2>1. PICK q : /\ chats' = (chats \ {r}) \cup {q}
                 /\ q = [r EXCEPT !.phase = "read", !.ver = ver[r.of], !.busy = busy[r.of]]
    BY <1>5 DEF ReadChat
  <2>2. q.of = r.of /\ q.why = r.why
    BY <1>0, <2>1 DEF ChatRequest
  <2> QED BY <1>5, <2>1, <2>2 DEF ReadChat, CatchInv
<1>6. ASSUME NEW r \in chats, Arrive(r) PROVE CatchInv'
  BY <1>6 DEF Arrive, CatchInv, State
<1>7. ASSUME NEW r \in chats, Fail(r) PROVE CatchInv'
  BY <1>7 DEF Fail, CatchInv
<1>8. CASE UNCHANGED viewVars
  BY <1>8, <1>1 DEF viewVars, vars
<1>9. CASE StreamError \/ Snapshot \/ Submit \/ Refused \/ \E c \in Composers : TurnStarts(c) \/ TurnEnds(c)
  BY <1>9, <1>1 DEF StreamError, Snapshot, Submit, Refused, TurnStarts, TurnEnds
<1> QED BY <1>2, <1>3, <1>4, <1>5, <1>6, <1>7, <1>8, <1>9 DEF Next

(***************************************************************************)
(* A turn that a snapshot has shown is caught up with, unless an answer     *)
(* failed, was of another chat, or was overtaken by a turn: the request that *)
(* catches up stays under way until an answer brings the turn, says that the *)
(* agent works again, or is one of the three.                                 *)
(***************************************************************************)
THEOREM TurnsAreCaughtUp == ServerSpec => []CaughtUp
<1>1. ServerInit => ViewInv /\ CatchInv
  BY ViewInitial DEF ServerInit, Init, CatchInv
<1>2. ViewInv /\ CatchInv /\ [ServerNext]_allVars => ViewInv' /\ CatchInv'
  BY ViewStep, CatchStep, PartSteps
<1>3. CatchInv => CaughtUp
  BY DEF CatchInv, CaughtUp
<1> QED BY <1>1, <1>2, <1>3, PTL DEF ServerSpec

------------------------------------------------------------------------------
(* The tokens of the agents *)

\* Where a token was taken was right then, and its owner stays who it is.
RouteInv ==
  routed # None =>
    /\ owner[routed.token] # None
    /\ owner[routed.token] \in routed.held => routed.to = owner[routed.token]
    /\ routed.to \in routed.held \cup routed.bound

LEMMA TargetIs ==
  ASSUME NEW p, NEW t, NEW c \in At!Target(p, t)
  PROVE  /\ c \in At!Holders(t) \cup At!Bound(p, t)
         /\ \A o \in At!Holders(t) : c = o
<1>1. CASE At!Holders(t) = {}
  BY <1>1 DEF At!Target
<1>2. CASE At!Holders(t) # {}
  <2>1. At!Cardinality(At!Holders(t)) = 1 /\ c \in At!Holders(t)
    BY <1>2 DEF At!Target
  <2>2. Cardinality(At!Holders(t)) = 1
    BY <2>1 DEF At!Cardinality, Cardinality
  <2>3. IsFiniteSet(At!Holders(t))
    <3>1. At!Holders(t) \subseteq {"a", "b", "c"}
      BY DEF At!Holders
    <3>2. IsFiniteSet({"a", "b", "c"})
      <4>1. IsFiniteSet({"a"}) /\ {"a", "b"} = {"a"} \cup {"b"} /\ {"a", "b", "c"} = {"a", "b"} \cup {"c"}
        BY FS_Singleton
      <4>2. IsFiniteSet({"a", "b"})
        BY <4>1, FS_AddElement
      <4> QED BY <4>1, <4>2, FS_AddElement
    <3> QED BY <3>1, <3>2, FS_Subset
  <2>4. PICK o : At!Holders(t) = {o}
    BY <2>2, <2>3, FS_Singleton
  <2> QED BY <2>1, <2>4
<1> QED BY <1>1, <1>2

LEMMA RouteStep == RouteInv /\ [At!Next]_tokenVars => RouteInv'
<1> SUFFICES ASSUME RouteInv, [At!Next]_tokenVars PROVE RouteInv'
  OBVIOUS
<1>1. CASE UNCHANGED <<owner, routed>>
  BY <1>1 DEF RouteInv
<1>2. ASSUME NEW p \in At!Processes, NEW t \in Tokens, NEW c \in {"a", "b", "c"},
             NEW isTold \in BOOLEAN, At!registerAgentToken(p, t, c, isTold)
      PROVE  RouteInv'
  <2>1. owner[t] = None /\ owner' = [owner EXCEPT ![t] = c] /\ routed' = routed
    BY <1>2 DEF At!registerAgentToken
  <2>2. routed # None => routed.token # t /\ owner'[routed.token] = owner[routed.token]
    BY <2>1 DEF RouteInv
  <2> QED BY <2>1, <2>2 DEF RouteInv
<1>3. ASSUME NEW p \in At!Processes, NEW t \in Tokens, At!resolveSendTarget(p, t)
      PROVE  RouteInv'
  <2>1. PICK c \in At!Target(p, t) :
          routed' = [token |-> t, to |-> c, held |-> At!Holders(t), bound |-> At!Bound(p, t)]
    BY <1>3 DEF At!resolveSendTarget
  <2>2. owner[t] # None /\ owner' = owner
    BY <1>3 DEF At!resolveSendTarget
  <2> QED BY <2>1, <2>2, TargetIs DEF RouteInv
<1>4. CASE \E p \in At!Processes, t \in Tokens : At!handleTool(p, t)
  BY <1>1, <1>2, <1>3, <1>4 DEF At!handleTool, At!mcpEnqueueTask
<1>5. CASE \E t \in Tokens : At!Written(t)
  BY <1>1, <1>5 DEF At!Written
<1>6. CASE \E c, d \in {"a", "b", "c"} : At!Duplicate(c, d)
  BY <1>1, <1>6 DEF At!Duplicate
<1>7. CASE (\E c \in {"a", "b", "c"} : At!Revert(c)) \/ \E p \in At!Processes : At!Restart(p)
  BY <1>1, <1>7 DEF At!Revert, At!Restart
<1>8. CASE UNCHANGED tokenVars
  BY <1>1, <1>8 DEF tokenVars
<1> QED BY <1>4, <1>5, <1>6, <1>7, <1>8 DEF At!Next

(***************************************************************************)
(* A token found in the chat of the agent that registered it leads to that  *)
(* chat or nowhere, whatever any process noted and however chats are copied, *)
(* taken back and processes restarted.                                        *)
(***************************************************************************)
THEOREM TokensGoHome == ServerSpec => []TokenGoesHome
<1>1. ServerInit => RouteInv
  BY DEF ServerInit, At!Init, RouteInv
<1>2. RouteInv /\ [ServerNext]_allVars => RouteInv'
  BY RouteStep, PartSteps
<1>3. RouteInv => TokenGoesHome
  BY DEF RouteInv, TokenGoesHome, At!TokenGoesHome
<1> QED BY <1>1, <1>2, <1>3, PTL DEF ServerSpec

------------------------------------------------------------------------------
(* The reads that are kept *)

\* What a probe saw idle has been working for no longer than the probe is old.
SeenInv ==
  /\ working \in BOOLEAN /\ idleAge \in Nat
  /\ ~ working => idleAge = 0
  /\ \A a \in Askers : call[a] # None =>
       /\ call[a].wait \in 0..MaxProbe
       /\ call[a].seen # None /\ call[a].seen.ok /\ ~ call[a].seen.busy => idleAge <= call[a].wait
  /\ probed # None =>
       /\ probed.age \in Nat
       /\ probed.age < ProbeTtl /\ probed.probe.ok /\ ~ probed.probe.busy => idleAge <= probed.age + MaxProbe
  /\ Am!IdleWasSeen

\* The messages kept are no fewer than there were when they were read.
PastInv ==
  /\ messages \in Nat /\ past \in [1..MsgTtl -> Nat]
  /\ \A i \in 1..MsgTtl : past[i] <= messages
  /\ \A i, j \in 1..MsgTtl : i <= j => past[j] <= past[i]
  /\ kept # None =>
       /\ kept.age \in 0..MsgTtl /\ kept.count \in Nat
       /\ kept.age < MsgTtl => past[kept.age + 1] <= kept.count
  /\ Cs!ShowsRecent

\* The pages a question has still to look at.
Unseen == {WindowOrder[i] : i \in asked.rest}

\* What a question under way knows of the windows that have stood still.
AskedInv ==
  asked # None =>
    /\ asked.kind = "chat" => asked.chat \in {"a", "b"}
    /\ asked.kind = "active" /\ focus # None /\ focus \notin asked.changed =>
         /\ asked.window # focus => asked.score <= 8
         /\ asked.window = focus => asked.score >= 12
         /\ focus \notin Unseen \cup asked.failed /\ tab[focus] # None => asked.window = focus
    /\ asked.kind = "any" =>
         \A w \in Wi!Windows \ (Unseen \cup asked.changed \cup asked.failed) : Wi!Busy(w) => asked.busy
    /\ asked.kind = "chat" /\ asked.window # None =>
         \A w \in Wi!Windows \ asked.changed : tab[w] = asked.chat => asked.window = w

LookInv == Wi!TypeOK /\ AskedInv /\ Wi!AnswersHold

\* Of what the agents of the chat first seen have done since, nothing is missed.
SinceInv ==
  /\ before.chat # None /\ before.busy => before.chat \in running \cup ended
  /\ before.chat # None /\ before.chat \in running => before.busy \/ before.chat \in began

\* What was met all along is met now, and no look has missed it.
HeldInv ==
  /\ held => Sr!Met
  /\ attempts > 0 => ~ held

\* The verdict of a step, from the first look on.
VerdictInv ==
  /\ stage \in {"idle", "acting", "looking", "looking again", "done"}
  /\ attempts \in Nat
  /\ stage = "acting" => attempts = 0
  /\ stage \in {"acting", "looking", "looking again"} => SinceInv /\ HeldInv

LEMMA IdleWord ==
  ASSUME NEW r, NEW p, Am!Answer(r, p).phase = "idle", Am!Answer(r, p).ok
  PROVE  p.ok /\ ~ p.busy
<1>1. Am!Answer(r, p).ok = p.ok /\ Am!Answer(r, p).phase = Am!Phase(r, p)
  BY DEF Am!Answer
<1>2. Am!Phase(r, p) = "idle"
  BY <1>1
<1>3. ~ (Am!isAgentBusy(r) \/ (p.ok /\ p.busy))
  BY <1>2 DEF Am!Phase
<1> QED BY <1>1, <1>3

LEMMA SeenStep == SeenInv /\ [Am!Next]_agentVars => SeenInv'
<1> SUFFICES ASSUME SeenInv, [Am!Next]_agentVars PROVE SeenInv'
  OBVIOUS
<1>0. ProbeTtl \in Nat /\ ProbeTtl > 0 /\ MaxProbe \in Nat /\ MaxProbe > 0
  BY PartsAssumption DEF Am!LimitsAssumption
<1> USE DEF SeenInv, Am!IdleWasSeen
<1>1. CASE UNCHANGED agentVars
  BY <1>1 DEF agentVars
<1>2. ASSUME NEW a \in Askers, Am!Ask(a) PROVE SeenInv'
  <2>1. CASE Am!Usable(probed)
    <3>1. probed # None /\ probed.age < ProbeTtl /\ said' = Am!Answer(row, probed.probe)
          /\ UNCHANGED <<working, row, idleAge, probed, call>>
      BY <1>2, <2>1 DEF Am!Ask, Am!Usable
    <3>2. said'.phase = "idle" /\ said'.ok => idleAge < ProbeTtl + MaxProbe
      <4> SUFFICES ASSUME said'.phase = "idle", said'.ok PROVE idleAge < ProbeTtl + MaxProbe
        OBVIOUS
      <4>1. probed.probe.ok /\ ~ probed.probe.busy
        BY <3>1, IdleWord
      <4>2. idleAge <= probed.age + MaxProbe /\ probed.age \in Nat /\ idleAge \in Nat
        BY <3>1, <4>1
      <4> QED BY <1>0, <3>1, <4>2
    <3> QED BY <3>1, <3>2
  <2>2. CASE ~ Am!Usable(probed)
    <3>1. /\ said' = None /\ UNCHANGED <<working, row, idleAge, probed>>
          /\ call' = [call EXCEPT ![a] = [row |-> row, seen |-> None, wait |-> 0]]
      BY <1>2, <2>2 DEF Am!Ask
    <3>2. ASSUME NEW b \in Askers, call'[b] # None
          PROVE  /\ call'[b].wait \in 0..MaxProbe
                 /\ call'[b].seen # None /\ call'[b].seen.ok /\ ~ call'[b].seen.busy => idleAge <= call'[b].wait
      <4>1. CASE call'[b] = call[b]
        BY <3>2, <4>1
      <4>2. CASE call'[b] = [row |-> row, seen |-> None, wait |-> 0]
        <5>1. call'[b].wait = 0 /\ call'[b].seen = None
          BY <4>2
        <5> QED BY <1>0, <5>1
      <4> QED BY <3>1, <4>1, <4>2
    <3> QED BY <3>1, <3>2
  <2> QED BY <2>1, <2>2
<1>3. ASSUME NEW a \in Askers, Am!Look(a) PROVE SeenInv'
  <2>1. /\ said' = None /\ UNCHANGED <<working, row, idleAge, probed>> /\ call[a] # None
        /\ call' = [call EXCEPT ![a].seen = IF up THEN [ok |-> TRUE, busy |-> working] ELSE Am!Failed]
    BY <1>3 DEF Am!Look
  <2>2. ASSUME NEW b \in Askers, call'[b] # None
        PROVE  /\ call'[b].wait \in 0..MaxProbe
               /\ call'[b].seen # None /\ call'[b].seen.ok /\ ~ call'[b].seen.busy => idleAge <= call'[b].wait
    <3>1. CASE call'[b] = call[b]
      BY <2>2, <3>1
    <3>2. CASE b = a /\ call'[b] # call[b]
      <4> DEFINE look == IF up THEN [ok |-> TRUE, busy |-> working] ELSE Am!Failed
      <4>0. call' = [call EXCEPT ![a].seen = look]
        BY <2>1
      <4> HIDE DEF look
      <4>1. call'[b] = [call[b] EXCEPT !.seen = look]
        BY <3>2, <4>0
      <4> USE DEF look
      <4>2. call'[b].wait = call[b].wait /\ call[b].wait \in 0..MaxProbe
        BY <2>1, <3>2, <4>1
      <4>3. call'[b].seen = look \/ call'[b].seen = call[b].seen
        BY <4>1
      <4>4. look.ok /\ ~ look.busy => ~ working
        BY DEF Am!Failed
      <4> HIDE DEF look
      <4>5. look.ok /\ ~ look.busy => idleAge = 0
        BY <4>4
      <4> QED BY <1>0, <2>1, <3>2, <4>2, <4>3, <4>5
    <3> QED BY <2>1, <3>1, <3>2
  <2> QED BY <2>1, <2>2
<1>4. ASSUME NEW a \in Askers, NEW p, call[a] # None, Am!Arrive(a, p),
             p.ok /\ ~ p.busy => idleAge <= call[a].wait
      PROVE  SeenInv'
  <2>1. /\ probed' = [age |-> 0, probe |-> p] /\ said' = Am!Answer(call[a].row, p)
        /\ call' = [call EXCEPT ![a] = None] /\ UNCHANGED <<working, row, idleAge>>
    BY <1>4 DEF Am!Arrive, Am!Keep
  <2>2. call[a].wait \in 0..MaxProbe /\ idleAge \in Nat
    BY <1>4
  <2>3. p.ok /\ ~ p.busy => idleAge <= MaxProbe
    BY <1>0, <1>4, <2>2
  <2>4. said'.phase = "idle" /\ said'.ok => idleAge < ProbeTtl + MaxProbe
    <3> SUFFICES ASSUME said'.phase = "idle", said'.ok PROVE idleAge < ProbeTtl + MaxProbe
      OBVIOUS
    <3>1. p.ok /\ ~ p.busy
      BY <2>1, IdleWord
    <3> QED BY <1>0, <2>2, <2>3, <3>1
  <2>5. probed'.age = 0 /\ probed'.probe = p
    BY <2>1
  <2>6. probed'.age < ProbeTtl /\ probed'.probe.ok /\ ~ probed'.probe.busy => idleAge <= probed'.age + MaxProbe
    BY <1>0, <2>2, <2>3, <2>5
  <2>7. \A b \in Askers : call'[b] # None => call'[b] = call[b]
    BY <2>1
  <2> QED BY <2>1, <2>4, <2>5, <2>6, <2>7
<1>5. ASSUME NEW a \in Askers, Am!Answered(a) PROVE SeenInv'
  BY <1>4, <1>5 DEF Am!Answered
<1>6. ASSUME NEW a \in Askers, Am!Fails(a) PROVE SeenInv'
  <2>1. ~ Am!Failed.ok
    BY DEF Am!Failed
  <2> QED BY <1>4, <1>6, <2>1 DEF Am!Fails
<1>7. CASE Am!World
  <2>1. said' = None /\ UNCHANGED <<probed, call>>
    BY <1>7 DEF Am!World
  <2>2. /\ working' \in BOOLEAN /\ idleAge' \in Nat /\ idleAge' <= idleAge
        /\ ~ working' => idleAge' = 0
    <3>1. CASE UNCHANGED <<working, idleAge>>
      BY <3>1
    <3>2. CASE working' = ~ working /\ idleAge' = IF working THEN 0 ELSE idleAge
      <4>1. CASE working = TRUE
        BY <3>2, <4>1
      <4>2. CASE working = FALSE
        BY <3>2, <4>2
      <4> QED BY <4>1, <4>2
    <3> QED BY <1>7, <3>1, <3>2 DEF Am!World
  <2>3. ASSUME NEW a \in Askers, call[a] # None, call[a].seen # None, call[a].seen.ok, ~ call[a].seen.busy
        PROVE  idleAge' <= call[a].wait
    <3>1. idleAge <= call[a].wait /\ call[a].wait \in 0..MaxProbe
      BY <2>3
    <3> QED BY <1>0, <2>2, <3>1
  <2>4. ASSUME probed # None, probed.age < ProbeTtl, probed.probe.ok, ~ probed.probe.busy
        PROVE  idleAge' <= probed.age + MaxProbe
    <3>1. idleAge <= probed.age + MaxProbe /\ probed.age \in Nat
      BY <2>4
    <3> QED BY <1>0, <2>2, <3>1
  <2> QED BY <2>1, <2>2, <2>3, <2>4
<1>8. CASE Am!Elapse
  <2>1. /\ \A a \in Askers : call[a] # None => call[a].wait < MaxProbe
        /\ call' = [a \in Askers |-> IF call[a] = None THEN None ELSE [call[a] EXCEPT !.wait = @ + 1]]
        /\ probed' = IF probed = None THEN None ELSE [probed EXCEPT !.age = IF @ < ProbeTtl THEN @ + 1 ELSE @]
        /\ idleAge' = IF working THEN Am!Older(idleAge) ELSE 0
        /\ said' = None /\ working' = working
    BY <1>8 DEF Am!Elapse
  <2>2. idleAge' \in Nat /\ idleAge' <= idleAge + 1 /\ (~ working => idleAge' = 0)
    BY <1>0, <2>1 DEF Am!Older, Am!Oldest
  <2>3. ASSUME NEW a \in Askers, call'[a] # None
        PROVE  /\ call'[a].wait \in 0..MaxProbe
               /\ call'[a].seen # None /\ call'[a].seen.ok /\ ~ call'[a].seen.busy => idleAge' <= call'[a].wait
    <3>1. call[a] # None /\ call'[a] = [call[a] EXCEPT !.wait = @ + 1]
      BY <2>1, <2>3
    <3>2. call[a].wait \in 0..MaxProbe /\ call[a].wait < MaxProbe
      BY <2>1, <3>1
    <3>3. call'[a].seen = call[a].seen
      BY <3>1
    <3> QED BY <1>0, <2>2, <3>1, <3>2, <3>3
  <2>4. ASSUME probed' # None
        PROVE  /\ probed'.age \in Nat
               /\ probed'.age < ProbeTtl /\ probed'.probe.ok /\ ~ probed'.probe.busy => idleAge' <= probed'.age + MaxProbe
    <3>1. probed # None /\ probed' = [probed EXCEPT !.age = IF @ < ProbeTtl THEN @ + 1 ELSE @]
      BY <2>1, <2>4
    <3> QED BY <1>0, <2>2, <3>1
  <2> QED BY <2>1, <2>2, <2>3, <2>4
<1> QED BY <1>1, <1>2, <1>3, <1>5, <1>6, <1>7, <1>8 DEF Am!Next

LEMMA PastStep == PastInv /\ [Cs!Next]_storeVars => PastInv'
<1> SUFFICES ASSUME PastInv, [Cs!Next]_storeVars PROVE PastInv'
  OBVIOUS
<1>0. MsgTtl \in Nat /\ MsgTtl > 0 /\ MsgTtl \in 1..MsgTtl /\ 1 \in 1..MsgTtl
  <2>1. MsgTtl \in Nat \ {0}
    BY PartsAssumption DEF Cs!StoreAssumption
  <2> QED BY <2>1
<1> USE DEF PastInv, Cs!ShowsRecent
<1>1. CASE UNCHANGED storeVars
  BY <1>1 DEF storeVars
<1>2. CASE UNCHANGED <<messages, past>> /\ kept' \in {kept, None} /\ counted' = None
  BY <1>2
<1>3. ASSUME NEW fresh \in BOOLEAN, Cs!getChat(fresh) PROVE PastInv'
  <2>1. UNCHANGED <<messages, past>>
    BY <1>3 DEF Cs!getChat
  <2>2. CASE Cs!Hit(fresh)
    <3>1. kept' = kept /\ counted' = kept.count /\ kept # None /\ kept.age < MsgTtl
      BY <1>3, <2>2 DEF Cs!getChat, Cs!Hit
    <3>2. kept.age + 1 \in 1..MsgTtl /\ kept.age + 1 <= MsgTtl
      BY <1>0, <3>1
    <3>3. past[kept.age + 1] \in Nat /\ past[MsgTtl] \in Nat /\ kept.count \in Nat
          /\ past[MsgTtl] <= past[kept.age + 1] /\ past[kept.age + 1] <= kept.count
      BY <1>0, <3>1, <3>2
    <3>4. counted' >= past[MsgTtl]
      BY <3>1, <3>3
    <3> QED BY <2>1, <3>1, <3>4
  <2>3. CASE ~ Cs!Hit(fresh)
    <3>1. kept' = [age |-> 0, count |-> messages] /\ counted' = messages
      BY <1>3, <2>3 DEF Cs!getChat
    <3>2. counted' >= past[MsgTtl]
      BY <1>0, <3>1
    <3>3. kept'.age = 0 /\ kept'.count = messages
      BY <3>1
    <3>4. kept'.age \in 0..MsgTtl /\ kept'.count \in Nat /\ past[kept'.age + 1] <= kept'.count
      BY <1>0, <3>3
    <3> QED BY <2>1, <3>2, <3>4
  <2> QED BY <2>2, <2>3
<1>4. CASE Cs!refresh \/ Cs!getChats \/ Cs!Restart \/ Cs!OtherWrites
  BY <1>2, <1>4 DEF Cs!refresh, Cs!getChats, Cs!Restart, Cs!OtherWrites, Cs!chatVars
<1>5. CASE Cs!World
  <2>1. /\ counted' = None /\ UNCHANGED <<past, kept>>
        /\ messages' = messages \/ messages' = messages + 1
    BY <1>5 DEF Cs!World, Cs!chatVars
  <2>2. messages' \in Nat /\ messages <= messages'
    BY <2>1
  <2>3. \A i \in 1..MsgTtl : past[i] <= messages'
    BY <2>2
  <2> QED BY <2>1, <2>2, <2>3
<1>6. CASE Cs!Elapse
  <2>1. /\ past' = [i \in 1..MsgTtl |-> IF i = 1 THEN messages ELSE past[i - 1]]
        /\ kept' = IF kept = None THEN None ELSE [kept EXCEPT !.age = IF @ < MsgTtl THEN @ + 1 ELSE @]
        /\ counted' = None /\ messages' = messages
    BY <1>6 DEF Cs!Elapse
  <2>2. \A i \in 1..MsgTtl : i = 1 \/ (i - 1 \in 1..MsgTtl /\ past'[i] = past[i - 1])
    BY <1>0, <2>1
  <2>3. past'[1] = messages
    BY <1>0, <2>1
  <2>4. past' \in [1..MsgTtl -> Nat]
    BY <1>0, <2>1, <2>2
  <2>5. \A i \in 1..MsgTtl : past'[i] <= messages
    BY <2>2, <2>3
  <2>6. \A i, j \in 1..MsgTtl : i <= j => past'[j] <= past'[i]
    <3> SUFFICES ASSUME NEW i \in 1..MsgTtl, NEW j \in 1..MsgTtl, i <= j
                 PROVE  past'[j] <= past'[i]
      OBVIOUS
    <3>1. CASE i = 1
      BY <2>3, <2>5, <3>1
    <3>2. CASE i # 1
      <4>1. /\ i - 1 \in 1..MsgTtl /\ past'[i] = past[i - 1]
            /\ j - 1 \in 1..MsgTtl /\ past'[j] = past[j - 1]
        <5>1. j # 1
          BY <1>0, <3>2
        <5> QED BY <2>2, <3>2, <5>1
      <4>2. i - 1 <= j - 1
        BY <1>0
      <4> QED BY <4>1, <4>2
    <3> QED BY <3>1, <3>2
  <2>7. ASSUME kept' # None
        PROVE  /\ kept'.age \in 0..MsgTtl /\ kept'.count \in Nat
               /\ kept'.age < MsgTtl => past'[kept'.age + 1] <= kept'.count
    <3>1. kept # None /\ kept' = [kept EXCEPT !.age = IF @ < MsgTtl THEN @ + 1 ELSE @]
      BY <2>1, <2>7
    <3>2. kept.age \in 0..MsgTtl /\ kept.count \in Nat
      BY <3>1
    <3>3. kept'.count = kept.count /\ kept'.age = IF kept.age < MsgTtl THEN kept.age + 1 ELSE kept.age
      BY <3>1, <3>2
    <3>4. kept'.age \in 0..MsgTtl
      BY <1>0, <3>2, <3>3
    <3>5. ASSUME kept'.age < MsgTtl PROVE past'[kept'.age + 1] <= kept'.count
      <4>1. kept.age < MsgTtl /\ kept'.age = kept.age + 1
        BY <1>0, <3>2, <3>3, <3>5
      <4>2. PICK k \in 1..MsgTtl : k = kept'.age + 1 /\ k # 1 /\ k - 1 = kept.age + 1
        <5>1. /\ kept'.age + 1 \in 1..MsgTtl /\ kept'.age + 1 # 1
              /\ (kept'.age + 1) - 1 = kept.age + 1
          BY <1>0, <3>2, <3>4, <3>5, <4>1
        <5> QED BY <5>1
      <4>3. past'[k] = past[k - 1]
        BY <2>2, <4>2
      <4> QED BY <3>1, <3>3, <4>1, <4>2, <4>3
    <3> QED BY <3>2, <3>3, <3>4, <3>5
  <2> QED BY <2>1, <2>4, <2>5, <2>6, <2>7
<1> QED BY <1>1, <1>3, <1>4, <1>5, <1>6 DEF Cs!Next

LEMMA PastInitial == Cs!Init => PastInv
<1> SUFFICES ASSUME Cs!Init PROVE PastInv
  OBVIOUS
<1>1. messages = 0 /\ past = [i \in 1..MsgTtl |-> 0] /\ kept = None /\ counted = None
  BY DEF Cs!Init
<1> QED BY <1>1 DEF PastInv, Cs!ShowsRecent

\* The list of chats is lost by nothing but a restart.
LEMMA ListStays ==
  ASSUME [Cs!Next]_storeVars, list # {}, list' = {}
  PROVE  Cs!Restart
<1>1. ASSUME NEW found, Cs!Refreshed(found) PROVE list' # {}
  BY <1>1 DEF Cs!Refreshed, Cs!Apply
<1>2. ~ Cs!refresh /\ ~ Cs!getChats
  BY <1>1 DEF Cs!refresh, Cs!getChats
<1> QED BY <1>2 DEF Cs!Next, storeVars, Cs!getChat, Cs!OtherWrites, Cs!World, Cs!Elapse, Cs!listVars

\* A non-empty set of numbers has a least.
LEMMA HasLeast ==
  ASSUME NEW S, S \subseteq Nat, S # {}
  PROVE  \E i \in S : \A j \in S : i <= j
<1>1. PICK x \in S : \A y \in S : ~ (<<y, x>> \in OpToRel(<, Nat))
  BY WFMin, NatLessThanWellFounded
<1>2. \A y \in S : ~ (y < x)
  BY <1>1 DEF OpToRel
<1> QED BY <1>2

\* The page asked next is one of those to be asked.
LEMMA PageIs ==
  ASSUME Wi!TypeOK, asked # None, asked.rest # {}
  PROVE  Wi!Turn \in asked.rest /\ Wi!Page \in Wi!Windows
<1>1. asked.rest \subseteq DOMAIN WindowOrder
  BY DEF Wi!TypeOK, Wi!Questions
<1>2. DOMAIN WindowOrder \subseteq Nat
  BY DEF WindowOrder
<1>3. ASSUME NEW S, S \subseteq asked.rest, S # {} PROVE Wi!Min(S) \in S
  <2>1. PICK i \in S : \A j \in S : i <= j
    BY <1>1, <1>2, <1>3, HasLeast
  <2> QED BY <2>1 DEF Wi!Min
<1>4. Wi!Hinted \subseteq asked.rest
  BY DEF Wi!Hinted
<1>5. Wi!Turn \in asked.rest
  BY <1>3, <1>4 DEF Wi!Turn
<1> QED BY <1>1, <1>5 DEF Wi!Page, Wi!Windows

LEMMA ScoreIs ==
  ASSUME NEW f \in BOOLEAN, NEW c \in BOOLEAN, NEW b \in BOOLEAN
  PROVE  /\ Wi!Score(f, c, b) \in 0..18
         /\ f => Wi!Score(f, c, b) >= 12
         /\ ~ f => Wi!Score(f, c, b) <= 8
<1>1. Wi!Score(f, c, b) = (IF f THEN 10 ELSE 0) + (IF c THEN 5 ELSE 0) + (IF b THEN 3 ELSE 2)
  BY DEF Wi!Score
<1>2. CASE f = TRUE
  <2>1. CASE c = TRUE
    BY <1>1, <1>2, <2>1
  <2>2. CASE c = FALSE
    BY <1>1, <1>2, <2>2
  <2> QED BY <2>1, <2>2
<1>3. CASE f = FALSE
  <2>1. CASE c = TRUE
    BY <1>1, <1>3, <2>1
  <2>2. CASE c = FALSE
    BY <1>1, <1>3, <2>2
  <2> QED BY <2>1, <2>2
<1> QED BY <1>2, <1>3

\* The next page was looked at, or could not be asked.
LEMMA PageLeaves ==
  ASSUME NEW q \in Wi!Questions, asked \in Wi!Questions, q.rest = asked.rest, asked' # None, Wi!Onward(q)
  PROVE  /\ asked' \in Wi!Questions
         /\ asked'.kind = q.kind /\ asked'.chat = q.chat /\ asked'.window = q.window
         /\ asked'.answer = q.answer /\ asked'.score = q.score /\ asked'.busy = q.busy
         /\ asked'.changed = q.changed /\ asked'.failed = q.failed
         /\ Unseen \subseteq Unseen' \cup {Wi!Page}
<1>1. asked' = [q EXCEPT !.rest = @ \ {Wi!Turn}]
  BY DEF Wi!Onward
<1>2. asked' \in Wi!Questions
  BY <1>1 DEF Wi!Questions
<1>3. asked'.rest = asked.rest \ {Wi!Turn}
  BY <1>1 DEF Wi!Questions
<1>4. Unseen \subseteq Unseen' \cup {Wi!Page}
  BY <1>3 DEF Unseen, Wi!Page
<1> QED BY <1>1, <1>2, <1>4 DEF Wi!Questions

LEMMA LookStep == LookInv /\ [Wi!Next]_probeVars => LookInv'
<1> SUFFICES ASSUME LookInv, [Wi!Next]_probeVars PROVE LookInv'
  OBVIOUS
<1>1. /\ tab \in [Wi!Windows -> {"a", "b", None}] /\ Wi!OnePlace(tab)
      /\ works \subseteq Wi!Windows /\ focus \in Wi!Windows \cup {None}
      /\ asked # None => asked \in Wi!Questions
      /\ Wi!TypeOK /\ AskedInv
  BY DEF LookInv, Wi!TypeOK
<1>2. None \notin {"a", "b"}
  BY PartsAssumption DEF Wi!ChatsAssumption
<1>3. CASE UNCHANGED probeVars
  <2>1. UNCHANGED <<tab, works, focus, asked, told>>
    BY <1>3 DEF probeVars
  <2> QED BY <2>1 DEF LookInv, Wi!TypeOK, Wi!OnePlace, AskedInv, Unseen, Wi!Busy, Wi!AnswersHold, Wi!Steady
\* An answer is given: what is left of the question is in it.
<1>4. ASSUME UNCHANGED <<tab, works, focus>>, asked # None,
             NEW v \in Wi!Windows \cup {None}, NEW x \in {"a", "b", None, "idle", "busy", "unknown"},
             Wi!Tell(v, x),
             asked.kind = "active" /\ focus # None /\ focus \notin asked.changed \cup asked.failed
               /\ tab[focus] # None => v = focus,
             asked.kind = "any" /\ x = "idle" =>
               \A w \in Wi!Windows \ (asked.changed \cup asked.failed) : ~ Wi!Busy(w),
             asked.kind = "chat" /\ x = "idle" =>
               \A w \in Wi!Windows \ asked.changed :
                 tab[w] = asked.chat /\ TitlesWithin[w] = {w} => ~ Wi!Busy(w)
      PROVE  LookInv'
  <2>1. told' = [asked EXCEPT !.window = v, !.answer = x] /\ asked' = None
    BY <1>4 DEF Wi!Tell
  <2>2. asked \in Wi!Questions
    BY <1>1, <1>4
  <2>3. told' \in Wi!Questions
    BY <2>1, <2>2 DEF Wi!Questions
  <2>4. /\ told'.kind = asked.kind /\ told'.chat = asked.chat /\ told'.window = v /\ told'.answer = x
        /\ told'.changed = asked.changed /\ told'.failed = asked.failed
    BY <2>1, <2>2 DEF Wi!Questions
  <2>5. \A w : Wi!Steady(w)' <=> w \notin asked.changed /\ w \notin asked.failed
    BY <2>4 DEF Wi!Steady
  <2>6. \A w : Wi!Busy(w)' <=> Wi!Busy(w)
    BY <1>4 DEF Wi!Busy
  <2>7. Wi!TypeOK'
    BY <1>1, <1>4, <2>1, <2>3 DEF Wi!TypeOK, Wi!OnePlace
  <2>8. AskedInv'
    BY <2>1 DEF AskedInv
  <2>9. Wi!AnswersHold'
    BY <1>4, <2>4, <2>5, <2>6 DEF Wi!AnswersHold
  <2> QED BY <2>7, <2>8, <2>9 DEF LookInv
\* A question goes on, with nothing told.
<1>5. ASSUME told' = None, tab' \in [Wi!Windows -> {"a", "b", None}], Wi!OnePlace(tab'),
             works' \subseteq Wi!Windows, focus' \in Wi!Windows \cup {None},
             asked' # None => asked' \in Wi!Questions, AskedInv'
      PROVE  LookInv'
  <2>1. Wi!OnePlace(tab)'
    BY <1>5 DEF Wi!OnePlace
  <2>2. Wi!TypeOK'
    BY <1>5, <2>1 DEF Wi!TypeOK
  <2>3. Wi!AnswersHold'
    BY <1>5 DEF Wi!AnswersHold
  <2> QED BY <1>5, <2>2, <2>3 DEF LookInv
<1>6. CASE Wi!Ask
  <2>1. told' = None /\ UNCHANGED <<tab, works, focus>>
    BY <1>6 DEF Wi!Ask
  <2>2. PICK k \in {"active", "any", "chat"}, c \in {"a", "b", None} :
          asked' = Wi!Question(k, c) /\ (k = "chat" => c \in {"a", "b"})
    BY <1>6 DEF Wi!Ask
  <2>3. asked' \in Wi!Questions
    <3>1. 0 \in 0..18
      OBVIOUS
    <3> QED BY <2>2, <3>1 DEF Wi!Question, Wi!Questions
  <2>4. /\ asked'.kind = k /\ asked'.chat = c /\ asked'.rest = DOMAIN WindowOrder
        /\ asked'.score = 0 /\ asked'.window = None
    BY <2>2 DEF Wi!Question
  <2>5. Wi!Windows \subseteq Unseen'
    BY <2>4 DEF Unseen, Wi!Windows
  <2>6. focus' \in Wi!Windows \cup {None}
    BY <1>1, <2>1
  <2>7. AskedInv'
    BY <2>2, <2>4, <2>5, <2>6 DEF AskedInv
  <2> QED BY <1>1, <1>5, <2>1, <2>3, <2>7
\* A page was looked at.
<1>7. ASSUME asked # None, asked.rest # {}, NEW q \in Wi!Questions, Wi!Onward(q),
             q.rest = asked.rest, q.kind = asked.kind, q.chat = asked.chat, q.changed = asked.changed,
             asked.kind = "active" /\ focus # None /\ focus \notin asked.changed =>
               /\ q.window # focus => q.score <= 8
               /\ q.window = focus => q.score >= 12
               /\ focus \notin (Unseen \ {Wi!Page}) \cup q.failed /\ tab[focus] # None => q.window = focus,
             asked.kind = "any" =>
               \A w \in Wi!Windows \ ((Unseen \ {Wi!Page}) \cup asked.changed \cup q.failed) :
                 Wi!Busy(w) => q.busy,
             asked.kind = "chat" /\ q.window # None =>
               \A w \in Wi!Windows \ asked.changed : tab[w] = asked.chat => q.window = w
      PROVE  LookInv'
  <2>1. told' = None /\ UNCHANGED <<tab, works, focus>>
    BY <1>7 DEF Wi!Onward
  <2>2. CASE asked' = None
    BY <1>1, <1>5, <2>1, <2>2 DEF AskedInv
  <2>3. CASE asked' # None
    <3>1. /\ asked' \in Wi!Questions
          /\ asked'.kind = q.kind /\ asked'.chat = q.chat /\ asked'.window = q.window
          /\ asked'.score = q.score /\ asked'.busy = q.busy
          /\ asked'.changed = q.changed /\ asked'.failed = q.failed
          /\ Unseen \subseteq Unseen' \cup {Wi!Page}
      BY <1>1, <1>7, <2>3, PageLeaves
    <3>2. \A w : Wi!Busy(w)' <=> Wi!Busy(w)
      BY <2>1 DEF Wi!Busy
    <3>3. asked.kind = "chat" => asked.chat \in {"a", "b"}
      BY <1>1, <1>7 DEF AskedInv
    <3>4. AskedInv'
      BY <1>7, <2>1, <3>1, <3>2, <3>3 DEF AskedInv
    <3> QED BY <1>1, <1>5, <2>1, <3>1, <3>4
  <2> QED BY <2>2, <2>3
<1>8. CASE Wi!LookActive
  <2>1. PICK inComposer \in BOOLEAN, ofBar \in BOOLEAN :
          LET s == Wi!Score(focus = Wi!Page, inComposer, ofBar) IN
            Wi!Onward(IF tab[Wi!Page] = None \/ s <= asked.score THEN asked
                      ELSE [asked EXCEPT !.window = Wi!Page, !.answer = tab[Wi!Page], !.score = s])
    BY <1>8 DEF Wi!LookActive
  <2> DEFINE s == Wi!Score(focus = Wi!Page, inComposer, ofBar)
             q == IF tab[Wi!Page] = None \/ s <= asked.score THEN asked
                  ELSE [asked EXCEPT !.window = Wi!Page, !.answer = tab[Wi!Page], !.score = s]
  <2>2. asked # None /\ asked.kind = "active" /\ asked.rest # {} /\ asked \in Wi!Questions
    BY <1>1, <1>8 DEF Wi!LookActive
  <2>3. Wi!Page \in Wi!Windows /\ tab[Wi!Page] \in {"a", "b", None}
    BY <1>1, <2>2, PageIs
  <2>4. /\ s \in 0..18
        /\ focus = Wi!Page => s >= 12
        /\ focus # Wi!Page => s <= 8
    <3>1. (focus = Wi!Page) \in BOOLEAN
      OBVIOUS
    <3> QED BY <3>1, ScoreIs
  <2>5. Wi!Onward(q)
    BY <2>1
  <2> HIDE DEF s
  <2>6. CASE tab[Wi!Page] = None \/ s <= asked.score
    <3>1. q = asked
      BY <2>6
    <3> HIDE DEF q
    <3>2. ASSUME focus # None, focus \notin asked.changed
          PROVE  /\ q.window # focus => q.score <= 8
                 /\ q.window = focus => q.score >= 12
                 /\ focus \notin (Unseen \ {Wi!Page}) \cup q.failed /\ tab[focus] # None => q.window = focus
      <4>1. /\ asked.window # focus => asked.score <= 8
            /\ asked.window = focus => asked.score >= 12
            /\ focus \notin Unseen \cup asked.failed /\ tab[focus] # None => asked.window = focus
        BY <1>1, <2>2, <3>2 DEF AskedInv
      <4>2. CASE focus = Wi!Page /\ tab[focus] # None
        <5>1. s >= 12 /\ s <= asked.score /\ asked.score \in 0..18 /\ s \in 0..18
          BY <2>2, <2>4, <2>6, <4>2 DEF Wi!Questions
        <5>2. ~ (asked.score <= 8)
          BY ONLY <5>1
        <5> QED BY <3>1, <4>1, <5>2
      <4> QED BY <3>1, <4>1, <4>2
    <3> QED BY <1>7, <2>2, <2>5, <3>1, <3>2
  <2>7. CASE ~ (tab[Wi!Page] = None \/ s <= asked.score)
    <3>1. q = [asked EXCEPT !.window = Wi!Page, !.answer = tab[Wi!Page], !.score = s]
      BY <2>7
    <3> HIDE DEF q
    <3>2. q \in Wi!Questions
      BY <2>2, <2>3, <2>4, <3>1 DEF Wi!Questions
    <3>3. /\ q.rest = asked.rest /\ q.kind = asked.kind /\ q.chat = asked.chat /\ q.changed = asked.changed
          /\ q.window = Wi!Page /\ q.score = s /\ q.failed = asked.failed
      BY <2>2, <3>1 DEF Wi!Questions
    <3>4. ASSUME focus # None, focus \notin asked.changed
          PROVE  /\ q.window # focus => q.score <= 8
                 /\ q.window = focus => q.score >= 12
                 /\ focus \notin (Unseen \ {Wi!Page}) \cup q.failed /\ tab[focus] # None => q.window = focus
      <4>1. /\ asked.window # focus => asked.score <= 8
            /\ asked.window = focus => asked.score >= 12
            /\ focus \notin Unseen \cup asked.failed /\ tab[focus] # None => asked.window = focus
        BY <1>1, <2>2, <3>4 DEF AskedInv
      <4>2. CASE focus = Wi!Page
        BY <2>4, <3>3, <4>2
      <4>3. CASE focus # Wi!Page
        <5>1. s <= 8 /\ ~ (s <= asked.score) /\ s \in 0..18 /\ asked.score \in 0..18
          BY <2>2, <2>4, <2>7, <4>3 DEF Wi!Questions
        <5>2. ~ (asked.score >= 12)
          BY ONLY <5>1
        <5>3. asked.window # focus
          BY <4>1, <5>2
        <5> QED BY <3>3, <4>1, <4>3, <5>1, <5>3
      <4> QED BY <4>2, <4>3
    <3> QED BY <1>7, <2>2, <2>5, <3>2, <3>3, <3>4
  <2> QED BY <2>6, <2>7
<1>9. CASE Wi!LookAny
  <2> DEFINE q == [asked EXCEPT !.window = Wi!Page, !.busy = @ \/ Wi!Busy(Wi!Page)]
  <2>1. Wi!Onward(q)
    BY <1>9 DEF Wi!LookAny
  <2>2. asked # None /\ asked.kind = "any" /\ asked.rest # {} /\ asked \in Wi!Questions
    BY <1>1, <1>9 DEF Wi!LookAny
  <2>3. Wi!Page \in Wi!Windows
    BY <1>1, <2>2, PageIs
  <2>4. asked.busy \in BOOLEAN /\ (asked.busy \/ Wi!Busy(Wi!Page)) \in BOOLEAN
    BY <2>2 DEF Wi!Questions
  <2>5. q \in Wi!Questions
    BY <2>2, <2>3, <2>4 DEF Wi!Questions
  <2>6. /\ q.rest = asked.rest /\ q.kind = asked.kind /\ q.chat = asked.chat /\ q.changed = asked.changed
        /\ q.failed = asked.failed
    BY <2>2 DEF Wi!Questions
  <2>7. q.busy = (asked.busy \/ Wi!Busy(Wi!Page))
    BY <2>2 DEF Wi!Questions
  <2> HIDE DEF q
  <2>8. ASSUME NEW w \in Wi!Windows \ ((Unseen \ {Wi!Page}) \cup asked.changed \cup q.failed), Wi!Busy(w)
        PROVE  q.busy
    <3>1. CASE w = Wi!Page
      BY <2>7, <2>8, <3>1
    <3>2. CASE w # Wi!Page
      <4>1. asked.busy
        BY <1>1, <2>2, <2>6, <2>8, <3>2 DEF AskedInv
      <4> QED BY <2>7, <4>1
    <3> QED BY <3>1, <3>2
  <2> QED BY <1>7, <2>1, <2>2, <2>5, <2>6, <2>8
<1>10. CASE Wi!SkipPage
  <2> DEFINE q == [asked EXCEPT !.failed = @ \cup {Wi!Page}]
  <2>1. Wi!Onward(q)
    BY <1>10 DEF Wi!SkipPage
  <2>2. asked # None /\ asked.kind \in {"active", "any"} /\ asked.rest # {} /\ asked \in Wi!Questions
    BY <1>1, <1>10 DEF Wi!SkipPage
  <2>3. Wi!Page \in Wi!Windows
    BY <1>1, <2>2, PageIs
  <2>4. q \in Wi!Questions
    BY <2>2, <2>3 DEF Wi!Questions
  <2>5. /\ q.rest = asked.rest /\ q.kind = asked.kind /\ q.chat = asked.chat /\ q.changed = asked.changed
        /\ q.failed = asked.failed \cup {Wi!Page} /\ q.window = asked.window /\ q.score = asked.score
        /\ q.busy = asked.busy
    BY <2>2 DEF Wi!Questions
  <2> HIDE DEF q
  <2> QED BY <1>1, <1>7, <2>1, <2>2, <2>4, <2>5 DEF AskedInv
<1>11. CASE Wi!Decide
  <2>1. /\ asked # None /\ asked.kind \in {"active", "any"} /\ asked.rest = {} /\ asked \in Wi!Questions
        /\ UNCHANGED <<tab, works, focus>>
    BY <1>1, <1>11 DEF Wi!Decide, Wi!Tell
  <2>2. Unseen = {}
    BY <2>1 DEF Unseen
  <2>3. PICK x : /\ Wi!Tell(asked.window, x)
                 /\ x = IF asked.kind = "active" THEN asked.answer
                        ELSE IF asked.busy THEN "busy"
                        ELSE IF asked.window # None THEN "idle" ELSE "unknown"
    BY <1>11 DEF Wi!Decide
  <2>4. /\ asked.window \in Wi!Windows \cup {None} /\ asked.busy \in BOOLEAN
        /\ asked.answer \in {"a", "b", None, "idle", "busy", "unknown"}
    BY <2>1 DEF Wi!Questions
  <2>5. x \in {"a", "b", None, "idle", "busy", "unknown"}
    BY <2>3, <2>4
  <2>6. asked.kind = "any" /\ x = "idle" => ~ asked.busy
    BY <2>3, <2>4
  <2>7. asked.kind = "any" /\ x = "idle" =>
          \A w \in Wi!Windows \ (asked.changed \cup asked.failed) : ~ Wi!Busy(w)
    BY <1>1, <2>1, <2>2, <2>6 DEF AskedInv
  <2>8. asked.kind = "active" /\ focus # None /\ focus \notin asked.changed \cup asked.failed
          /\ tab[focus] # None => asked.window = focus
    BY <1>1, <2>1, <2>2 DEF AskedInv
  <2> QED BY <1>4, <2>1, <2>3, <2>4, <2>5, <2>7, <2>8
<1>12. CASE Wi!Find
  <2>1. asked # None /\ asked.kind = "chat" /\ asked.window = None /\ asked \in Wi!Questions
    BY <1>1, <1>12 DEF Wi!Find
  <2>2. asked.chat \in {"a", "b"}
    BY <1>1, <2>1 DEF AskedInv
  <2>3. CASE asked.rest = {}
    <3>1. Wi!Tell(None, "unknown") /\ UNCHANGED <<tab, works, focus>>
      BY <1>12, <2>3 DEF Wi!Find, Wi!Tell
    <3> QED BY <1>4, <2>1, <3>1
  <2>4. CASE asked.rest # {} /\ tab[Wi!Page] = asked.chat
    <3> DEFINE q == [asked EXCEPT !.window = Wi!Page]
    <3>1. Wi!Onward(q) /\ Wi!Page \in Wi!Windows
      BY <1>1, <1>12, <2>1, <2>4, PageIs DEF Wi!Find
    <3>2. q \in Wi!Questions
      BY <2>1, <3>1 DEF Wi!Questions
    <3>3. /\ q.rest = asked.rest /\ q.kind = asked.kind /\ q.chat = asked.chat /\ q.changed = asked.changed
          /\ q.window = Wi!Page
      BY <2>1 DEF Wi!Questions
    <3> HIDE DEF q
    <3>4. \A w \in Wi!Windows : tab[w] = asked.chat => w = Wi!Page
      BY <1>1, <1>2, <2>2, <2>4, <3>1 DEF Wi!OnePlace
    <3> QED BY <1>7, <2>1, <2>4, <3>1, <3>2, <3>3, <3>4
  <2>5. CASE asked.rest # {} /\ tab[Wi!Page] # asked.chat
    <3>1. Wi!Onward(asked)
      BY <1>12, <2>5 DEF Wi!Find
    <3> QED BY <1>7, <2>1, <2>5, <3>1
  <2> QED BY <2>3, <2>4, <2>5
<1>13. CASE Wi!LookThere
  <2>1. /\ asked # None /\ asked.kind = "chat" /\ asked.window # None /\ asked \in Wi!Questions
    BY <1>1, <1>13 DEF Wi!LookThere
  <2>2. PICK w \in TitlesWithin[asked.window] : Wi!Tell(asked.window, IF Wi!Busy(w) THEN "busy" ELSE "idle")
    BY <1>13 DEF Wi!LookThere
  <2> DEFINE x == IF Wi!Busy(w) THEN "busy" ELSE "idle"
  <2>3. UNCHANGED <<tab, works, focus>> /\ asked.window \in Wi!Windows
    BY <2>1, <2>2 DEF Wi!Tell, Wi!Questions
  <2>4. x \in {"a", "b", None, "idle", "busy", "unknown"} /\ (x = "idle" => ~ Wi!Busy(w))
    OBVIOUS
  <2>5. \A v \in Wi!Windows \ asked.changed : tab[v] = asked.chat /\ TitlesWithin[v] = {v} => v = w
    BY <1>1, <2>1, <2>2 DEF AskedInv
  <2>6. Wi!Tell(asked.window, x)
    BY <2>2
  <2> HIDE DEF x
  <2> QED BY <1>4, <2>1, <2>3, <2>4, <2>5, <2>6
<1>14. CASE Wi!ChatFails
  <2>1. asked # None /\ asked.kind = "chat" /\ Wi!Tell(None, "unknown") /\ UNCHANGED <<tab, works, focus>>
    BY <1>14 DEF Wi!ChatFails, Wi!Tell
  <2> QED BY <1>4, <2>1
\* Something changed in a window, or the focus went from one to another.
<1>15. ASSUME NEW S \in SUBSET Wi!Windows, Wi!Changing(S),
              tab' \in [Wi!Windows -> {"a", "b", None}], Wi!OnePlace(tab'),
              works' \subseteq Wi!Windows, focus' \in Wi!Windows \cup {None},
              focus' = focus \/ focus' \in S \cup {None},
              \A w \in Wi!Windows \ S : tab'[w] = tab[w] /\ (w \in works' <=> w \in works)
       PROVE  LookInv'
  <2>1. /\ told' = None
        /\ asked' = IF asked = None THEN None ELSE [asked EXCEPT !.changed = @ \cup S]
    BY <1>15 DEF Wi!Changing
  <2>2. CASE asked' = None
    BY <1>5, <1>15, <2>1, <2>2 DEF AskedInv
  <2>3. CASE asked' # None
    <3>1. asked # None /\ asked \in Wi!Questions /\ asked' = [asked EXCEPT !.changed = @ \cup S]
      BY <1>1, <2>1, <2>3
    <3>2. asked' \in Wi!Questions
      BY <1>15, <3>1 DEF Wi!Questions
    <3>3. /\ asked'.kind = asked.kind /\ asked'.chat = asked.chat /\ asked'.window = asked.window
          /\ asked'.score = asked.score /\ asked'.busy = asked.busy /\ asked'.rest = asked.rest
          /\ asked'.changed = asked.changed \cup S /\ asked'.failed = asked.failed
      BY <3>1 DEF Wi!Questions
    <3>4. Unseen' = Unseen
      BY <3>3 DEF Unseen
    <3>5. \A w \in Wi!Windows \ S : Wi!Busy(w)' <=> Wi!Busy(w)
      BY <1>15 DEF Wi!Busy
    <3>6. AskedInv'
      <4>1. asked.kind = "chat" => asked.chat \in {"a", "b"}
        BY <1>1, <3>1 DEF AskedInv
      <4>2. ASSUME asked.kind = "active", focus' # None, focus' \notin asked.changed \cup S
            PROVE  /\ asked.window # focus' => asked.score <= 8
                   /\ asked.window = focus' => asked.score >= 12
                   /\ focus' \notin Unseen \cup asked.failed /\ tab'[focus'] # None => asked.window = focus'
        BY <1>1, <1>15, <3>1, <4>2 DEF AskedInv
      <4>3. ASSUME asked.kind = "any",
                   NEW w \in Wi!Windows \ (Unseen \cup asked.changed \cup S \cup asked.failed), Wi!Busy(w)
            PROVE  asked.busy
        BY <1>1, <3>1, <4>3 DEF AskedInv
      <4>4. ASSUME asked.kind = "chat", asked.window # None,
                   NEW w \in Wi!Windows \ (asked.changed \cup S), tab'[w] = asked.chat
            PROVE  asked.window = w
        BY <1>1, <1>15, <3>1, <4>4 DEF AskedInv
      <4> QED BY <3>3, <3>4, <3>5, <4>1, <4>2, <4>3, <4>4 DEF AskedInv
    <3> QED BY <1>5, <1>15, <2>1, <3>2, <3>6
  <2> QED BY <2>2, <2>3
<1>16. CASE Wi!World
  <2>1. ASSUME NEW w \in Wi!Windows, NEW c \in {"a", "b", None}, tab' = [tab EXCEPT ![w] = c],
               Wi!OnePlace(tab'), Wi!Changing({w}), UNCHANGED <<works, focus>>
        PROVE  LookInv'
    <3>1. tab' \in [Wi!Windows -> {"a", "b", None}] /\ \A v \in Wi!Windows \ {w} : tab'[v] = tab[v]
      BY <1>1, <2>1
    <3> QED BY <1>1, <1>15, <2>1, <3>1
  <2>2. ASSUME NEW w \in Wi!Windows, works' = IF w \in works THEN works \ {w} ELSE works \cup {w},
               Wi!Changing({w}), UNCHANGED <<tab, focus>>
        PROVE  LookInv'
    <3>1. works' \subseteq Wi!Windows /\ \A v \in Wi!Windows \ {w} : v \in works' <=> v \in works
      BY <1>1, <2>2
    <3> QED BY <1>1, <1>15, <2>2, <3>1 DEF Wi!OnePlace
  <2>3. ASSUME NEW w \in Wi!Windows \cup {None}, focus' = w, Wi!Changing({w, focus} \ {None}),
               UNCHANGED <<tab, works>>
        PROVE  LookInv'
    <3>1. {w, focus} \ {None} \in SUBSET Wi!Windows
      BY <1>1
    <3> QED BY <1>1, <1>15, <2>3, <3>1 DEF Wi!OnePlace
  <2> QED BY <1>16, <2>1, <2>2, <2>3 DEF Wi!World
<1> QED BY <1>3, <1>6, <1>8, <1>9, <1>10, <1>11, <1>12, <1>13, <1>14, <1>16 DEF Wi!Next

LEMMA SeenInitial == Am!Init => SeenInv
<1> SUFFICES ASSUME Am!Init PROVE SeenInv
  OBVIOUS
<1>1. /\ working = FALSE /\ idleAge = 0 /\ probed = None /\ said = None
      /\ \A a \in Askers : call[a] = None
  BY DEF Am!Init
<1> QED BY <1>1 DEF SeenInv, Am!IdleWasSeen

LEMMA LookInitial == Wi!Init => LookInv
BY DEF Wi!Init, LookInv, Wi!TypeOK, AskedInv, Wi!AnswersHold

(***************************************************************************)
(* What the server says from what it keeps, or puts together from several   *)
(* looks, was so within the time it is kept: an agent that is called idle    *)
(* was idle within ProbeTtl and MaxProbe, a chat shown has the messages of   *)
(* MsgTtl ago, an answer is right of the windows that stood still, and the    *)
(* list of chats is not lost - for all limits and numbers of callers.         *)
(***************************************************************************)
THEOREM ReadsAreHeld == ServerSpec => ReadsHold
<1>1. ServerInit => SeenInv /\ PastInv /\ LookInv
  BY SeenInitial, PastInitial, LookInitial DEF ServerInit
<1>2. SeenInv /\ PastInv /\ LookInv /\ [ServerNext]_allVars => SeenInv' /\ PastInv' /\ LookInv'
  BY SeenStep, PastStep, LookStep, PartSteps
<1>3. SeenInv /\ PastInv /\ LookInv => Am!IdleWasSeen /\ Cs!ShowsRecent /\ Wi!AnswersHold
  BY DEF SeenInv, PastInv, LookInv
<1>4. [ServerNext]_allVars => [list # {} /\ list' = {} => Cs!Restart]_Cs!vars
  BY ListStays, PartSteps
<1> QED BY <1>1, <1>2, <1>3, <1>4, PTL DEF ServerSpec, ReadsHold, Cs!ListKept

------------------------------------------------------------------------------
(* A step of the interaction *)

\* A look finds nothing, or a window as it is.
LEMMA LookIs ==
  ASSUME NEW w
  PROVE  \/ Sr!captureSnapshot(w) = Sr!emptyInteractionSnapshot
         \/ \E p : Sr!captureSnapshot(w) = [chat |-> front[p], busy |-> front[p] \in running, dialog |-> dialog[p]]
BY DEF Sr!captureSnapshot

LEMMA LookSays ==
  ASSUME NEW w, Sr!captureSnapshot(w).chat # None
  PROVE  Sr!captureSnapshot(w).busy = (Sr!captureSnapshot(w).chat \in running)
<1>1. Sr!emptyInteractionSnapshot.chat = None
  BY DEF Sr!emptyInteractionSnapshot
<1>2. PICK p : Sr!captureSnapshot(w) = [chat |-> front[p], busy |-> front[p] \in running, dialog |-> dialog[p]]
  BY <1>1, LookIs
<1> QED BY <1>2

\* Of what the agents of all chats have done since the first look, nothing is missed.
LEMMA HistoryStep ==
  ASSUME SinceInv, before' = before,
         began' = began \cup (running' \ running), ended' = ended \cup (running \ running')
  PROVE  SinceInv'
BY DEF SinceInv

\* A wait that has begun goes on: it is met all along only if it is met now.
LEMMA HeldStep ==
  ASSUME HeldInv, attempts \in Nat, stage = "acting" => attempts = 0, attempts' = attempts,
         held' = (Sr!Met' /\ (held \/ stage = "acting"))
  PROVE  HeldInv'
<1>1. held' => Sr!Met'
  BY Zenon
<1>2. ASSUME attempts > 0 PROVE ~ held'
  <2>1. ~ held /\ stage # "acting"
    BY <1>2 DEF HeldInv
  <2> QED BY <2>1, Zenon
<1> QED BY <1>1, <1>2 DEF HeldInv

\* Nothing that is looked at has changed, so the look is the same.
LEMMA SameLook ==
  ASSUME NEW w, UNCHANGED <<reached, pages, front, running, dialog>>
  PROVE  Sr!captureSnapshot(w)' = Sr!captureSnapshot(w)
BY DEF Sr!captureSnapshot, Sr!Candidates, Sr!Target, Sr!Min, Sr!emptyInteractionSnapshot

LEMMA SameMet ==
  ASSUME UNCHANGED <<reached, pages, front, running, dialog>>, UNCHANGED <<request, before>>
  PROVE  Sr!Met' = Sr!Met
<1>1. Sr!captureSnapshot(request.window)' = Sr!captureSnapshot(request.window)
  BY DEF Sr!captureSnapshot, Sr!Candidates, Sr!Target, Sr!Min, Sr!emptyInteractionSnapshot
<1> QED BY <1>1 DEF Sr!Met, Sr!Matches, Sr!Fingerprint, Sr!agentIdle

LEMMA VerdictStep == VerdictInv /\ [Sr!Next]_stepVars => VerdictInv'
<1> SUFFICES ASSUME VerdictInv, [Sr!Next]_stepVars PROVE VerdictInv'
  OBVIOUS
<1>0. /\ stage \in {"idle", "acting", "looking", "looking again", "done"}
      /\ attempts \in Nat
      /\ stage = "acting" => attempts = 0
      /\ stage \in {"acting", "looking", "looking again"} => SinceInv /\ HeldInv
  BY DEF VerdictInv
<1>a. ASSUME stage' \in {"idle", "acting", "looking", "looking again", "done"}, attempts' \in Nat,
             stage' = "acting" => attempts' = 0, SinceInv', HeldInv'
      PROVE  VerdictInv'
  BY <1>a DEF VerdictInv
<1>b. ASSUME UNCHANGED <<reached, pages, front, running, dialog, request, before, stage, attempts, held, began, ended>>
      PROVE  VerdictInv'
  <2>1. Sr!Met' = Sr!Met
    BY <1>b, SameMet
  <2>2. SinceInv => SinceInv'
    BY <1>b DEF SinceInv
  <2>3. HeldInv => HeldInv'
    BY <1>b, <2>1 DEF HeldInv
  <2> QED BY <1>0, <1>b, <2>2, <2>3 DEF VerdictInv
<1>1. CASE UNCHANGED stepVars
  BY <1>1, <1>b DEF stepVars
<1>2. ASSUME NEW r \in Sr!Requests, Sr!Begin(r) PROVE VerdictInv'
  <2>1. /\ request' = r /\ before' = Sr!captureSnapshot(r.window)
        /\ stage' \in {"acting", "looking"} /\ attempts' = 0
        /\ held' = Sr!Matches(r.expect, before', before')
        /\ UNCHANGED <<reached, pages, front, running, dialog>>
    BY <1>2 DEF Sr!Begin, Sr!StartWait, Sr!worldVars
  <2>2. Sr!captureSnapshot(r.window)' = before'
    BY <2>1, SameLook
  <2>3. Sr!Met' = Sr!Matches(r.expect, before', before')
    BY <2>1, <2>2 DEF Sr!Met, Sr!Matches, Sr!Fingerprint, Sr!agentIdle
  <2>4. before'.chat # None => before'.busy = (before'.chat \in running)
    BY <2>1, LookSays
  <2>5. SinceInv'
    BY <2>1, <2>4 DEF SinceInv
  <2>6. HeldInv'
    BY <2>1, <2>3 DEF HeldInv
  <2> QED BY <1>a, <2>1, <2>5, <2>6
<1>3. CASE Sr!Act
  <2>1. /\ stage = "acting" /\ stage' = "looking" /\ attempts' = attempts
        /\ held' = (Sr!Met' /\ (held \/ stage = "acting"))
        /\ before' = before /\ began' = began \cup (running' \ running) /\ ended' = ended \cup (running \ running')
    BY <1>3 DEF Sr!Act, Sr!Witness
  <2>2. SinceInv'
    BY <1>0, <2>1, HistoryStep
  <2>3. HeldInv'
    BY <1>0, <2>1, HeldStep
  <2> QED BY <1>0, <1>a, <2>1, <2>2, <2>3
<1>4. ASSUME NEW v, NEW ok, NEW after, Sr!Finish(v, ok, after) PROVE VerdictInv'
  BY <1>4 DEF Sr!Finish, VerdictInv
<1>5. CASE Sr!Look
  <2>1. CASE \E v, ok, after : Sr!Finish(v, ok, after)
    BY <1>4, <2>1
  <2>2. CASE ~ \E v, ok, after : Sr!Finish(v, ok, after)
    <3>1. /\ ~ Sr!Met /\ attempts' = attempts + 1
          /\ UNCHANGED <<reached, pages, front, running, dialog, request, stage, before, began, ended, held>>
          /\ stage \in {"looking", "looking again"}
      BY <1>5, <2>2 DEF Sr!Look, Sr!Met, Sr!worldVars, Sr!Looking
    <3>2. SinceInv /\ HeldInv
      BY <1>0, <3>1
    <3>3. SinceInv'
      BY <3>1, <3>2 DEF SinceInv
    <3>4. ~ held'
      BY <3>1, <3>2 DEF HeldInv
    <3>5. HeldInv'
      BY <3>4 DEF HeldInv
    <3>6. attempts' \in Nat
      <4>1. attempts \in Nat
        BY <1>0
      <4>2. attempts' = attempts + 1
        BY <3>1
      <4> QED BY ONLY <4>1, <4>2
    <3> QED BY <1>a, <3>1, <3>3, <3>5, <3>6
  <2> QED BY <2>1, <2>2
<1>6. CASE Sr!GiveUp \/ Sr!Reject
  BY <1>4, <1>6 DEF Sr!GiveUp, Sr!Reject, Sr!TimedOut
<1>7. CASE Sr!Fallback
  <2>1. CASE Sr!TimedOut
    BY <1>4, <2>1 DEF Sr!TimedOut
  <2>2. CASE ~ Sr!TimedOut
    <3>1. /\ stage = "looking" /\ stage' = "looking again" /\ attempts' = 0
          /\ before' = before /\ request' = request
          /\ began' = began \cup (running' \ running) /\ ended' = ended \cup (running \ running')
          /\ held' = Sr!Matches(request.expect, before, Sr!captureSnapshot(request.window)')
      BY <1>7, <2>2 DEF Sr!Fallback, Sr!StartWait, Sr!Baseline
    <3>2. held' => Sr!Met'
      BY <3>1 DEF Sr!Met, Sr!Matches, Sr!Fingerprint, Sr!agentIdle
    <3>3. HeldInv'
      <4>1. attempts' = 0
        BY <3>1
      <4>2. ~ (attempts' > 0)
        BY ONLY <4>1
      <4> QED BY <3>2, <4>2 DEF HeldInv
    <3>4. SinceInv'
      BY <1>0, <3>1, HistoryStep
    <3> QED BY <1>a, <3>1, <3>3, <3>4
  <2> QED BY <2>1, <2>2
<1>8. CASE Sr!Elapse
  <2>1. UNCHANGED <<reached, pages, front, running, dialog, request, before, stage, attempts, held, began, ended>>
    BY <1>8 DEF Sr!Elapse, Sr!worldVars
  <2> QED BY <1>b, <2>1
<1>9. CASE Sr!Change
  <2>1. /\ stage \notin {"idle", "done"} /\ stage' = stage /\ attempts' = attempts
        /\ held' = (Sr!Met' /\ (held \/ stage = "acting"))
        /\ before' = before /\ began' = began \cup (running' \ running) /\ ended' = ended \cup (running \ running')
    BY <1>9 DEF Sr!Change, Sr!Witness
  <2>2. SinceInv /\ HeldInv
    BY <1>0, <2>1
  <2>3. SinceInv'
    BY <2>1, <2>2, HistoryStep
  <2>4. HeldInv'
    BY <1>0, <2>1, <2>2, HeldStep
  <2> QED BY <1>0, <1>a, <2>1, <2>3, <2>4
<1> QED BY <1>1, <1>2, <1>3, <1>5, <1>6, <1>7, <1>8, <1>9 DEF Sr!Next

\* What an answer says, by the verdict it gives.
VerdictStands ==
  /\ result'.verdict = "finished" /\ before.chat # None /\ result'.chat = before.chat => before.chat \in ended
  /\ result'.verdict = "started" /\ before.chat # None /\ result'.chat = before.chat => before.chat \in began
  /\ result'.verdict = "timeout" => attempts = 0 \/ ~ held

LEMMA VerdictHolds ==
  ASSUME VerdictInv, [Sr!Next]_stepVars, result' # result
  PROVE  VerdictStands
<1>0. /\ attempts \in Nat
      /\ stage = "acting" => attempts = 0
      /\ stage \in {"acting", "looking", "looking again"} =>
           /\ before.chat # None /\ before.busy => before.chat \in running \cup ended
           /\ before.chat # None /\ before.chat \in running => before.busy \/ before.chat \in began
           /\ attempts > 0 => ~ held
  BY DEF VerdictInv, SinceInv, HeldInv
<1>1. ASSUME NEW v \in {"error", "timeout", "rejected"}, NEW ok, NEW after, Sr!Finish(v, ok, after),
             v = "timeout" => attempts = 0 \/ ~ held
      PROVE  VerdictStands
  <2>1. result'.verdict = v
    BY <1>1 DEF Sr!Finish
  <2> QED BY <1>1, <2>1 DEF VerdictStands
<1>2. ASSUME stage \in {"looking", "looking again"}, Sr!TimedOut PROVE VerdictStands
  <2>1. attempts = 0 \/ ~ held
    <3>1. CASE attempts = 0
      BY <3>1
    <3>2. CASE attempts # 0
      <4>1. attempts \in Nat
        BY <1>0
      <4>2. attempts > 0
        BY ONLY <3>2, <4>1
      <4> QED BY <1>0, <1>2, <4>2
    <3> QED BY <3>1, <3>2
  <2> DEFINE v == IF failed /\ stage # "looking again" THEN "error" ELSE "timeout"
  <2>2. Sr!Finish(v, FALSE, Sr!captureSnapshot(request.window))
    BY <1>2 DEF Sr!TimedOut
  <2>3. v \in {"error", "timeout", "rejected"}
    OBVIOUS
  <2> HIDE DEF v
  <2> QED BY <1>1, <2>1, <2>2, <2>3
<1>3. CASE Sr!Look
  <2> DEFINE after == Sr!captureSnapshot(request.window)
             e == request.expect
  <2>1. stage \in {"looking", "looking again"}
    BY <1>3 DEF Sr!Look, Sr!Looking
  <2>2. Sr!Matches(e, before, after)
    BY <1>3 DEF Sr!Look
  <2>3. after.chat # None => after.busy = (after.chat \in running)
    BY LookSays
  <2>4. Sr!Finish("error", FALSE, after) \/ Sr!Finish(Sr!VerdictOf[e], TRUE, after)
    BY <1>3, <2>2 DEF Sr!Look
  <2> HIDE DEF after, e
  <2>5. CASE Sr!Finish("error", FALSE, after)
    BY <1>1, <2>5
  <2>6. CASE Sr!Finish(Sr!VerdictOf[e], TRUE, after)
    <3>1. result'.verdict = Sr!VerdictOf[e] /\ result'.chat = after.chat
      BY <2>6 DEF Sr!Finish
    <3>2. CASE e = "agentIdle"
      <4>1. result'.verdict = "finished" /\ before.busy /\ ~ after.busy
        BY <2>2, <3>1, <3>2 DEF Sr!VerdictOf, Sr!Matches, Sr!agentIdle
      <4> QED BY <1>0, <2>1, <2>3, <3>1, <4>1 DEF VerdictStands
    <3>3. CASE e = "agentStarted"
      <4>1. result'.verdict = "started" /\ ~ before.busy /\ after.busy
        BY <2>2, <3>1, <3>3 DEF Sr!VerdictOf, Sr!Matches
      <4> QED BY <1>0, <2>1, <2>3, <3>1, <4>1 DEF VerdictStands
    <3>4. CASE e \in {"anyChange", "unchanged", "sendBlocked"}
      <4>1. result'.verdict \in {"matched", "unchanged", "blocked"}
        BY <3>1, <3>4 DEF Sr!VerdictOf
      <4> QED BY <4>1 DEF VerdictStands
    <3> QED BY <2>2, <3>2, <3>3, <3>4 DEF Sr!Matches
  <2> QED BY <2>4, <2>5, <2>6
<1>4. CASE Sr!GiveUp
  BY <1>2, <1>4 DEF Sr!GiveUp, Sr!Looking
<1>5. CASE Sr!Fallback
  BY <1>2, <1>5 DEF Sr!Fallback
<1>6. CASE Sr!Reject
  BY <1>1, <1>6 DEF Sr!Reject
<1> QED BY <1>3, <1>4, <1>5, <1>6
       DEF Sr!Next, stepVars, Sr!Begin, Sr!Act, Sr!Elapse, Sr!Change

(***************************************************************************)
(* A step's verdict is about what happened since its first look: an agent   *)
(* said to have begun or finished did so, if both looks reached its chat,    *)
(* and no time-out is declared of what was so all along.                     *)
(***************************************************************************)
THEOREM VerdictsAreTrue == ServerSpec => VerdictIsTrue
<1>1. ServerInit => VerdictInv
  BY DEF ServerInit, Sr!Init, VerdictInv
<1>2. VerdictInv /\ [ServerNext]_allVars => VerdictInv'
  BY VerdictStep, PartSteps
<1>3. VerdictInv /\ [ServerNext]_allVars =>
        [result' # result =>
           LET v == result'.verdict
               c == before.chat
           IN /\ v = "finished" /\ c # None /\ result'.chat = c => c \in ended
              /\ v = "started" /\ c # None /\ result'.chat = c => c \in began
              /\ v = "timeout" => attempts = 0 \/ ~ held]_Sr!vars
  BY VerdictHolds, PartSteps DEF VerdictStands
<1> QED BY <1>1, <1>2, <1>3, PTL DEF ServerSpec, VerdictIsTrue, Sr!VerdictIsTrue


------------------------------------------------------------------------------
(* The types *)

Asked == [row : ChatRows, seen : Am!Probe \cup {None}, wait : 0..MaxProbe]

\* What is kept of an agent, and what a call under way holds.
AgentTypes == Am!TypeOK /\ call = [a \in Askers |-> call[a]]

LEMMA AnswerType ==
  ASSUME NEW r \in ChatRows, NEW p \in Am!Probe
  PROVE  Am!Answer(r, p) \in [phase : {"idle", "busy", "unknown"}, ok : BOOLEAN]
BY DEF Am!Answer, Am!Phase, Am!Probe

LEMMA AgentStep == AgentTypes /\ [Am!Next]_agentVars => AgentTypes'
<1> SUFFICES ASSUME AgentTypes, [Am!Next]_agentVars PROVE AgentTypes'
  OBVIOUS
<1>0. ProbeTtl \in Nat /\ ProbeTtl > 0 /\ MaxProbe \in Nat /\ MaxProbe > 0
  BY PartsAssumption DEF Am!LimitsAssumption
<1>t. /\ working \in BOOLEAN /\ up \in BOOLEAN /\ row \in ChatRows
      /\ idleAge \in 0..Am!Oldest /\ (~ working => idleAge = 0)
      /\ probed = None \/ probed \in [age : 0..ProbeTtl, probe : Am!Probe]
      /\ \A a \in Askers : call[a] = None \/ call[a] \in Asked
      /\ said = None \/ said \in [phase : {"idle", "busy", "unknown"}, ok : BOOLEAN]
      /\ call = [a \in Askers |-> call[a]]
  BY DEF AgentTypes, Am!TypeOK, Asked
<1>g. ASSUME /\ working' \in BOOLEAN /\ up' \in BOOLEAN /\ row' \in ChatRows
             /\ idleAge' \in 0..Am!Oldest /\ (~ working' => idleAge' = 0)
             /\ probed' = None \/ probed' \in [age : 0..ProbeTtl, probe : Am!Probe]
             /\ \A a \in Askers : call'[a] = None \/ call'[a] \in Asked
             /\ said' = None \/ said' \in [phase : {"idle", "busy", "unknown"}, ok : BOOLEAN]
             /\ call' = [a \in Askers |-> call'[a]]
      PROVE  AgentTypes'
  BY <1>g DEF AgentTypes, Am!TypeOK, Asked
<1>1. CASE UNCHANGED agentVars
  BY <1>1, <1>t, <1>g DEF agentVars
<1>f. Am!Failed \in Am!Probe
  BY DEF Am!Failed, Am!Probe
<1>2. ASSUME NEW a \in Askers, Am!Ask(a) PROVE AgentTypes'
  <2>1. UNCHANGED <<working, up, row, idleAge, probed>>
    BY <1>2 DEF Am!Ask
  <2>2. CASE Am!Usable(probed)
    <3>1. said' = Am!Answer(row, probed.probe) /\ call' = call /\ probed.probe \in Am!Probe
      BY <1>2, <1>t, <2>2 DEF Am!Ask, Am!Usable
    <3>2. said' \in [phase : {"idle", "busy", "unknown"}, ok : BOOLEAN]
      BY <1>t, <3>1, AnswerType
    <3> QED BY <1>t, <1>g, <2>1, <3>1, <3>2
  <2>3. CASE ~ Am!Usable(probed)
    <3>1. said' = None /\ call' = [call EXCEPT ![a] = [row |-> row, seen |-> None, wait |-> 0]]
      BY <1>2, <2>3 DEF Am!Ask
    <3>2. [row |-> row, seen |-> None, wait |-> 0] \in Asked
      BY <1>0, <1>t DEF Asked
    <3>3. \A b \in Askers : call'[b] = None \/ call'[b] \in Asked
      BY <1>t, <3>1, <3>2
    <3>4. call' = [b \in Askers |-> call'[b]]
      BY <1>t, <3>1
    <3> QED BY <1>t, <1>g, <2>1, <3>1, <3>3, <3>4
  <2> QED BY <2>2, <2>3
<1>3. ASSUME NEW a \in Askers, Am!Look(a) PROVE AgentTypes'
  <2> DEFINE look == IF up THEN [ok |-> TRUE, busy |-> working] ELSE Am!Failed
  <2>1. /\ said' = None /\ UNCHANGED <<working, up, row, idleAge, probed>> /\ call[a] # None
        /\ call' = [call EXCEPT ![a].seen = look]
    BY <1>3 DEF Am!Look
  <2>2. look \in Am!Probe
    BY <1>t, <1>f DEF Am!Probe
  <2> HIDE DEF look
  <2>3. call[a] \in Asked
    BY <1>t, <2>1
  <2>4. [call[a] EXCEPT !.seen = look] \in Asked
    BY <2>2, <2>3 DEF Asked
  <2>5. \A b \in Askers : call'[b] = None \/ call'[b] \in Asked
    BY <1>t, <2>1, <2>4
  <2>6. call' = [b \in Askers |-> call'[b]]
    BY <1>t, <2>1
  <2> QED BY <1>t, <1>g, <2>1, <2>5, <2>6
<1>4. ASSUME NEW a \in Askers, NEW p \in Am!Probe, call[a] # None, Am!Arrive(a, p)
      PROVE  AgentTypes'
  <2>1. /\ probed' = [age |-> 0, probe |-> p] /\ said' = Am!Answer(call[a].row, p)
        /\ call' = [call EXCEPT ![a] = None] /\ UNCHANGED <<working, up, row, idleAge>>
    BY <1>4 DEF Am!Arrive, Am!Keep
  <2>2. call[a].row \in ChatRows
    BY <1>4, <1>t DEF Asked
  <2>3. said' \in [phase : {"idle", "busy", "unknown"}, ok : BOOLEAN]
    BY <2>1, <2>2, AnswerType
  <2>4. probed' \in [age : 0..ProbeTtl, probe : Am!Probe]
    BY <1>0, <2>1
  <2>5. \A b \in Askers : call'[b] = None \/ call'[b] \in Asked
    BY <1>t, <2>1
  <2>6. call' = [b \in Askers |-> call'[b]]
    BY <1>t, <2>1
  <2> QED BY <1>t, <1>g, <2>1, <2>3, <2>4, <2>5, <2>6
<1>5. ASSUME NEW a \in Askers, Am!Answered(a) \/ Am!Fails(a) PROVE AgentTypes'
  <2>1. CASE Am!Fails(a)
    BY <1>4, <1>f, <2>1 DEF Am!Fails
  <2>2. CASE Am!Answered(a)
    <3>1. call[a] # None /\ call[a].seen \in Am!Probe /\ Am!Arrive(a, call[a].seen)
      BY <1>t, <2>2 DEF Am!Answered, Asked
    <3> QED BY <1>4, <3>1
  <2> QED BY <1>5, <2>1, <2>2
<1>6. CASE Am!World
  <2>1. said' = None /\ UNCHANGED <<probed, call>>
    BY <1>6 DEF Am!World
  <2>2. /\ working' \in BOOLEAN /\ up' \in BOOLEAN /\ row' \in ChatRows
        /\ idleAge' \in 0..Am!Oldest /\ (~ working' => idleAge' = 0)
    <3>0. 0 \in 0..Am!Oldest
      BY <1>0 DEF Am!Oldest
    <3>1. CASE working' = ~ working /\ idleAge' = (IF working THEN 0 ELSE idleAge) /\ UNCHANGED <<up, row>>
      <4>1. CASE working = TRUE
        BY <1>t, <3>0, <3>1, <4>1
      <4>2. CASE working = FALSE
        BY <1>t, <3>1, <4>2
      <4> QED BY <1>t, <4>1, <4>2
    <3>2. CASE up' = ~ up /\ UNCHANGED <<working, row, idleAge>>
      BY <1>t, <3>2
    <3>3. CASE row' \in ChatRows /\ UNCHANGED <<working, up, idleAge>>
      BY <1>t, <3>3
    <3> QED BY <1>6, <3>1, <3>2, <3>3 DEF Am!World
  <2> QED BY <1>t, <1>g, <2>1, <2>2
<1>7. CASE Am!Elapse
  <2>1. /\ \A a \in Askers : call[a] # None => call[a].wait < MaxProbe
        /\ call' = [a \in Askers |-> IF call[a] = None THEN None ELSE [call[a] EXCEPT !.wait = @ + 1]]
        /\ probed' = IF probed = None THEN None ELSE [probed EXCEPT !.age = IF @ < ProbeTtl THEN @ + 1 ELSE @]
        /\ idleAge' = IF working THEN Am!Older(idleAge) ELSE 0
        /\ said' = None /\ UNCHANGED <<working, up, row>>
    BY <1>7 DEF Am!Elapse
  <2>2. idleAge' \in 0..Am!Oldest /\ (~ working' => idleAge' = 0)
    BY <1>0, <1>t, <2>1 DEF Am!Older, Am!Oldest
  <2>3. ASSUME NEW a \in Askers PROVE call'[a] = None \/ call'[a] \in Asked
    <3>1. CASE call[a] = None
      BY <2>1, <3>1
    <3>2. CASE call[a] # None
      <4>1. call'[a] = [call[a] EXCEPT !.wait = @ + 1] /\ call[a] \in Asked /\ call[a].wait < MaxProbe
        BY <1>t, <2>1, <3>2
      <4>2. call[a].wait + 1 \in 0..MaxProbe
        BY <1>0, <4>1 DEF Asked
      <4> QED BY <4>1, <4>2 DEF Asked
    <3> QED BY <3>1, <3>2
  <2>4. probed' = None \/ probed' \in [age : 0..ProbeTtl, probe : Am!Probe]
    <3>1. CASE probed = None
      BY <2>1, <3>1
    <3>2. CASE probed # None
      <4> DEFINE n == IF probed.age < ProbeTtl THEN probed.age + 1 ELSE probed.age
      <4>1. probed \in [age : 0..ProbeTtl, probe : Am!Probe] /\ probed' = [probed EXCEPT !.age = n]
        BY <1>t, <2>1, <3>2
      <4>2. n \in 0..ProbeTtl
        BY <1>0, <4>1
      <4> HIDE DEF n
      <4> QED BY <4>1, <4>2
    <3> QED BY <3>1, <3>2
  <2>5. call' = [b \in Askers |-> call'[b]]
    BY <2>1
  <2> QED BY <1>t, <1>g, <2>1, <2>2, <2>3, <2>4, <2>5
<1> QED BY <1>1, <1>2, <1>3, <1>5, <1>6, <1>7 DEF Am!Next

LEMMA AgentInitial == Am!Init => AgentTypes
<1> SUFFICES ASSUME Am!Init PROVE AgentTypes
  OBVIOUS
<1>1. ProbeTtl \in Nat /\ MaxProbe \in Nat
  BY PartsAssumption DEF Am!LimitsAssumption
<1>2. 0 \in 0..Am!Oldest
  BY <1>1 DEF Am!Oldest
<1> QED BY <1>2 DEF Am!Init, AgentTypes, Am!TypeOK

\* A list is of chats that are there.
LEMMA FoundType ==
  ASSUME Cs!TypeOK
  PROVE  Cs!listFromGlobalHeaders \subseteq Cs!Entries
BY DEF Cs!listFromGlobalHeaders, Cs!Listing, Cs!Entries, Cs!TypeOK

LEMMA StoreStep == Cs!TypeOK /\ [Cs!Next]_storeVars => Cs!TypeOK'
<1> SUFFICES ASSUME Cs!TypeOK, [Cs!Next]_storeVars PROVE Cs!TypeOK'
  OBVIOUS
<1>0. MsgTtl \in Nat /\ MsgTtl > 0 /\ MaxMessages \in Nat
  <2>1. MsgTtl \in Nat \ {0} /\ MaxMessages \in Nat
    BY PartsAssumption DEF Cs!StoreAssumption
  <2> QED BY <2>1
<1>t. /\ rowBusy \in BOOLEAN /\ messages \in 0..MaxMessages
      /\ past \in [1..MsgTtl -> 0..MaxMessages]
      /\ kept = None \/ kept \in [age : 0..MsgTtl, count : 0..MaxMessages]
      /\ counted \in 0..MaxMessages \cup {None}
      /\ headers \subseteq ListedChats /\ named \subseteq ListedChats /\ readable \in BOOLEAN
      /\ list \subseteq Cs!Entries /\ disk \subseteq Cs!Entries
  BY DEF Cs!TypeOK
<1>g. ASSUME /\ rowBusy' \in BOOLEAN /\ messages' \in 0..MaxMessages
             /\ past' \in [1..MsgTtl -> 0..MaxMessages]
             /\ kept' = None \/ kept' \in [age : 0..MsgTtl, count : 0..MaxMessages]
             /\ counted' \in 0..MaxMessages \cup {None}
             /\ headers' \subseteq ListedChats /\ named' \subseteq ListedChats /\ readable' \in BOOLEAN
             /\ list' \subseteq Cs!Entries /\ disk' \subseteq Cs!Entries
      PROVE  Cs!TypeOK'
  BY <1>g DEF Cs!TypeOK, Cs!Entries
<1>1. CASE UNCHANGED storeVars
  BY <1>1, <1>t, <1>g DEF storeVars
<1>r. ASSUME NEW found \in SUBSET Cs!Entries, Cs!Refreshed(found)
      PROVE  list' \subseteq Cs!Entries /\ disk' \subseteq Cs!Entries
  BY <1>r, <1>t DEF Cs!Refreshed, Cs!Apply
<1>2. ASSUME NEW fresh \in BOOLEAN, Cs!getChat(fresh) PROVE Cs!TypeOK'
  <2>1. UNCHANGED <<rowBusy, messages, past, headers, readable, named, list, disk>>
    BY <1>2 DEF Cs!getChat, Cs!listVars
  <2>2. /\ kept' = None \/ kept' \in [age : 0..MsgTtl, count : 0..MaxMessages]
        /\ counted' \in 0..MaxMessages \cup {None}
    <3>1. CASE Cs!Hit(fresh)
      <4>1. kept' = kept /\ counted' = kept.count /\ kept # None
        BY <1>2, <3>1 DEF Cs!getChat, Cs!Hit
      <4> QED BY <1>t, <4>1
    <3>2. CASE ~ Cs!Hit(fresh)
      <4>1. kept' = [age |-> 0, count |-> messages] /\ counted' = messages
        BY <1>2, <3>2 DEF Cs!getChat
      <4>2. 0 \in 0..MsgTtl
        BY <1>0
      <4> QED BY <1>t, <4>1, <4>2
    <3> QED BY <3>1, <3>2
  <2> QED BY <1>t, <1>g, <2>1, <2>2
<1>3. CASE Cs!refresh \/ Cs!getChats
  <2>1. Cs!Refreshed(Cs!listFromGlobalHeaders)
    BY <1>3 DEF Cs!refresh, Cs!getChats
  <2>2. list' \subseteq Cs!Entries /\ disk' \subseteq Cs!Entries
    BY <1>r, <2>1, FoundType
  <2>3. kept' \in {kept, None} /\ counted' = None /\ UNCHANGED <<rowBusy, messages, past, headers, readable, named>>
    BY <1>3 DEF Cs!refresh, Cs!getChats, Cs!chatVars
  <2> QED BY <1>t, <1>g, <2>2, <2>3
<1>4. CASE Cs!Restart
  <2>1. /\ kept' = None /\ counted' = None /\ disk' \in {disk, {}} /\ list' = disk'
        /\ UNCHANGED <<rowBusy, messages, past, headers, readable, named>>
    BY <1>4 DEF Cs!Restart
  <2> QED BY <1>t, <1>g, <2>1
<1>5. CASE Cs!OtherWrites
  <2>1. /\ disk' = Cs!listFromGlobalHeaders /\ counted' = None
        /\ UNCHANGED <<rowBusy, messages, past, kept, headers, readable, named, list>>
    BY <1>5 DEF Cs!OtherWrites, Cs!chatVars
  <2> QED BY <1>t, <1>g, <2>1, FoundType
<1>6. CASE Cs!World
  <2>1. counted' = None /\ UNCHANGED <<past, kept, list, disk>>
    BY <1>6 DEF Cs!World, Cs!chatVars, Cs!listVars
  <2>2. rowBusy' \in BOOLEAN /\ messages' \in 0..MaxMessages
    <3>1. CASE messages < MaxMessages /\ messages' = messages + 1 /\ UNCHANGED rowBusy
      BY <1>0, <1>t, <3>1
    <3>2. CASE rowBusy' = ~ rowBusy /\ UNCHANGED messages
      BY <1>t, <3>2
    <3>3. CASE UNCHANGED <<rowBusy, messages>>
      BY <1>t, <3>3
    <3> QED BY <1>6, <3>1, <3>2, <3>3 DEF Cs!World, Cs!chatVars
  <2>3. headers' \subseteq ListedChats /\ named' \subseteq ListedChats /\ readable' \in BOOLEAN
    <3>1. CASE UNCHANGED Cs!listVars
      BY <1>t, <3>1 DEF Cs!listVars
    <3>2. CASE \E c \in ListedChats \ headers : headers' = headers \cup {c} /\ UNCHANGED <<readable, named>>
      BY <1>t, <3>2
    <3>3. CASE \E c \in headers : headers' = headers \ {c} /\ UNCHANGED <<readable, named>>
      BY <1>t, <3>3
    <3>4. CASE \E c \in headers \ named : named' = named \cup {c} /\ UNCHANGED <<readable, headers>>
      BY <1>t, <3>4
    <3>5. CASE readable' = ~ readable /\ UNCHANGED <<headers, named>>
      BY <1>t, <3>5
    <3> QED BY <1>6, <3>1, <3>2, <3>3, <3>4, <3>5 DEF Cs!World
  <2> QED BY <1>t, <1>g, <2>1, <2>2, <2>3
<1>7. CASE Cs!Elapse
  <2>1. /\ past' = [i \in 1..MsgTtl |-> IF i = 1 THEN messages ELSE past[i - 1]]
        /\ kept' = IF kept = None THEN None ELSE [kept EXCEPT !.age = IF @ < MsgTtl THEN @ + 1 ELSE @]
        /\ counted' = None /\ UNCHANGED <<rowBusy, messages, headers, readable, named, list, disk>>
    BY <1>7 DEF Cs!Elapse, Cs!listVars
  <2>2. \A i \in 1..MsgTtl : i = 1 \/ i - 1 \in 1..MsgTtl
    BY <1>0
  <2>3. past' \in [1..MsgTtl -> 0..MaxMessages]
    BY <1>t, <2>1, <2>2
  <2>4. kept' = None \/ kept' \in [age : 0..MsgTtl, count : 0..MaxMessages]
    <3>1. CASE kept = None
      BY <2>1, <3>1
    <3>2. CASE kept # None
      <4> DEFINE n == IF kept.age < MsgTtl THEN kept.age + 1 ELSE kept.age
      <4>1. kept \in [age : 0..MsgTtl, count : 0..MaxMessages] /\ kept' = [kept EXCEPT !.age = n]
        BY <1>t, <2>1, <3>2
      <4>2. n \in 0..MsgTtl
        BY <1>0, <4>1
      <4> HIDE DEF n
      <4> QED BY <4>1, <4>2
    <3> QED BY <3>1, <3>2
  <2> QED BY <1>t, <1>g, <2>1, <2>3, <2>4
<1> QED BY <1>1, <1>2, <1>3, <1>4, <1>5, <1>6, <1>7 DEF Cs!Next

LEMMA StoreInitial == Cs!Init => Cs!TypeOK
<1> SUFFICES ASSUME Cs!Init PROVE Cs!TypeOK
  OBVIOUS
<1>1. MsgTtl \in Nat /\ MaxMessages \in Nat
  BY PartsAssumption DEF Cs!StoreAssumption
<1>2. 0 \in 0..MaxMessages
  BY <1>1
<1> QED BY <1>2 DEF Cs!Init, Cs!TypeOK

OwnedTokens == {t \in Tokens : owner[t] # None}

LEMMA TokenStep == At!TypeOK /\ [At!Next]_tokenVars => At!TypeOK'
<1> SUFFICES ASSUME At!TypeOK, [At!Next]_tokenVars PROVE At!TypeOK'
  OBVIOUS
<1> DEFINE Chats == {"a", "b", "c"}
<1>0. MaxEvents \in Nat
  BY PartsAssumption DEF At!EventsAssumption
<1>t. /\ owner \in [Tokens -> Chats \cup {None}]
      /\ due \subseteq OwnedTokens
      /\ history \in [Chats -> SUBSET OwnedTokens]
      /\ binds \in [At!Processes -> [Tokens -> Chats \cup {None}]]
      /\ tasks \in [{"a", "b"} -> SUBSET Tokens]
      /\ events \in 0..MaxEvents
  BY DEF At!TypeOK, OwnedTokens
<1>g. ASSUME /\ owner' \in [Tokens -> Chats \cup {None}]
             /\ due' \subseteq OwnedTokens'
             /\ history' \in [Chats -> SUBSET (OwnedTokens')]
             /\ binds' \in [At!Processes -> [Tokens -> Chats \cup {None}]]
             /\ tasks' \in [{"a", "b"} -> SUBSET Tokens]
             /\ events' \in 0..MaxEvents
      PROVE  At!TypeOK'
  BY <1>g DEF At!TypeOK, OwnedTokens
<1>1. CASE UNCHANGED tokenVars
  BY <1>1, <1>t, <1>g DEF tokenVars, OwnedTokens
<1>e. At!Event => events' \in 0..MaxEvents
  BY <1>0, <1>t DEF At!Event
<1>n. \A p \in At!Processes : ProcessChats[p] \in Chats \cup {None}
  BY DEF At!Processes, ProcessChats
<1>2. ASSUME NEW p \in At!Processes, NEW t \in Tokens, NEW c \in Chats,
             NEW isTold \in BOOLEAN, At!registerAgentToken(p, t, c, isTold)
      PROVE  At!TypeOK'
  <2> DEFINE b == IF isTold THEN c ELSE ProcessChats[p]
  <2>1. /\ owner[t] = None /\ owner' = [owner EXCEPT ![t] = c] /\ due' = due \cup {t}
        /\ binds' = [binds EXCEPT ![p][t] = IF b = None THEN @ ELSE b]
        /\ UNCHANGED <<history, tasks, events>>
    BY <1>2 DEF At!registerAgentToken, At!bindAgentToken
  <2>2. b \in Chats \cup {None}
    BY <1>n
  <2> HIDE DEF b
  <2>3. owner' \in [Tokens -> Chats \cup {None}]
    BY <1>t, <2>1
  <2>4. c # None => OwnedTokens' = OwnedTokens \cup {t}
    BY <1>t, <2>1 DEF OwnedTokens
  <2>5. c # None
    BY PartsAssumption DEF At!TargetsAssumption
  <2>6. binds' \in [At!Processes -> [Tokens -> Chats \cup {None}]]
    BY <1>t, <2>1, <2>2
  <2> QED BY <1>t, <1>g, <2>1, <2>3, <2>4, <2>5, <2>6
<1>3. ASSUME NEW p \in At!Processes, NEW t \in Tokens, At!resolveSendTarget(p, t)
      PROVE  At!TypeOK'
  <2>1. UNCHANGED <<owner, due, history, binds, tasks, events>>
    BY <1>3 DEF At!resolveSendTarget
  <2> QED BY <2>1, <1>t, <1>g DEF OwnedTokens
<1>4. ASSUME NEW p \in At!Processes, NEW t \in Tokens, At!mcpEnqueueTask(p, t)
      PROVE  At!TypeOK'
  <2> DEFINE c == IF binds[p][t] \in {"a", "b"} THEN binds[p][t] ELSE At!resolveTargets(p)
  <2>1. /\ tasks' = [tasks EXCEPT ![c] = @ \cup {t}]
        /\ UNCHANGED <<owner, due, history, binds, events>>
    BY <1>4 DEF At!mcpEnqueueTask
  <2> HIDE DEF c
  <2>2. tasks' \in [{"a", "b"} -> SUBSET Tokens]
    BY <1>t, <2>1
  <2> QED BY <2>1, <2>2, <1>t, <1>g DEF OwnedTokens
<1>5. ASSUME NEW t \in Tokens, At!Written(t) PROVE At!TypeOK'
  <2>1. /\ t \in due /\ due' = due \ {t} /\ history' = [history EXCEPT ![owner[t]] = @ \cup {t}]
        /\ UNCHANGED <<owner, binds, tasks, events>>
    BY <1>5 DEF At!Written
  <2>2. history' \in [Chats -> SUBSET OwnedTokens]
    BY <1>t, <2>1
  <2>3. OwnedTokens' = OwnedTokens
    BY <2>1 DEF OwnedTokens
  <2> QED BY <2>1, <2>2, <2>3, <1>t, <1>g
<1>6. ASSUME NEW c \in Chats, NEW d \in Chats, At!Duplicate(c, d) PROVE At!TypeOK'
  <2>1. /\ history' = [history EXCEPT ![d] = @ \cup history[c]] /\ events' \in 0..MaxEvents
        /\ UNCHANGED <<owner, due, binds, tasks>>
    BY <1>6, <1>e DEF At!Duplicate
  <2>2. history' \in [Chats -> SUBSET OwnedTokens]
    BY <1>t, <2>1
  <2>3. OwnedTokens' = OwnedTokens
    BY <2>1 DEF OwnedTokens
  <2> QED BY <2>1, <2>2, <2>3, <1>t, <1>g
<1>7. ASSUME NEW c \in Chats, At!Revert(c) PROVE At!TypeOK'
  <2>1. PICK some \in SUBSET history[c] : history' = [history EXCEPT ![c] = some]
    BY <1>7 DEF At!Revert
  <2>2. events' \in 0..MaxEvents /\ UNCHANGED <<owner, due, binds, tasks>>
    BY <1>7, <1>e DEF At!Revert
  <2>3. history' \in [Chats -> SUBSET OwnedTokens]
    BY <1>t, <2>1
  <2>4. OwnedTokens' = OwnedTokens
    BY <2>2 DEF OwnedTokens
  <2> QED BY <2>2, <2>3, <2>4, <1>t, <1>g
<1>8. ASSUME NEW p \in At!Processes, At!Restart(p) PROVE At!TypeOK'
  <2>1. /\ binds' = [binds EXCEPT ![p] = [t \in Tokens |-> None]] /\ events' \in 0..MaxEvents
        /\ UNCHANGED <<owner, due, history, tasks>>
    BY <1>8, <1>e DEF At!Restart
  <2>2. binds' \in [At!Processes -> [Tokens -> Chats \cup {None}]]
    BY <1>t, <2>1
  <2> QED BY <2>1, <2>2, <1>t, <1>g DEF OwnedTokens
<1> QED BY <1>1, <1>2, <1>3, <1>4, <1>5, <1>6, <1>7, <1>8 DEF At!Next, At!handleTool

LEMMA TokenInitial == At!Init => At!TypeOK
<1> SUFFICES ASSUME At!Init PROVE At!TypeOK
  OBVIOUS
<1>1. MaxEvents \in Nat
  BY PartsAssumption DEF At!EventsAssumption
<1> QED BY <1>1 DEF At!Init, At!TypeOK

Panes   == {"left", "right"}
Dialogs == {"none", "modal", "quick"}
Answers == [ok : BOOLEAN, chat : {"a", "b", "c"} \cup {None},
            verdict : {"matched", "unchanged", "started", "finished", "blocked", "timeout", "error", "rejected"}]

\* What a step of the interaction finds and holds.
PanesInv ==
  /\ reached \in BOOLEAN /\ running \subseteq {"a", "b", "c"}
  /\ pages \in Seq(Panes)
  /\ front \in [Panes -> {"a", "b", "c"}] /\ \A w \in Panes : HomeWindows[front[w]] = w
  /\ dialog \in [Panes -> Dialogs]

RunnerInv ==
  /\ PanesInv
  /\ changes \in 0..MaxChanges
  /\ stage \in {"idle", "acting", "looking", "looking again", "done"}
  /\ stage \notin {"idle", "done"} => request \in Sr!Requests
  /\ before \in Sr!Snapshot
  /\ clock \in 0..Timeout /\ attempts \in 0..clock
  /\ result = None \/ result \in Answers

LEMMA TheHomes ==
  /\ Sr!Chats = {"a", "b", "c"} /\ Sr!Windows = Panes
  /\ \A c \in {"a", "b", "c"} : HomeWindows[c] \in Panes
BY DEF Sr!Chats, Sr!Windows, HomeWindows, Panes

LEMMA LookType ==
  ASSUME PanesInv, NEW w
  PROVE  Sr!captureSnapshot(w) \in Sr!Snapshot
<1>1. Sr!emptyInteractionSnapshot \in Sr!Snapshot
  BY DEF Sr!emptyInteractionSnapshot, Sr!Snapshot
<1>2. ASSUME reached, Sr!Candidates(w) # {}
      PROVE  Sr!captureSnapshot(w) \in Sr!Snapshot
  <2>1. Sr!Candidates(w) \subseteq DOMAIN pages /\ DOMAIN pages \subseteq Nat
    <3>1. DOMAIN pages = 1 .. Len(pages)
      BY DEF PanesInv
    <3>2. Len(pages) \in Nat
      BY DEF PanesInv
    <3> QED BY <3>1, <3>2 DEF Sr!Candidates
  <2>2. PICK i \in Sr!Candidates(w) : \A j \in Sr!Candidates(w) : i <= j
    BY <1>2, <2>1, HasLeast
  <2>3. Sr!Min(Sr!Candidates(w)) \in DOMAIN pages
    BY <2>1, <2>2 DEF Sr!Min
  <2>4. Sr!Target(w) \in Panes
    BY <2>3 DEF PanesInv, Sr!Target
  <2>5. front[Sr!Target(w)] \in {"a", "b", "c"} /\ dialog[Sr!Target(w)] \in Dialogs
    BY <2>4 DEF PanesInv
  <2>6. Sr!captureSnapshot(w) = [chat |-> front[Sr!Target(w)], busy |-> front[Sr!Target(w)] \in running,
                                 dialog |-> dialog[Sr!Target(w)]]
    BY <1>2 DEF Sr!captureSnapshot
  <2> QED BY <2>5, <2>6, TheHomes DEF Sr!Snapshot, Dialogs
<1> QED BY <1>1, <1>2 DEF Sr!captureSnapshot

\* What agents, people and the request's own action do to the windows.
LEMMA PanesChange ==
  ASSUME PanesInv
  PROVE  /\ UNCHANGED <<reached, pages, front, running, dialog>> => PanesInv'
         /\ Sr!dismissModals => PanesInv'
         /\ \A w \in Panes : Sr!Send(w) => PanesInv'
         /\ \A w : Sr!stopAgent(w) => PanesInv'
         /\ \A c \in {"a", "b", "c"} : Sr!switchComposer(c) => PanesInv'
<1> USE DEF PanesInv, Dialogs
<1>1. ASSUME Sr!dismissModals PROVE PanesInv'
  <2>1. PICK gone \in SUBSET {w \in Sr!Windows : dialog[w] = "modal"} :
          /\ dialog' = [w \in Sr!Windows |-> IF w \in gone THEN "none" ELSE dialog[w]]
          /\ \E sent \in SUBSET Sr!Submissions(gone) : running' = running \cup sent
          /\ UNCHANGED <<reached, pages, front>>
    BY <1>1 DEF Sr!dismissModals
  <2>2. Sr!Submissions(gone) \subseteq {"a", "b", "c"}
    BY TheHomes DEF Sr!Submissions
  <2> QED BY <2>1, <2>2, TheHomes
<1>2. ASSUME NEW w \in Panes, Sr!Send(w) PROVE PanesInv'
  <2>1. /\ running' = running \cup {front[w]} /\ UNCHANGED <<reached, pages, front>>
        /\ dialog' = [dialog EXCEPT ![w] = IF @ = "modal" THEN "none" ELSE @]
    BY <1>2 DEF Sr!Send
  <2>2. front[w] \in {"a", "b", "c"} /\ dialog[w] \in Dialogs
    OBVIOUS
  <2>3. running' \subseteq {"a", "b", "c"}
    BY <2>1, <2>2
  <2>4. dialog' \in [Panes -> Dialogs]
    BY <2>1, <2>2
  <2>5. UNCHANGED <<reached, pages, front>>
    BY <2>1
  <2> QED BY <2>3, <2>4, <2>5
<1>3. ASSUME NEW w, Sr!stopAgent(w) PROVE PanesInv'
  BY <1>3 DEF Sr!stopAgent
<1>4. ASSUME NEW c \in {"a", "b", "c"}, Sr!switchComposer(c) PROVE PanesInv'
  <2>1. /\ front' = [front EXCEPT ![HomeWindows[c]] = c] /\ UNCHANGED <<reached, pages, running, dialog>>
    BY <1>4 DEF Sr!switchComposer
  <2> QED BY <2>1, TheHomes
<1> QED BY <1>1, <1>2, <1>3, <1>4

LEMMA RunnerStep == RunnerInv /\ [Sr!Next]_stepVars => RunnerInv'
<1> SUFFICES ASSUME RunnerInv, [Sr!Next]_stepVars PROVE RunnerInv'
  OBVIOUS
<1>0. /\ Timeout \in Nat /\ FallbackMost \in Nat /\ MaxChanges \in Nat /\ Timeout > 0
  <2>1. Timeout \in Nat \ {0} /\ FallbackMost \in Nat \ {0} /\ MaxChanges \in Nat
    BY PartsAssumption DEF Sr!LimitAssumption
  <2> QED BY <2>1
<1>t. /\ PanesInv
      /\ changes \in 0..MaxChanges
      /\ stage \in {"idle", "acting", "looking", "looking again", "done"}
      /\ stage \notin {"idle", "done"} => request \in Sr!Requests
      /\ before \in Sr!Snapshot
      /\ clock \in 0..Timeout /\ attempts \in 0..clock
      /\ result = None \/ result \in Answers
  BY DEF RunnerInv
<1>g. ASSUME /\ PanesInv'
             /\ changes' \in 0..MaxChanges
             /\ stage' \in {"idle", "acting", "looking", "looking again", "done"}
             /\ stage' \notin {"idle", "done"} => request' \in Sr!Requests
             /\ before' \in Sr!Snapshot
             /\ clock' \in 0..Timeout /\ attempts' \in 0..clock'
             /\ result' = None \/ result' \in Answers
      PROVE  RunnerInv'
  BY <1>g DEF RunnerInv, Sr!Snapshot, Sr!Requests
<1>c. changes \in 0..MaxChanges /\ clock \in 0..Timeout /\ attempts \in 0..clock
  BY <1>t
<1>l. Sr!Limit \in Nat /\ Sr!Limit <= Timeout
  <2>1. Sr!Limit \in {Timeout, FallbackMost} /\ (Sr!Limit = FallbackMost => FallbackMost = Timeout \/ ~ (Timeout < FallbackMost))
    BY DEF Sr!Limit
  <2> QED BY ONLY <1>0, <2>1
<1>z. 0 \in 0..Timeout /\ 0 \in 0..0
  BY <1>0
<1>w. UNCHANGED <<reached, pages, front, running, dialog>> => PanesInv'
  BY <1>t, PanesChange
<1>1. CASE UNCHANGED stepVars
  BY <1>1, <1>t, <1>g, <1>w DEF stepVars
<1>2. ASSUME NEW r \in Sr!Requests, Sr!Begin(r) PROVE RunnerInv'
  <2>1. /\ request' = r /\ before' = Sr!captureSnapshot(r.window)
        /\ stage' \in {"acting", "looking"} /\ attempts' = 0 /\ clock' = 0
        /\ UNCHANGED <<reached, pages, front, running, dialog, changes, result>>
    BY <1>2 DEF Sr!Begin, Sr!StartWait, Sr!worldVars
  <2>2. before' \in Sr!Snapshot
    BY <1>t, <2>1, LookType
  <2> QED BY <1>t, <1>g, <1>w, <1>z, <2>1, <2>2
\* An answer ends the request.
<1>3. ASSUME NEW v \in {"matched", "unchanged", "started", "finished", "blocked", "timeout", "error", "rejected"},
             NEW ok \in BOOLEAN, NEW after \in Sr!Snapshot, Sr!Finish(v, ok, after),
             PanesInv', changes' = changes
      PROVE  RunnerInv'
  <2>1. /\ result' = [ok |-> ok, verdict |-> v, chat |-> after.chat] /\ stage' = "done"
        /\ before' = Sr!emptyInteractionSnapshot /\ clock' = 0 /\ attempts' = 0
    BY <1>3 DEF Sr!Finish
  <2>2. result' \in Answers
    BY <2>1, TheHomes DEF Answers, Sr!Snapshot
  <2>3. before' \in Sr!Snapshot
    BY <2>1 DEF Sr!emptyInteractionSnapshot, Sr!Snapshot
  <2> QED BY <1>t, <1>g, <1>z, <1>3, <2>1, <2>2, <2>3
<1>4. CASE Sr!Act
  <2>1. /\ stage = "acting" /\ stage' = "looking" /\ request' = request /\ before' = before
        /\ UNCHANGED <<changes, clock, attempts, result>>
        /\ Sr!Acted \/ UNCHANGED <<reached, pages, front, running, dialog>>
    BY <1>4 DEF Sr!Act, Sr!Witness
  <2>2. ASSUME NEW w PROVE Sr!Listed(w) \subseteq Panes
    <3>1. pages \in Seq(Panes)
      BY <1>t DEF PanesInv
    <3>2. \A i \in DOMAIN pages : pages[i] \in Panes
      BY ONLY <3>1
    <3> QED BY <3>2 DEF Sr!Listed, Sr!Candidates
  <2>3. PanesInv'
    BY <1>t, <1>w, <2>1, <2>2, PanesChange, TheHomes DEF Sr!Acted
  <2> QED BY <1>t, <1>g, <2>1, <2>3
<1>5. CASE Sr!Look
  <2>1. /\ stage \in {"looking", "looking again"} /\ clock < Sr!Limit
        /\ UNCHANGED <<reached, pages, front, running, dialog, changes>>
    BY <1>5 DEF Sr!Look, Sr!Looking, Sr!worldVars
  <2>3. CASE ~ Sr!Matches(request.expect, before, Sr!captureSnapshot(request.window))
    <3>1. /\ attempts' = attempts + 1 /\ clock' = clock + 1
          /\ UNCHANGED <<request, stage, before, result>>
      BY <1>5, <2>3 DEF Sr!Look
    <3>2. clock' \in 0..Timeout /\ attempts' \in 0..clock'
      <4>1. clock < Sr!Limit /\ attempts' = attempts + 1 /\ clock' = clock + 1
        BY <2>1, <3>1
      <4> QED BY ONLY <1>0, <1>c, <1>l, <4>1
    <3> QED BY <1>t, <1>g, <1>w, <2>1, <3>1, <3>2
  <2>4. CASE Sr!Matches(request.expect, before, Sr!captureSnapshot(request.window))
    <3>1. Sr!captureSnapshot(request.window) \in Sr!Snapshot
      BY <1>t, LookType
    <3>2. \/ Sr!Finish("error", FALSE, Sr!captureSnapshot(request.window))
          \/ Sr!Finish(Sr!VerdictOf[request.expect], TRUE, Sr!captureSnapshot(request.window))
      BY <1>5, <2>4 DEF Sr!Look
    <3>3. Sr!VerdictOf[request.expect] \in {"matched", "unchanged", "started", "finished", "blocked"}
      BY <2>4 DEF Sr!Matches, Sr!VerdictOf
    <3> QED BY <1>3, <1>w, <2>1, <3>1, <3>2, <3>3
  <2> QED BY <2>3, <2>4
<1>6. ASSUME Sr!TimedOut, PanesInv', changes' = changes PROVE RunnerInv'
  <2>1. Sr!captureSnapshot(request.window) \in Sr!Snapshot
    BY <1>t, LookType
  <2>2. \/ Sr!Finish("error", FALSE, Sr!captureSnapshot(request.window))
        \/ Sr!Finish("timeout", FALSE, Sr!captureSnapshot(request.window))
    BY <1>6 DEF Sr!TimedOut
  <2> QED BY <1>3, <1>6, <2>1, <2>2
<1>7. CASE Sr!GiveUp
  <2>1. Sr!TimedOut /\ UNCHANGED <<reached, pages, front, running, dialog, changes>>
    BY <1>7 DEF Sr!GiveUp, Sr!worldVars
  <2> QED BY <1>6, <1>w, <2>1
<1>8. CASE Sr!Reject
  <2>1. /\ Sr!Finish("rejected", FALSE, Sr!emptyInteractionSnapshot)
        /\ UNCHANGED <<reached, pages, front, running, dialog, changes>>
    BY <1>8 DEF Sr!Reject, Sr!worldVars
  <2>2. Sr!emptyInteractionSnapshot \in Sr!Snapshot
    BY DEF Sr!emptyInteractionSnapshot, Sr!Snapshot
  <2> QED BY <1>3, <1>w, <2>1, <2>2
<1>9. CASE Sr!Fallback
  <2>0. changes' = changes /\ stage = "looking"
    BY <1>9 DEF Sr!Fallback
  <2>1. CASE Sr!TimedOut /\ UNCHANGED <<reached, pages, front, running, dialog>>
    BY <1>6, <1>w, <2>0, <2>1
  <2>2. CASE /\ Sr!dismissModals /\ stage' = "looking again" /\ clock' = 0 /\ attempts' = 0
             /\ UNCHANGED <<request, result>> /\ before' = before
    <3>1. PanesInv'
      BY <1>t, <2>2, PanesChange
    <3> QED BY <1>t, <1>g, <1>z, <2>0, <2>2, <3>1
  <2> QED BY <1>9, <2>1, <2>2 DEF Sr!Fallback, Sr!StartWait, Sr!Baseline
<1>10. CASE Sr!Elapse
  <2>1. /\ stage \in {"acting", "looking", "looking again"} /\ clock < Sr!Limit /\ clock' = clock + 1
        /\ UNCHANGED <<reached, pages, front, running, dialog, changes, request, stage, before, attempts, result>>
    BY <1>10 DEF Sr!Elapse, Sr!worldVars
  <2>3. clock' \in 0..Timeout /\ attempts' \in 0..clock'
    <3>1. clock < Sr!Limit /\ clock' = clock + 1 /\ attempts' = attempts
      BY <2>1
    <3> QED BY ONLY <1>0, <1>c, <1>l, <3>1
  <2> QED BY <1>t, <1>g, <1>w, <2>1, <2>3
<1>11. CASE Sr!Change
  <2>1. /\ stage \notin {"idle", "done"} /\ changes < MaxChanges /\ changes' = changes + 1
        /\ request' = request /\ before' = before /\ UNCHANGED <<stage, clock, attempts, result>>
    BY <1>11 DEF Sr!Change, Sr!Witness
  <2>2. changes' \in 0..MaxChanges
    <3>1. changes < MaxChanges /\ changes' = changes + 1
      BY <2>1
    <3> QED BY ONLY <1>0, <1>c, <3>1
  <2>3. CASE \E c \in Sr!Chats : /\ running' = IF c \in running THEN running \ {c} ELSE running \cup {c}
                                 /\ UNCHANGED <<reached, pages, front, dialog>>
    <3>1. PanesInv'
      BY <1>t, <2>3, TheHomes DEF PanesInv
    <3> QED BY <1>t, <1>g, <2>1, <2>2, <3>1
  <2>4. CASE \E c \in Sr!Chats : Sr!switchComposer(c)
    <3>1. PanesInv'
      BY <1>t, <2>4, PanesChange, TheHomes
    <3> QED BY <1>t, <1>g, <2>1, <2>2, <3>1
  <2>5. CASE \E w \in Sr!Windows : \E d \in Dialogs :
               dialog' = [dialog EXCEPT ![w] = d] /\ UNCHANGED <<reached, pages, front, running>>
    <3>1. PanesInv'
      <4>1. PICK w \in Panes, d \in Dialogs : dialog' = [dialog EXCEPT ![w] = d]
        BY <2>5, TheHomes
      <4>2. dialog' \in [Panes -> Dialogs]
        BY <1>t, <4>1 DEF PanesInv
      <4> QED BY <1>t, <2>5, <4>2 DEF PanesInv
    <3> QED BY <1>t, <1>g, <2>1, <2>2, <3>1
  <2>6. CASE reached' = ~ reached /\ UNCHANGED <<pages, front, running, dialog>>
    <3>1. PanesInv'
      BY <1>t, <2>6 DEF PanesInv
    <3> QED BY <1>t, <1>g, <2>1, <2>2, <3>1
  <2>7. CASE /\ Len(pages) > 1 /\ pages' \in {Tail(pages), Tail(pages) \o <<Head(pages)>>}
             /\ UNCHANGED <<reached, front, running, dialog>>
    <3>1. pages' \in Seq(Panes)
      <4>1. pages \in Seq(Panes) /\ pages # <<>>
        <5>1. pages \in Seq(Panes) /\ Len(pages) > 1
          BY <1>t, <2>7 DEF PanesInv
        <5> QED BY ONLY <5>1
      <4>2. Tail(pages) \in Seq(Panes) /\ Head(pages) \in Panes
        BY <4>1
      <4>3. <<Head(pages)>> \in Seq(Panes)
        BY <4>2
      <4>4. Tail(pages) \o <<Head(pages)>> \in Seq(Panes)
        BY <4>2, <4>3
      <4> QED BY <2>7, <4>2, <4>4
    <3>2. PanesInv'
      BY <1>t, <2>7, <3>1 DEF PanesInv
    <3> QED BY <1>t, <1>g, <2>1, <2>2, <3>2
  <2> QED BY <1>11, <2>3, <2>4, <2>5, <2>6, <2>7 DEF Sr!Change, Dialogs
<1> QED BY <1>1, <1>2, <1>4, <1>5, <1>7, <1>8, <1>9, <1>10, <1>11 DEF Sr!Next

LEMMA RunnerInitial == Sr!Init => RunnerInv
<1> SUFFICES ASSUME Sr!Init PROVE RunnerInv
  OBVIOUS
<1>1. Timeout \in Nat /\ MaxChanges \in Nat /\ 0 \in 0..Timeout /\ 0 \in 0..0 /\ 0 \in 0..MaxChanges
  <2>1. Timeout \in Nat /\ MaxChanges \in Nat
    BY PartsAssumption DEF Sr!LimitAssumption
  <2> QED BY <2>1
<1>2. Sr!Cardinality(Sr!Windows) \in Nat
  <2>1. IsFiniteSet({"left"}) /\ {"left", "right"} = {"left"} \cup {"right"}
    BY FS_Singleton
  <2>2. IsFiniteSet({"left", "right"})
    BY <2>1, FS_AddElement
  <2>3. Cardinality(Sr!Windows) \in Nat
    BY <2>2, TheHomes, FS_CardinalityType DEF Panes
  <2> QED BY <2>3 DEF Sr!Cardinality, Cardinality
<1>3. pages \in [1..Sr!Cardinality(Sr!Windows) -> Panes]
  BY TheHomes DEF Sr!Init
<1>4. pages \in Seq(Panes)
  <2> DEFINE n == Sr!Cardinality(Sr!Windows)
  <2>1. n \in Nat /\ pages \in [1..n -> Panes]
    BY <1>2, <1>3
  <2> HIDE DEF n
  <2> QED BY ONLY <2>1, SeqDef
<1>5. PanesInv
  BY <1>4, TheHomes DEF Sr!Init, PanesInv, Dialogs
<1>6. before \in Sr!Snapshot
  BY DEF Sr!Init, Sr!emptyInteractionSnapshot, Sr!Snapshot
<1>7. changes = 0 /\ stage = "idle" /\ clock = 0 /\ attempts = 0 /\ result = None
  BY DEF Sr!Init
<1> QED BY <1>1, <1>5, <1>6, <1>7 DEF RunnerInv

LEMMA RunnerTypes == RunnerInv => Sr!TypeOK
<1> SUFFICES ASSUME RunnerInv PROVE Sr!TypeOK
  OBVIOUS
<1>1. attempts \in 0..Timeout
  <2>1. Timeout \in Nat
    BY PartsAssumption DEF Sr!LimitAssumption
  <2>2. clock \in 0..Timeout /\ attempts \in 0..clock
    BY DEF RunnerInv
  <2> QED BY ONLY <2>1, <2>2
<1> QED BY <1>1, TheHomes DEF RunnerInv, PanesInv, Sr!TypeOK, Answers, Dialogs

\* What holds of all parts, whichever of them moves.
ServerInv == ViewInv /\ AgentTypes /\ Cs!TypeOK /\ At!TypeOK /\ RunnerInv /\ LookInv

(***************************************************************************)
(* The parts of the server are of their types throughout, for all limits    *)
(* and numbers of callers, tokens, messages and changes.                      *)
(***************************************************************************)
THEOREM TypeCorrect == ServerSpec => []ServerTypeOK
<1>1. ServerInit => ServerInv
  BY ViewInitial, AgentInitial, StoreInitial, TokenInitial, RunnerInitial, LookInitial DEF ServerInit, ServerInv
<1>2. ServerInv /\ [ServerNext]_allVars => ServerInv'
  <2>1. ServerInv /\ [ServerNext]_allVars => ViewInv' /\ AgentTypes'
    BY ViewStep, AgentStep, PartSteps DEF ServerInv
  <2>2. ServerInv /\ [ServerNext]_allVars => Cs!TypeOK' /\ At!TypeOK'
    BY StoreStep, TokenStep, PartSteps DEF ServerInv
  <2>3. ServerInv /\ [ServerNext]_allVars => RunnerInv' /\ LookInv'
    BY RunnerStep, LookStep, PartSteps DEF ServerInv
  <2> QED BY <2>1, <2>2, <2>3 DEF ServerInv
<1>3. ServerInv => ServerTypeOK
  BY ViewTypes, RunnerTypes DEF ServerInv, AgentTypes, LookInv, ServerTypeOK
<1> QED BY <1>1, <1>2, <1>3, PTL DEF ServerSpec
==============================================================================
