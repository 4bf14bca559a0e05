----------------------------- MODULE RecordsProofs -----------------------------
(***************************************************************************)
(* Proofs about what the parts of MCHost record: that it is true of what    *)
(* happened.  The parts whose state is one process' alone are in HostProofs. *)
(***************************************************************************)
EXTENDS HostProofs, NaturalsInduction

------------------------------------------------------------------------------
(* The usage page *)

UsRow == [pct : Readings \cup {None}]

\* The last row is the one of the latest day that has one.
UsLast ==
  /\ table \in [1 .. Days -> {None} \cup UsRow]
  /\ today \in 1 .. Days
  /\ \A d \in Us!Stored : d <= today
  /\ Us!Stored # {} =>
       \E d \in Us!Stored : saved = table[d] /\ \A e \in Us!Stored : e <= d

\* Whoever has selected the section anew was there when it was loaded.
UsForced ==
  \A p \in forced : /\ probing[p] # "idle"
                    /\ section = "plan" /\ shown # None => p \in loaded

UsTaken ==
  \A p \in Us!Probers : taken[p] # None =>
    /\ taken[p].from = "page" /\ taken[p].pct # None /\ taken[p].forced => taken[p].loaded
    /\ taken[p].from = "database" => p = GuardProcess /\ saved # None /\ taken[p].pct = saved.pct

UsInv == Us!TypeOK /\ taken = [p \in Us!Probers |-> taken[p]] /\ UsLast /\ UsForced /\ UsTaken

LEMMA UsLastStored ==
  ASSUME UsLast, Us!Stored # {}
  PROVE  saved = Us!LastStored /\ saved # None
<1>1. PICK d \in Us!Stored : saved = table[d] /\ \A e \in Us!Stored : e <= d
  BY DEF UsLast
<1>2. Us!Stored \subseteq Int
  BY DEF Us!Stored, UsLast
<1>3. Us!Max(Us!Stored) = d
  <2>1. \A e \in Us!Stored : (\A y \in Us!Stored : e >= y) <=> e = d
    BY <1>1, <1>2
  <2> HIDE DEF Us!Stored
  <2> QED BY <2>1 DEF Us!Max
<1> QED BY <1>1, <1>3 DEF Us!LastStored, Us!Stored

LEMMA UsStep == UsInv /\ [Us!Next]_usageVars => UsInv'
<1> SUFFICES ASSUME UsInv, [Us!Next]_usageVars PROVE UsInv'
  OBVIOUS
<1>0. Days \in Nat /\ None \notin UsRow /\ None \notin Readings
  BY PartsAssumption DEF Us!DaysAssumption, UsRow
<1>1. CASE UNCHANGED usageVars
  <2>1. Us!TypeOK' /\ (taken = [p \in Us!Probers |-> taken[p]])'
    BY <1>1 DEF UsInv, usageVars, Us!TypeOK, Us!Stored
  <2>2. UsLast' /\ UsForced' /\ UsTaken'
    BY <1>1 DEF UsInv, usageVars, UsLast, UsForced, UsTaken, Us!Stored
  <2> QED BY <2>1, <2>2 DEF UsInv
<1> USE DEF Us!Probers
<1> DEFINE Results == Us!Results
           Stages == {"idle", "activate", "ensure", "bounced", "wait"}
<1>2. /\ settings \in {"closed", "behind", "front"} /\ section \in {"general", "plan"}
      /\ shown \in Readings \cup {None} /\ usage \in Readings
      /\ probing \in [Us!Probers -> Stages]
      /\ loaded \subseteq Us!Probers /\ forced \subseteq Us!Probers
  BY DEF UsInv, Us!TypeOK
<1>3. /\ \A p \in Us!Probers : taken[p] # None => taken[p] \in Results
      /\ saved = None \/ saved.pct \in Readings \cup {None}
      /\ taken = [p \in Us!Probers |-> taken[p]]
      /\ \A d \in Us!Stored : table[d].pct \in Readings \cup {None}
  BY DEF UsInv, Us!TypeOK
\* What is stored keeps its place.
<1>4. ASSUME UNCHANGED <<table, saved>>, today' \in 1 .. Days, today <= today'
      PROVE  UsLast' /\ Us!Stored' = Us!Stored
  BY <1>4 DEF UsInv, UsLast, Us!Stored
\* A probe that ends.
<1>5. ASSUME NEW p \in Us!Probers, NEW from \in {"page", "database", "nothing"},
             NEW pct \in Readings \cup {None}, Us!Ends(p, from, pct)
      PROVE  /\ probing' = [probing EXCEPT ![p] = "idle"]
             /\ loaded' = loaded \ {p} /\ forced' = forced \ {p} /\ UNCHANGED <<usage, today>>
             /\ taken' = [q \in Us!Probers |-> taken'[q]]
             /\ \A q \in Us!Probers : q # p => taken'[q] = taken[q]
             /\ taken'[p] \in Results
             /\ taken'[p].from = from /\ taken'[p].pct = pct
             /\ taken'[p].forced => p \in forced
             /\ p \in loaded => taken'[p].loaded
  <2> DEFINE new == [from |-> from, pct |-> pct, loaded |-> p \in loaded, forced |-> p \in forced]
  <2>1. new \in Results /\ new.from = from /\ new.pct = pct
        /\ (new.forced => p \in forced) /\ (p \in loaded => new.loaded)
    <3>1. (p \in loaded) \in BOOLEAN /\ (p \in forced) \in BOOLEAN
      OBVIOUS
    <3>2. ASSUME NEW l \in BOOLEAN, NEW f \in BOOLEAN
          PROVE  LET r == [from |-> from, pct |-> pct, loaded |-> l, forced |-> f]
                 IN  r \in Results /\ r.from = from /\ r.pct = pct /\ r.forced = f /\ r.loaded = l
      BY DEF Us!Results
    <3> HIDE DEF Results
    <3>3. /\ new \in Results /\ new.from = from /\ new.pct = pct
          /\ new.forced = (p \in forced) /\ new.loaded = (p \in loaded)
      BY <3>1, <3>2, Zenon
    <3> QED BY <3>3, Zenon
  <2>2. taken' = [taken EXCEPT ![p] = new]
    BY <1>5 DEF Us!Ends
  <2> HIDE DEF new, Results
  <2>3. taken'[p] = new /\ taken' = [q \in Us!Probers |-> taken'[q]]
        /\ \A q \in Us!Probers : q # p => taken'[q] = taken[q]
    BY <1>3, <2>2
  <2>4. /\ probing' = [probing EXCEPT ![p] = "idle"]
        /\ loaded' = loaded \ {p} /\ forced' = forced \ {p} /\ UNCHANGED <<usage, today>>
    BY <1>5 DEF Us!Ends, Us!To
  <2> QED BY <2>1, <2>3, <2>4
<1> HIDE DEF Results
\* One that ends with the page and the table as they are.
<1>6. ASSUME NEW p \in Us!Probers, NEW from \in {"page", "database", "nothing"},
             NEW pct \in Readings \cup {None}, Us!Ends(p, from, pct),
             UNCHANGED <<settings, section, shown, table, saved>>,
             from = "page" => pct = shown /\ section = "plan",
             from = "database" => p = GuardProcess /\ saved # None /\ pct = saved.pct
      PROVE  UsInv'
  <2>1. UsLast' /\ Us!Stored' = Us!Stored
    BY <1>4, <1>5, <1>6 DEF UsInv, UsLast
  <2>2. UsForced'
    BY <1>2, <1>5, <1>6 DEF UsInv, UsForced
  <2>3. UsTaken'
    <3> SUFFICES ASSUME NEW q \in Us!Probers, taken'[q] # None
                 PROVE  /\ taken'[q].from = "page" /\ taken'[q].pct # None /\ taken'[q].forced => taken'[q].loaded
                        /\ taken'[q].from = "database" =>
                             q = GuardProcess /\ saved' # None /\ taken'[q].pct = saved'.pct
      BY DEF UsTaken
    <3>1. CASE q # p
      <4>1. taken'[q] = taken[q] /\ saved' = saved
        BY <1>5, <1>6, <3>1
      <4> QED BY <4>1 DEF UsInv, UsTaken
    <3>2. CASE q = p
      BY <1>2, <1>5, <1>6, <3>2 DEF UsInv, UsForced
    <3> QED BY <3>1, <3>2
  <2>4. Us!TypeOK'
    <3>1. \A q \in Us!Probers : taken'[q] # None => taken'[q] \in Results
      BY <1>3, <1>5, <1>6
    <3> QED BY <1>2, <1>3, <1>5, <1>6, <2>1, <3>1 DEF UsInv, UsLast, Us!TypeOK, Results
  <2> QED BY <1>5, <1>6, <2>1, <2>2, <2>3, <2>4 DEF UsInv
\* A step that neither reads nor stores.
<1>7. ASSUME UNCHANGED <<table, saved, taken>>, today' \in 1 .. Days, today <= today',
             settings' \in {"closed", "behind", "front"}, section' \in {"general", "plan"},
             shown' \in Readings \cup {None}, usage' \in Readings,
             probing' \in [Us!Probers -> Stages], loaded' \subseteq Us!Probers, forced' \subseteq Us!Probers,
             UsForced'
      PROVE  UsInv'
  <2>1. UsLast' /\ Us!Stored' = Us!Stored
    BY <1>4, <1>7
  <2>2. UsTaken'
    BY <1>7 DEF UsInv, UsTaken
  <2>3. Us!TypeOK'
    BY <1>3, <1>7, <2>1 DEF UsLast, Us!TypeOK, Results
  <2> QED BY <1>3, <1>7, <2>1, <2>2, <2>3 DEF UsInv
<1>8. today \in 1 .. Days /\ today \in Int
  BY DEF UsInv, UsLast
<1>9. ASSUME NEW p \in Us!Probers, Us!Begin(p) PROVE UsInv'
  <2>1. /\ probing[p] = "idle" /\ probing' = [probing EXCEPT ![p] = "activate"]
        /\ taken' = [taken EXCEPT ![p] = None]
        /\ UNCHANGED <<settings, section, shown, usage, today, table, loaded, forced, saved>>
    BY <1>9 DEF Us!Begin, Us!To, Us!page
  <2>2. UsLast' /\ Us!Stored' = Us!Stored
    BY <1>4, <1>8, <2>1
  <2>3. UsForced'
    BY <1>2, <2>1 DEF UsInv, UsForced
  <2>4. /\ taken' = [q \in Us!Probers |-> taken'[q]] /\ taken'[p] = None
        /\ \A q \in Us!Probers : q # p => taken'[q] = taken[q]
    BY <1>3, <2>1
  <2>5. UsTaken'
    BY <2>1, <2>4 DEF UsInv, UsTaken
  <2>6. probing' \in [Us!Probers -> Stages]
    BY <1>2, <2>1
  <2>7. \A q \in Us!Probers : taken'[q] # None => taken'[q] \in Results
    BY <1>3, <2>4
  <2>8. Us!TypeOK'
    BY <1>2, <1>3, <2>1, <2>2, <2>6, <2>7 DEF UsLast, Us!TypeOK, Results
  <2> QED BY <2>2, <2>3, <2>4, <2>5, <2>8 DEF UsInv
<1>10. ASSUME NEW p \in Us!Probers, Us!Activate(p) PROVE UsInv'
  <2>1. /\ probing[p] = "activate" /\ settings' = "front" /\ probing' = [probing EXCEPT ![p] = "ensure"]
        /\ UNCHANGED <<section, shown, usage, today, table, loaded, forced, taken, saved>>
    BY <1>10 DEF Us!Activate, Us!To
  <2>2. UsForced'
    BY <1>2, <2>1 DEF UsInv, UsForced
  <2> QED BY <1>2, <1>7, <1>8, <2>1, <2>2
<1>11. ASSUME NEW p \in Us!Probers, Us!Ensure(p) PROVE UsInv'
  <2>1. /\ probing[p] = "ensure" /\ UNCHANGED <<settings, usage, today, table, loaded, taken, saved>>
    BY <1>11 DEF Us!Ensure
  <2>2. CASE section' = "general" /\ Us!To(p, "bounced") /\ forced' = forced \cup {p} /\ UNCHANGED shown
    <3>1. UsForced'
      BY <1>2, <2>1, <2>2 DEF UsInv, UsForced, Us!To
    <3> QED BY <1>2, <1>7, <1>8, <2>1, <2>2, <3>1 DEF Us!To
  <2>3. CASE /\ Us!Selected /\ Us!To(p, "wait")
             /\ forced' = forced \/ (forced' = forced \cup {p} /\ section = "general")
    <3>1. UsForced'
      BY <1>2, <2>1, <2>3 DEF UsInv, UsForced, Us!To, Us!Selected
    <3> QED BY <1>2, <1>7, <1>8, <2>1, <2>3, <3>1 DEF Us!To, Us!Selected
  <2>4. PICK hasGeneral \in BOOLEAN :
          IF Us!Leaves(hasGeneral)
            THEN /\ section' = "general" /\ Us!To(p, "bounced")
                 /\ forced' = forced \cup {p} /\ UNCHANGED shown
            ELSE /\ Us!Selected /\ Us!To(p, "wait")
                 /\ forced' = IF section = "general" \/ hasGeneral THEN forced \cup {p} ELSE forced
    BY <1>11 DEF Us!Ensure
  <2>5. CASE Us!Leaves(hasGeneral)
    BY <2>2, <2>4, <2>5
  <2>6. CASE ~ Us!Leaves(hasGeneral)
    <3>1. Us!Selected /\ Us!To(p, "wait")
      BY <2>4, <2>6
    <3>2. CASE section = "general"
      BY <2>3, <2>4, <2>6, <3>1, <3>2
    <3>3. CASE section = "plan"
      <4>1. hasGeneral = FALSE
        BY <2>6, <3>3 DEF Us!Leaves
      <4>2. forced' = forced
        BY <2>4, <2>6, <3>3, <4>1
      <4> QED BY <2>3, <3>1, <4>2
    <3> QED BY <1>2, <3>2, <3>3
  <2> QED BY <2>5, <2>6
<1>12. ASSUME NEW p \in Us!Probers, Us!ClickPlan(p) PROVE UsInv'
  <2>1. /\ probing[p] = "bounced" /\ probing' = [probing EXCEPT ![p] = "wait"]
        /\ UNCHANGED <<settings, usage, today, table, loaded, forced, taken, saved>>
        /\ Us!Selected \/ UNCHANGED <<section, shown>>
    BY <1>12 DEF Us!ClickPlan, Us!To
  <2>2. UsForced'
    BY <1>2, <2>1 DEF UsInv, UsForced, Us!Selected
  <2> QED BY <1>2, <1>7, <1>8, <2>1, <2>2 DEF Us!Selected
<1>13. ASSUME NEW p \in Us!Probers, Us!Read(p) PROVE UsInv'
  <2>1. /\ section = "plan" /\ Us!Ends(p, "page", shown) /\ UNCHANGED <<settings, section, shown>>
        /\ IF p = GuardProcess THEN Us!SaveSnapshot(shown) ELSE UNCHANGED <<table, saved>>
    BY <1>13 DEF Us!Read, Us!page
  <2>2. CASE UNCHANGED <<table, saved>>
    BY <1>2, <1>6, <2>1, <2>2
  <2>3. CASE p = GuardProcess /\ table' = [table EXCEPT ![today] = Us!Row(shown)] /\ saved' = Us!Row(shown)
    <3> DEFINE row == Us!Row(shown)
    <3>1. row \in UsRow /\ row # None /\ row.pct \in Readings \cup {None}
      BY <1>0, <1>2 DEF Us!Row, UsRow
    <3> HIDE DEF row
    <3>2. today' = today
      BY <1>2, <1>5, <2>1
    <3>3. /\ table' \in [1 .. Days -> {None} \cup UsRow] /\ table'[today] = row
          /\ Us!Stored' = Us!Stored \cup {today}
          /\ \A d \in Us!Stored : d # today => table'[d] = table[d]
      BY <1>8, <2>3, <3>1 DEF UsInv, UsLast, Us!Stored, row
    <3>4. UsLast'
      <4>1. \A d \in Us!Stored' : d <= today'
        BY <1>8, <3>2, <3>3 DEF UsInv, UsLast
      <4>2. today \in Us!Stored' /\ saved' = table'[today]
        BY <2>3, <3>3 DEF row
      <4> QED BY <1>8, <3>2, <3>3, <4>1, <4>2 DEF UsLast
    <3>5. UsForced'
      BY <1>2, <1>5, <2>1 DEF UsInv, UsForced
    <3>6. UsTaken'
      <4> SUFFICES ASSUME NEW q \in Us!Probers, taken'[q] # None
                   PROVE  /\ taken'[q].from = "page" /\ taken'[q].pct # None /\ taken'[q].forced
                               => taken'[q].loaded
                          /\ taken'[q].from = "database" =>
                               q = GuardProcess /\ saved' # None /\ taken'[q].pct = saved'.pct
        BY DEF UsTaken
      <4>1. CASE q # p
        <5>1. taken'[q] = taken[q] /\ q # GuardProcess
          BY <1>2, <1>5, <2>1, <2>3, <4>1
        <5> QED BY <5>1 DEF UsInv, UsTaken
      <4>2. CASE q = p
        BY <1>2, <1>5, <2>1, <4>2 DEF UsInv, UsForced
      <4> QED BY <4>1, <4>2
    <3>7. Us!TypeOK'
      <4>1. \A q \in Us!Probers : taken'[q] # None => taken'[q] \in Results
        BY <1>2, <1>3, <1>5, <2>1
      <4>2. \A d \in Us!Stored' : table'[d].pct \in Readings \cup {None}
        BY <1>3, <3>1, <3>3
      <4>3. saved'.pct \in Readings \cup {None}
        BY <2>3, <3>1 DEF row
      <4>4. probing' \in [Us!Probers -> Stages] /\ loaded' \subseteq Us!Probers /\ forced' \subseteq Us!Probers
            /\ usage' = usage
        BY <1>2, <1>5, <2>1
      <4> QED BY <1>2, <2>1, <3>4, <4>1, <4>2, <4>3, <4>4 DEF UsLast, Us!TypeOK, Results
    <3>8. taken' = [q \in Us!Probers |-> taken'[q]]
      BY <1>2, <1>5, <2>1
    <3> QED BY <3>4, <3>5, <3>6, <3>7, <3>8 DEF UsInv
  <2> QED BY <2>1, <2>2, <2>3 DEF Us!SaveSnapshot
<1>14. ASSUME NEW p \in Us!Probers, Us!NoResult(p) PROVE UsInv'
  BY <1>6, <1>14 DEF Us!NoResult, Us!page
<1>15. ASSUME NEW p \in Us!Probers, Us!Throws(p) PROVE UsInv'
  <2>1. UNCHANGED <<settings, section, shown, table, saved>>
    BY <1>15 DEF Us!Throws, Us!page
  <2>2. CASE Us!Ends(p, "nothing", None)
    BY <1>6, <2>1, <2>2
  <2>3. CASE p = GuardProcess /\ Us!Stored # {} /\ Us!Ends(p, "database", Us!LastStored.pct)
    <3>1. saved = Us!LastStored /\ saved # None
      BY <2>3, UsLastStored DEF UsInv
    <3> HIDE DEF Us!LastStored
    <3> QED BY <1>3, <1>6, <2>1, <2>3, <3>1
  <2> QED BY <1>15, <2>2, <2>3 DEF Us!Throws
<1>16. CASE Us!Load
  <2>1. UsForced'
    BY <1>2, <1>16 DEF Us!Load, UsInv, UsForced
  <2>2. loaded' \subseteq Us!Probers
    BY <1>16 DEF Us!Load
  <2> QED BY <1>2, <1>7, <1>8, <1>16, <2>1, <2>2 DEF Us!Load
<1>17. CASE Us!World
  <2>1. UsForced'
    BY <1>2, <1>17 DEF Us!World, Us!Selected, Us!page, UsInv, UsForced
  <2>2. today' \in 1 .. Days /\ today <= today'
    BY <1>0, <1>8, <1>17 DEF Us!World
  <2>3. /\ settings' \in {"closed", "behind", "front"} /\ section' \in {"general", "plan"}
        /\ shown' \in Readings \cup {None} /\ usage' \in Readings
    BY <1>2, <1>17 DEF Us!World, Us!Selected, Us!page
  <2>4. UNCHANGED <<table, probing, loaded, forced, taken, saved>>
    BY <1>17 DEF Us!World
  <2> QED BY <1>2, <1>7, <2>1, <2>2, <2>3, <2>4
<1> QED BY <1>1, <1>9, <1>10, <1>11, <1>12, <1>13, <1>14, <1>15, <1>16, <1>17 DEF Us!Next

LEMMA UsInitial == Us!Init => UsInv
<1> SUFFICES ASSUME Us!Init PROVE UsInv
  OBVIOUS
<1>1. Days \in Nat /\ Days # 0 /\ Readings # {}
  BY PartsAssumption DEF Us!DaysAssumption
<1>2. Us!Stored = {}
  BY DEF Us!Init, Us!Stored
<1>3. taken = [p \in Us!Probers |-> taken[p]] /\ \A p \in Us!Probers : taken[p] = None
  BY DEF Us!Init
<1>4. UsLast /\ UsForced /\ UsTaken
  BY <1>1, <1>2, <1>3 DEF Us!Init, UsLast, UsForced, UsTaken
<1> QED BY <1>2, <1>3, <1>4 DEF Us!Init, Us!TypeOK, UsLast, UsInv


------------------------------------------------------------------------------
(* The watchdog's errors *)

StEvent == [type : St!Types, age : 0 .. ErrorAge]

\* The recent errors of a log.
RecentOf(evs) == {i \in DOMAIN evs : evs[i].type = "error" /\ evs[i].age < ErrorAge}

StInv == St!TypeOK /\ Cardinality(RecentOf(events)) <= errors_total

LEMMA StSizes == St!RecentErrorsCounted <=> Cardinality(RecentOf(events)) <= errors_total
<1>1. St!Recent = RecentOf(events)
  BY DEF St!Recent, RecentOf
<1>2. St!Cardinality(St!Recent) = Cardinality(St!Recent)
  BY DEF St!Cardinality, Cardinality
<1> QED BY <1>1, <1>2 DEF St!RecentErrorsCounted

LEMMA RecentFinite ==
  ASSUME NEW evs \in Seq(StEvent)
  PROVE  /\ RecentOf(evs) \subseteq 1 .. Len(evs) /\ IsFiniteSet(RecentOf(evs))
         /\ Cardinality(RecentOf(evs)) \in Nat
<1>1. Len(evs) \in Nat /\ DOMAIN evs = 1 .. Len(evs)
  BY LenProperties
<1>2. IsFiniteSet(1 .. Len(evs))
  BY <1>1, FS_Interval
<1>3. RecentOf(evs) \in SUBSET (1 .. Len(evs))
  BY <1>1 DEF RecentOf
<1>4. IsFiniteSet(RecentOf(evs))
  BY <1>2, <1>3, FS_Subset
<1> QED BY <1>3, <1>4, FS_CardinalityType

\* The first entry that is dropped takes none of the others' errors with it.
LEMMA RecentOfTail ==
  ASSUME NEW evs \in Seq(StEvent), evs # <<>>
  PROVE  Cardinality(RecentOf(Tail(evs))) <= Cardinality(RecentOf(evs))
<1> DEFINE S == RecentOf(Tail(evs))
           T == RecentOf(evs)
           f == [i \in S |-> i + 1]
<1>1. /\ Tail(evs) \in Seq(StEvent) /\ Len(Tail(evs)) = Len(evs) - 1
      /\ \A i \in 1 .. Len(Tail(evs)) : Tail(evs)[i] = evs[i + 1]
  BY HeadTailProperties
<1>2. Len(evs) \in Nat /\ DOMAIN evs = 1 .. Len(evs) /\ DOMAIN Tail(evs) = 1 .. Len(Tail(evs))
  BY <1>1, LenProperties
<1>3. \A i \in S : i \in Int /\ i + 1 \in T
  BY <1>1, <1>2 DEF RecentOf
<1> HIDE DEF S, T
<1>4. f \in Injection(S, T)
  BY <1>3 DEF Injection, IsInjective
<1>5. IsFiniteSet(T)
  BY RecentFinite DEF T
<1> HIDE DEF f
<1>6. Cardinality(S) <= Cardinality(T)
  BY <1>4, <1>5, FS_Injection
<1> QED BY <1>6 DEF S, T

LEMMA RecentOfPush ==
  ASSUME NEW evs \in Seq(StEvent), Len(evs) <= MaxLog, NEW type \in St!Types
  PROVE  /\ St!push(evs, type) \in Seq(StEvent) /\ Len(St!push(evs, type)) <= MaxLog
         /\ Cardinality(RecentOf(St!push(evs, type))) <=
              Cardinality(RecentOf(evs)) + (IF type = "error" THEN 1 ELSE 0)
<1> DEFINE e == [type |-> type, age |-> 0]
           all == Append(evs, e)
           n == Len(evs)
<1>0. MaxLog \in Nat /\ MaxLog # 0 /\ ErrorAge \in Nat
  BY PartsAssumption DEF St!LimitsAssumption
<1>1. e \in StEvent /\ e.type = type
  BY <1>0 DEF StEvent
<1> HIDE DEF e
<1>2. /\ all \in Seq(StEvent) /\ all # <<>> /\ Len(all) = n + 1 /\ n \in Nat
      /\ DOMAIN evs = 1 .. n /\ DOMAIN all = 1 .. (n + 1)
      /\ all[n + 1] = e /\ \A i \in 1 .. n : all[i] = evs[i]
  BY <1>1, AppendProperties, LenProperties
<1> HIDE DEF all, n
<1>3. IsFiniteSet(RecentOf(evs)) /\ Cardinality(RecentOf(evs)) \in Nat
      /\ IsFiniteSet(RecentOf(all)) /\ Cardinality(RecentOf(all)) \in Nat
  BY <1>2, RecentFinite
<1>4. Cardinality(RecentOf(all)) <= Cardinality(RecentOf(evs)) + (IF type = "error" THEN 1 ELSE 0)
  <2>1. CASE type = "error"
    <3>1. RecentOf(all) \subseteq RecentOf(evs) \cup {n + 1}
      BY <1>2 DEF RecentOf
    <3>2. /\ IsFiniteSet(RecentOf(evs) \cup {n + 1})
          /\ Cardinality(RecentOf(evs) \cup {n + 1}) <= Cardinality(RecentOf(evs)) + 1
      <4>1. ASSUME NEW R, IsFiniteSet(R), Cardinality(R) \in Nat, NEW x
            PROVE  IsFiniteSet(R \cup {x}) /\ Cardinality(R \cup {x}) <= Cardinality(R) + 1
        <5>1. /\ IsFiniteSet(R \cup {x})
              /\ Cardinality(R \cup {x}) = IF x \in R THEN Cardinality(R) ELSE Cardinality(R) + 1
          BY <4>1, FS_AddElement, Zenon
        <5>2. CASE x \in R
          BY <4>1, <5>1, <5>2
        <5>3. CASE x \notin R
          BY <4>1, <5>1, <5>3
        <5> QED BY <5>2, <5>3
      <4> QED BY <1>3, <4>1
    <3>3. Cardinality(RecentOf(all)) <= Cardinality(RecentOf(evs) \cup {n + 1})
          /\ Cardinality(RecentOf(evs) \cup {n + 1}) \in Nat
      BY <3>1, <3>2, FS_Subset, FS_CardinalityType
    <3> QED BY <1>3, <2>1, <3>2, <3>3
  <2>2. CASE type # "error"
    <3>1. RecentOf(all) \subseteq RecentOf(evs)
      BY <1>1, <1>2, <2>2 DEF RecentOf
    <3>2. Cardinality(RecentOf(all)) <= Cardinality(RecentOf(evs))
      BY <1>3, <3>1, FS_Subset
    <3> QED BY <1>3, <2>2, <3>2
  <2> QED BY <2>1, <2>2
<1>5. CASE n + 1 > MaxLog
  <2>1. St!push(evs, type) = Tail(all)
    BY <1>2, <1>5 DEF St!push, all, e
  <2>2. Tail(all) \in Seq(StEvent) /\ Len(Tail(all)) = n
    BY <1>2, HeadTailProperties
  <2>3. Cardinality(RecentOf(Tail(all))) <= Cardinality(RecentOf(all))
        /\ Cardinality(RecentOf(Tail(all))) \in Nat
    BY <1>2, <2>2, RecentOfTail, RecentFinite
  <2>4. Cardinality(RecentOf(Tail(all))) <= Cardinality(RecentOf(evs)) + (IF type = "error" THEN 1 ELSE 0)
    BY <1>3, <1>4, <2>3
  <2> QED BY <2>1, <2>2, <2>4 DEF n
<1>6. CASE ~ (n + 1 > MaxLog)
  <2>1. St!push(evs, type) = all
    BY <1>2, <1>6 DEF St!push, all, e
  <2> QED BY <1>0, <1>2, <1>4, <1>6, <2>1
<1> QED BY <1>5, <1>6

LEMMA StStep == StInv /\ [St!Next]_statVars => StInv'
<1> SUFFICES ASSUME StInv, [St!Next]_statVars PROVE StInv'
  OBVIOUS
<1>0. MaxLog \in Nat /\ MaxLog # 0 /\ ErrorAge \in Nat /\ ErrorAge # 0 /\ MaxErrors \in Nat /\ MaxTicks \in Nat
  BY PartsAssumption DEF St!LimitsAssumption
<1>1. CASE UNCHANGED statVars
  BY <1>1 DEF statVars, StInv, St!TypeOK
<1> DEFINE count == Cardinality(RecentOf(events))
<1>2. events \in Seq(StEvent) /\ Len(events) <= MaxLog /\ count <= errors_total /\ count \in Nat
  BY RecentFinite DEF StInv, St!TypeOK, StEvent
<1>3. /\ errors_total \in 0 .. MaxErrors /\ recovered \in 0 .. MaxErrors /\ paused \in BOOLEAN
      /\ ticks \in 0 .. MaxTicks /\ lastError \in 0 .. ErrorAge
  BY DEF StInv, St!TypeOK
\* An entry is written.
<1>4. ASSUME NEW type \in St!Types, events' = St!push(events, type)
      PROVE  /\ events' \in Seq(StEvent) /\ Len(events') <= MaxLog
             /\ Cardinality(RecentOf(events')) \in Nat
             /\ Cardinality(RecentOf(events')) <= count + (IF type = "error" THEN 1 ELSE 0)
  BY <1>2, <1>4, RecentOfPush, RecentFinite
<1>5. ASSUME events' \in Seq(StEvent), Len(events') <= MaxLog,
             Cardinality(RecentOf(events')) <= errors_total', errors_total' \in 0 .. MaxErrors,
             recovered' \in 0 .. MaxErrors, paused' \in BOOLEAN, ticks' \in 0 .. MaxTicks,
             lastError' \in 0 .. ErrorAge
      PROVE  StInv'
  BY <1>5 DEF StInv, St!TypeOK, StEvent
<1> HIDE DEF count
<1>6. {"poll", "observe", "slow_recover", "error", "control"} \subseteq St!Types
  BY DEF St!Types
<1>7. CASE St!TickBegins
  <2>1. /\ errors_total' = St!Decayed /\ events' = St!push(events, "poll") /\ ticks < MaxTicks
        /\ ticks' = ticks + 1 /\ UNCHANGED <<recovered, paused, lastError>>
    BY <1>7 DEF St!TickBegins
  <2>2. Cardinality(RecentOf(events')) <= count /\ Cardinality(RecentOf(events')) \in Nat
        /\ events' \in Seq(StEvent) /\ Len(events') <= MaxLog
    BY <1>2, <1>4, <1>6, <2>1
  <2>3. count <= errors_total' /\ errors_total' \in 0 .. MaxErrors
    <3>1. CASE St!Recent = {}
      <4>1. errors_total' = 0
        BY <2>1, <3>1 DEF St!Decayed
      <4>2. RecentOf(events) = {}
        BY <3>1 DEF St!Recent, RecentOf
      <4>3. count = 0
        BY <4>2, FS_EmptySet DEF count
      <4> QED BY <1>0, <4>1, <4>3
    <3>2. CASE St!Recent # {}
      BY <1>2, <1>3, <2>1, <3>2 DEF St!Decayed
    <3> QED BY <3>1, <3>2
  <2>4. Cardinality(RecentOf(events')) <= errors_total'
    BY <1>2, <1>3, <2>2, <2>3
  <2>5. ticks' \in 0 .. MaxTicks
    BY <1>0, <1>3, <2>1
  <2> QED BY <1>3, <1>5, <2>1, <2>2, <2>3, <2>4, <2>5
<1>8. ASSUME NEW type \in {"observe", "slow_recover"}, St!Records(type), recovered' \in 0 .. MaxErrors
      PROVE  StInv'
  <2>1. events' = St!push(events, type) /\ UNCHANGED <<errors_total, paused, ticks, lastError>>
    BY <1>8 DEF St!Records
  <2>2. Cardinality(RecentOf(events')) <= count /\ Cardinality(RecentOf(events')) \in Nat
        /\ events' \in Seq(StEvent) /\ Len(events') <= MaxLog
    BY <1>2, <1>4, <1>6, <2>1
  <2>3. Cardinality(RecentOf(events')) <= errors_total'
    BY <1>2, <1>3, <2>1, <2>2
  <2> QED BY <1>3, <1>5, <1>8, <2>1, <2>2, <2>3
<1>9. CASE St!Observes
  BY <1>3, <1>8, <1>9 DEF St!Observes
<1>10. CASE St!RecoversSlow
  <2>1. recovered' \in 0 .. MaxErrors
    BY <1>0, <1>3, <1>10 DEF St!RecoversSlow
  <2> QED BY <1>8, <1>10, <2>1 DEF St!RecoversSlow
<1>11. CASE St!TickEnds
  <2>1. ticks' \in 0 .. MaxTicks
    BY <1>0, <1>3, <1>11 DEF St!TickEnds
  <2>2. UNCHANGED <<events, errors_total, recovered, paused, lastError>>
    BY <1>11 DEF St!TickEnds
  <2> QED BY <1>2, <1>3, <1>5, <2>1, <2>2 DEF count
<1>12. CASE St!Fails
  <2>1. /\ ticks > 0 /\ ticks' = ticks - 1 /\ errors_total < MaxErrors /\ errors_total' = errors_total + 1
        /\ events' = St!push(events, "error") /\ lastError' = 0 /\ UNCHANGED <<recovered, paused>>
    BY <1>12 DEF St!Fails
  <2>2. Cardinality(RecentOf(events')) <= count + 1 /\ Cardinality(RecentOf(events')) \in Nat
        /\ events' \in Seq(StEvent) /\ Len(events') <= MaxLog
    BY <1>4, <1>6, <2>1
  <2>3. Cardinality(RecentOf(events')) <= errors_total'
    BY <1>2, <1>3, <2>1, <2>2
  <2>4. errors_total' \in 0 .. MaxErrors /\ ticks' \in 0 .. MaxTicks /\ lastError' \in 0 .. ErrorAge
    BY <1>0, <1>3, <2>1
  <2> QED BY <1>3, <1>5, <2>1, <2>2, <2>3, <2>4
<1>13. CASE \E p \in BOOLEAN : St!setPaused(p)
  <2>1. events' = St!push(events, "control") /\ UNCHANGED <<errors_total, recovered, ticks, lastError>>
    BY <1>13 DEF St!setPaused
  <2>2. paused' \in BOOLEAN
    BY <1>13 DEF St!setPaused
  <2>3. Cardinality(RecentOf(events')) <= count /\ Cardinality(RecentOf(events')) \in Nat
        /\ events' \in Seq(StEvent) /\ Len(events') <= MaxLog
    BY <1>2, <1>4, <1>6, <2>1
  <2>4. Cardinality(RecentOf(events')) <= errors_total'
    BY <1>2, <1>3, <2>1, <2>3
  <2> QED BY <1>3, <1>5, <2>1, <2>2, <2>3, <2>4
<1>14. CASE St!Elapse
  <2> DEFINE older(ev) == [ev EXCEPT !.age = IF @ < ErrorAge THEN @ + 1 ELSE @]
  <2>1. /\ events' = [i \in DOMAIN events |-> older(events[i])]
        /\ UNCHANGED <<errors_total, recovered, paused, ticks>>
    BY <1>14 DEF St!Elapse
  <2>2. lastError' \in 0 .. ErrorAge
    BY <1>0, <1>3, <1>14 DEF St!Elapse
  <2>3. \A ev \in StEvent : /\ older(ev) \in StEvent /\ older(ev).type = ev.type
                            /\ older(ev).age < ErrorAge => ev.age < ErrorAge
    BY <1>0 DEF StEvent
  <2>4. Len(events) \in Nat /\ DOMAIN events = 1 .. Len(events) /\ \A i \in 1 .. Len(events) : events[i] \in StEvent
    BY <1>2, LenProperties, ElementOfSeq
  <2> HIDE DEF older
  <2>5. events' \in Seq(StEvent) /\ Len(events') = Len(events) /\ DOMAIN events' = DOMAIN events
    BY <2>1, <2>3, <2>4
  <2>6. RecentOf(events') \subseteq RecentOf(events)
    BY <2>1, <2>3, <2>4, <2>5 DEF RecentOf
  <2>7. Cardinality(RecentOf(events')) <= count
    BY <1>2, <2>6, RecentFinite, FS_Subset DEF count
  <2>8. Cardinality(RecentOf(events')) <= errors_total'
    <3>1. Cardinality(RecentOf(events')) \in Nat
      BY <2>5, RecentFinite
    <3> QED BY <1>2, <1>3, <2>1, <2>7, <3>1
  <2>9. Len(events') <= MaxLog
    BY <1>2, <2>5
  <2> QED BY <1>3, <1>5, <2>1, <2>2, <2>5, <2>8, <2>9
<1> QED BY <1>1, <1>7, <1>9, <1>10, <1>11, <1>12, <1>13, <1>14 DEF St!Next

LEMMA StInitial == St!Init => StInv
<1> SUFFICES ASSUME St!Init PROVE StInv
  OBVIOUS
<1>0. MaxLog \in Nat /\ ErrorAge \in Nat /\ MaxErrors \in Nat /\ MaxTicks \in Nat
  BY PartsAssumption DEF St!LimitsAssumption
<1>1. events = <<>> /\ RecentOf(events) = {}
  BY DEF St!Init, RecentOf
<1>2. Cardinality(RecentOf(events)) = 0
  BY <1>1, FS_EmptySet
<1>3. events \in Seq([type : St!Types, age : 0 .. ErrorAge]) /\ Len(events) = 0
  BY <1>1
<1>4. 0 \in 0 .. MaxErrors /\ 0 \in 0 .. MaxTicks /\ ErrorAge \in 0 .. ErrorAge /\ 0 <= MaxLog /\ 0 <= 0
  BY <1>0
<1>5. /\ errors_total = 0 /\ recovered = 0 /\ ticks = 0 /\ lastError = ErrorAge /\ paused = FALSE
  BY DEF St!Init
<1>6. Cardinality(RecentOf(events)) <= errors_total
  BY <1>2, <1>4, <1>5
<1> QED BY <1>3, <1>4, <1>5, <1>6 DEF StInv, St!TypeOK

------------------------------------------------------------------------------
(* The states of the agents *)

\* FollowsLog of an entry and a log.
Follows(entry, lg, t) ==
  \A i \in As!Lines(lg, t) :
    /\ (\A j \in As!Lines(lg, t) : j <= i) =>
         entry # None /\ entry.phase = lg[i].to /\ entry.key = lg[i].key
    /\ entry.key # None /\ As!Begins(lg, i) /\ (\A j \in As!Lines(lg, t) : j > i => ~As!Begins(lg, j))
         => entry.since = lg[i].at

\* What a line begins, it begins in any log that holds it and the line before it.
LEMMA BeginsOfCut ==
  ASSUME NEW old \in Seq(As!Row), NEW new \in Seq(As!Row), NEW c \in Nat,
         Len(new) = Len(old) - c, \A i \in 1 .. Len(new) : new[i] = old[i + c]
  PROVE  /\ \A i \in 1 .. Len(new) : As!Begins(new, i) => As!Begins(old, i + c)
         /\ \A i, j \in 1 .. Len(new) :
              i < j /\ new[i].target = new[j].target /\ As!Begins(old, j + c) => As!Begins(new, j)
<1>1. /\ Len(old) \in Nat /\ Len(new) \in Nat /\ DOMAIN old = 1 .. Len(old) /\ DOMAIN new = 1 .. Len(new)
      /\ \A i \in 1 .. Len(new) : i + c \in 1 .. Len(old)
  BY LenProperties
<1>2. ASSUME NEW i \in 1 .. Len(new), As!Begins(new, i)
      PROVE  As!Begins(old, i + c)
  <2>1. CASE new[i].from # new[i].to \/ new[i].recovered
    BY <2>1 DEF As!Begins
  <2>2. CASE ~ (new[i].from # new[i].to \/ new[i].recovered)
    <3>1. PICK j \in As!Lines(new, new[i].target) :
            /\ j < i /\ new[j].key # new[i].key
            /\ \A k \in As!Lines(new, new[i].target) : k <= j \/ k >= i
      BY <1>2, <2>2 DEF As!Begins
    <3>2. j \in 1 .. Len(new) /\ j + c \in As!Lines(old, old[i + c].target) /\ j + c < i + c
          /\ old[j + c].key # old[i + c].key
      BY <1>1, <3>1 DEF As!Lines
    <3>3. ASSUME NEW k \in As!Lines(old, old[i + c].target) PROVE k <= j + c \/ k >= i + c
      <4>1. CASE k <= c
        BY <1>1, <3>2, <4>1 DEF As!Lines
      <4>2. CASE k > c
        <5>1. k - c \in 1 .. Len(new) /\ (k - c) + c = k
          BY <1>1, <4>2 DEF As!Lines
        <5>2. k - c \in As!Lines(new, new[i].target)
          BY <1>1, <5>1 DEF As!Lines
        <5>3. k - c <= j \/ k - c >= i
          BY <3>1, <5>2
        <5> QED BY <3>2, <5>1, <5>3
      <4> QED BY <1>1, <4>1, <4>2 DEF As!Lines
    <3> QED BY <3>2, <3>3 DEF As!Begins
  <2> QED BY <2>1, <2>2
<1>3. ASSUME NEW i \in 1 .. Len(new), NEW j \in 1 .. Len(new), i < j,
             new[i].target = new[j].target, As!Begins(old, j + c)
      PROVE  As!Begins(new, j)
  <2>1. CASE new[j].from # new[j].to \/ new[j].recovered
    BY <2>1 DEF As!Begins
  <2>2. CASE ~ (new[j].from # new[j].to \/ new[j].recovered)
    <3>0. old[j + c] = new[j]
      OBVIOUS
    <3>1. PICK h \in As!Lines(old, old[j + c].target) :
            /\ h < j + c /\ old[h].key # old[j + c].key
            /\ \A k \in As!Lines(old, old[j + c].target) : k <= h \/ k >= j + c
      BY <1>3, <2>2, <3>0 DEF As!Begins
    <3>2. i + c \in As!Lines(old, old[j + c].target) /\ h \in 1 .. Len(old)
      BY <1>1, <1>3, <3>1 DEF As!Lines
    <3>3. h >= i + c
      BY <1>1, <1>3, <3>1, <3>2
    <3>4. h - c \in 1 .. Len(new) /\ (h - c) + c = h /\ h - c < j
      BY <1>1, <3>1, <3>2, <3>3
    <3>5. h - c \in As!Lines(new, new[j].target) /\ new[h - c].key # new[j].key
      BY <1>1, <3>1, <3>4 DEF As!Lines
    <3>6. ASSUME NEW k \in As!Lines(new, new[j].target) PROVE k <= h - c \/ k >= j
      <4>1. k \in 1 .. Len(new) /\ k + c \in As!Lines(old, old[j + c].target)
        BY <1>1 DEF As!Lines
      <4>2. k + c <= h \/ k + c >= j + c
        BY <3>1, <4>1
      <4> QED BY <3>2, <4>1, <4>2
    <3> QED BY <3>4, <3>5, <3>6 DEF As!Begins
  <2> QED BY <2>1, <2>2
<1> QED BY <1>2, <1>3

\* The log may be cut.
LEMMA FollowsOfCut ==
  ASSUME NEW old \in Seq(As!Row), NEW new \in Seq(As!Row), NEW c \in Nat,
         Len(new) = Len(old) - c, \A i \in 1 .. Len(new) : new[i] = old[i + c],
         NEW entry, NEW t, Follows(entry, old, t)
  PROVE  Follows(entry, new, t)
<1>1. /\ Len(old) \in Nat /\ Len(new) \in Nat /\ DOMAIN old = 1 .. Len(old) /\ DOMAIN new = 1 .. Len(new)
      /\ \A i \in 1 .. Len(new) : i + c \in 1 .. Len(old)
  BY LenProperties
<1>2. \A i \in As!Lines(new, t) : i \in 1 .. Len(new) /\ i + c \in As!Lines(old, t)
  BY <1>1 DEF As!Lines
<1>3. \A i \in As!Lines(old, t) : i \in 1 .. Len(old) /\ (i > c => i - c \in As!Lines(new, t) /\ (i - c) + c = i)
  BY <1>1 DEF As!Lines
<1>4. \A i \in As!Lines(new, t) : new[i] = old[i + c] /\ new[i].target = t
  BY <1>1 DEF As!Lines
<1> SUFFICES ASSUME NEW i \in As!Lines(new, t)
             PROVE  /\ (\A j \in As!Lines(new, t) : j <= i) =>
                         entry # None /\ entry.phase = new[i].to /\ entry.key = new[i].key
                    /\ entry.key # None /\ As!Begins(new, i)
                         /\ (\A j \in As!Lines(new, t) : j > i => ~As!Begins(new, j))
                         => entry.since = new[i].at
  BY DEF Follows
<1>5. ASSUME \A j \in As!Lines(new, t) : j <= i
      PROVE  entry # None /\ entry.phase = new[i].to /\ entry.key = new[i].key
  <2>1. \A j \in As!Lines(old, t) : j <= i + c
    <3> SUFFICES ASSUME NEW j \in As!Lines(old, t), j > i + c PROVE FALSE
      BY <1>2, <1>3
    <3>1. j > c
      BY <1>2, <1>3
    <3>2. j - c \in As!Lines(new, t) /\ j - c > i
      BY <1>2, <1>3, <3>1
    <3> QED BY <1>2, <1>5, <3>2
  <2> QED BY <1>2, <1>4, <2>1 DEF Follows
<1>6. ASSUME entry.key # None, As!Begins(new, i), \A j \in As!Lines(new, t) : j > i => ~As!Begins(new, j)
      PROVE  entry.since = new[i].at
  <2>1. As!Begins(old, i + c)
    BY <1>2, <1>6, BeginsOfCut
  <2>2. ASSUME NEW j \in As!Lines(old, t), j > i + c, As!Begins(old, j) PROVE FALSE
    <3>1. j > c
      BY <1>2, <1>3, <2>2
    <3>2. j - c \in As!Lines(new, t) /\ j - c > i /\ (j - c) + c = j
      BY <1>2, <1>3, <2>2, <3>1
    <3>3. As!Begins(new, j - c)
      <4> DEFINE k == j - c
      <4>1. k \in 1 .. Len(new) /\ i < k /\ new[i].target = new[k].target /\ As!Begins(old, k + c)
        BY <1>2, <1>4, <2>2, <3>2
      <4> HIDE DEF k
      <4>2. As!Begins(new, k)
        BY <1>2, <4>1, BeginsOfCut
      <4> QED BY <4>2 DEF k
    <3> QED BY <1>6, <3>2, <3>3
  <2> QED BY <1>2, <1>4, <1>6, <2>1, <2>2 DEF Follows
<1> QED BY <1>5, <1>6

\* A set of numbers that has a bound has a greatest.
LEMMA HasGreatest ==
  ASSUME NEW n \in Nat, NEW S, S \subseteq 1 .. n, S # {}
  PROVE  \E i \in S : \A j \in S : j <= i
<1> DEFINE Back == {n - i : i \in S}
<1>0. \A i \in S : n - i \in Nat
  OBVIOUS
<1>1. Back \subseteq Nat /\ Back # {}
  BY <1>0
<1>2. PICK x \in Back : \A y \in Back : ~ (<<y, x>> \in OpToRel(<, Nat))
  BY <1>1, WFMin, NatLessThanWellFounded
<1>3. PICK i \in S : x = n - i
  BY <1>2
<1>4. ASSUME NEW j \in S PROVE j <= i
  <2>1. n - j \in Back /\ n - j \in Nat /\ x \in Nat
    BY <1>1, <1>2
  <2>2. ~ (n - j < x)
    BY <1>2, <2>1 DEF OpToRel
  <2> QED BY <1>3, <2>2
<1> QED BY <1>4

\* A line about another agent changes nothing.
LEMMA FollowsOfOther ==
  ASSUME NEW lg \in Seq(As!Row), NEW row \in As!Row, NEW entry, NEW t, row.target # t,
         Follows(entry, lg, t)
  PROVE  Follows(entry, Append(lg, row), t)
<1> DEFINE all == Append(lg, row)
           n == Len(lg)
<1>1. /\ n \in Nat /\ DOMAIN lg = 1 .. n /\ all \in Seq(As!Row) /\ DOMAIN all = 1 .. (n + 1)
      /\ all[n + 1] = row /\ \A i \in 1 .. n : all[i] = lg[i]
  BY AppendProperties, LenProperties
<1> HIDE DEF all, n
<1>2. As!Lines(all, t) = As!Lines(lg, t) /\ As!Lines(lg, t) \subseteq 1 .. n
  BY <1>1 DEF As!Lines
<1>3. \A i \in As!Lines(lg, t) : all[i] = lg[i] /\ lg[i].target = t
  BY <1>1 DEF As!Lines
<1>4. \A i \in As!Lines(lg, t) : As!Begins(all, i) <=> As!Begins(lg, i)
  BY <1>2, <1>3 DEF As!Begins
<1>5. Follows(entry, all, t)
  BY <1>2, <1>3, <1>4 DEF Follows
<1> QED BY <1>5 DEF all

\* A line about the agent itself, with the entry that is put in its place.
LEMMA FollowsOfOwn ==
  ASSUME NEW lg \in Seq(As!Row), NEW row \in As!Row, NEW prev, NEW e, NEW t, row.target = t,
         Follows(prev, lg, t), e # None, row.to = e.phase, row.key = e.key,
         ~ row.recovered /\ prev # None => row.from = prev.phase,
         e.key # None /\ (prev = None \/ row.recovered \/ prev.phase # e.phase \/ prev.key # e.key)
           => e.since = row.at,
         e.key # None /\ prev # None /\ ~ row.recovered /\ prev.phase = e.phase /\ prev.key = e.key
           => e.since = prev.since
  PROVE  Follows(e, Append(lg, row), t)
<1> DEFINE all == Append(lg, row)
           n == Len(lg)
<1>1. /\ n \in Nat /\ DOMAIN lg = 1 .. n /\ all \in Seq(As!Row) /\ DOMAIN all = 1 .. (n + 1)
      /\ all[n + 1] = row /\ \A i \in 1 .. n : all[i] = lg[i]
  BY AppendProperties, LenProperties
<1> HIDE DEF all, n
<1>2. As!Lines(all, t) = As!Lines(lg, t) \cup {n + 1} /\ As!Lines(lg, t) \subseteq 1 .. n
  BY <1>1 DEF As!Lines
<1>3. \A i \in As!Lines(lg, t) : all[i] = lg[i] /\ lg[i].target = t /\ i \in 1 .. n /\ i < n + 1
  BY <1>1, <1>2 DEF As!Lines
<1>4. \A i \in As!Lines(lg, t) : As!Begins(all, i) <=> As!Begins(lg, i)
  <2> SUFFICES ASSUME NEW i \in As!Lines(lg, t) PROVE As!Begins(all, i) <=> As!Begins(lg, i)
    OBVIOUS
  <2>1. all[i] = lg[i] /\ lg[i].target = t /\ i < n + 1
    BY <1>3
  <2>2. (\E j \in As!Lines(all, t) :
           /\ j < i /\ all[j].key # all[i].key
           /\ \A k \in As!Lines(all, t) : k <= j \/ k >= i)
        <=> (\E j \in As!Lines(lg, t) :
               /\ j < i /\ lg[j].key # lg[i].key
               /\ \A k \in As!Lines(lg, t) : k <= j \/ k >= i)
    BY <1>1, <1>2, <1>3
  <2> QED BY <2>1, <2>2 DEF As!Begins
<1>5. As!Begins(all, n + 1) <=>
        \/ row.from # row.to \/ row.recovered
        \/ \E j \in As!Lines(lg, t) : lg[j].key # row.key /\ \A k \in As!Lines(lg, t) : k <= j
  <2>1. (\E j \in As!Lines(all, t) :
           /\ j < n + 1 /\ all[j].key # row.key
           /\ \A k \in As!Lines(all, t) : k <= j \/ k >= n + 1)
        <=> (\E j \in As!Lines(lg, t) : lg[j].key # row.key /\ \A k \in As!Lines(lg, t) : k <= j)
    BY <1>1, <1>2, <1>3
  <2> QED BY <1>1, <2>1 DEF As!Begins
<1>6. \A j \in As!Lines(lg, t) : (\A k \in As!Lines(lg, t) : k <= j) =>
        prev # None /\ prev.phase = lg[j].to /\ prev.key = lg[j].key
  BY DEF Follows
<1>7. ASSUME e.key # None, As!Begins(all, n + 1)
      PROVE  e.since = all[n + 1].at
  BY <1>1, <1>5, <1>6, <1>7
<1>8. ASSUME NEW i \in As!Lines(lg, t), e.key # None, As!Begins(all, i),
             \A j \in As!Lines(all, t) : j > i => ~As!Begins(all, j)
      PROVE  e.since = all[i].at
  <2>1. PICK m \in As!Lines(lg, t) : \A k \in As!Lines(lg, t) : k <= m
    BY <1>1, <1>2, HasGreatest
  <2>2. ~ As!Begins(all, n + 1)
    BY <1>1, <1>2, <1>3, <1>8
  <2>3. row.from = row.to /\ ~ row.recovered /\ lg[m].key = row.key
    BY <1>5, <2>1, <2>2
  <2>4. prev # None /\ prev.key = e.key /\ prev.phase = e.phase
    BY <1>6, <2>1, <2>3
  <2>5. e.since = prev.since
    BY <1>8, <2>3, <2>4
  <2>6. As!Begins(lg, i) /\ \A j \in As!Lines(lg, t) : j > i => ~As!Begins(lg, j)
    BY <1>2, <1>4, <1>8
  <2> QED BY <1>3, <1>8, <2>4, <2>5, <2>6 DEF Follows
<1>9. ASSUME NEW i \in As!Lines(all, t), \A j \in As!Lines(all, t) : j <= i
      PROVE  e # None /\ e.phase = all[i].to /\ e.key = all[i].key
  <2>1. i = n + 1
    BY <1>1, <1>2, <1>3, <1>9
  <2> QED BY <1>1, <2>1
<1>10. Follows(e, all, t)
  BY <1>2, <1>7, <1>8, <1>9 DEF Follows
<1> QED BY <1>10 DEF all

\* What a process makes of the file.
AsGood(doc) == doc \in As!Doc /\ Len(doc.log) <= LogMax /\ \A t \in Agents : As!FollowsLog(doc, t)

LEMMA FollowsIs == \A doc, t : As!FollowsLog(doc, t) <=> Follows(doc.agents[t], doc.log, t)
BY DEF As!FollowsLog, Follows

\* The entry and its line.
LEMMA LoggedIsGood ==
  ASSUME NEW doc, AsGood(doc), NEW t \in Agents, NEW e \in As!Entry, NEW rec \in BOOLEAN, now \in 0 .. MaxWrites,
         e.key # None /\ (doc.agents[t] = None \/ rec \/ doc.agents[t].phase # e.phase \/ doc.agents[t].key # e.key)
           => e.since = now,
         e.key # None /\ doc.agents[t] # None /\ ~ rec /\ doc.agents[t].phase = e.phase /\ doc.agents[t].key = e.key
           => e.since = doc.agents[t].since
  PROVE  AsGood(As!Logged(doc, t, e, rec))
<1> DEFINE prev == doc.agents[t]
           from == IF prev = None THEN None ELSE prev.phase
           row == [target |-> t, from |-> from, to |-> e.phase, key |-> e.key, at |-> now, recovered |-> rec]
           all == Append(doc.log, row)
           lg == As!LastOf(all, LogMax)
           agents == [doc.agents EXCEPT ![t] = e]
           cutoff == IF Len(all) > LogMax THEN Len(all) - LogMax ELSE 0
<1>0. LogMax \in Nat /\ None \notin As!Entry
  BY PartsAssumption DEF As!LogAssumption, As!NoneAssumption
<1>1. doc.agents \in [Agents -> As!Entry \cup {None}] /\ doc.log \in Seq(As!Row)
  BY DEF AsGood, As!Doc
<1>2. from \in {"idle", "running", "turn_pending", None}
  BY <1>1 DEF As!Entry
<1>3. row \in As!Row
  <2> HIDE DEF from
  <2> QED BY <1>2 DEF As!Entry, As!Row
<1>4. /\ row.target = t /\ row.to = e.phase /\ row.key = e.key /\ row.at = now /\ row.recovered = rec
      /\ prev # None => row.from = prev.phase
  OBVIOUS
<1>5. As!Logged(doc, t, e, rec) = [agents |-> agents, log |-> lg]
  BY DEF As!Logged
<1> HIDE DEF row, from
<1>6. all \in Seq(As!Row)
  BY <1>1, <1>3, AppendProperties
<1>7. ASSUME NEW u \in Agents PROVE Follows(agents[u], all, u)
  <2>0. Follows(doc.agents[u], doc.log, u)
    BY FollowsIs DEF AsGood
  <2>1. CASE u = t
    <3>1. agents[u] = e /\ e # None
      BY <1>0, <1>1, <2>1
    <3> HIDE DEF agents
    <3> QED BY <1>1, <1>3, <1>4, <2>0, <2>1, <3>1, FollowsOfOwn
  <2>2. CASE u # t
    <3>1. agents[u] = doc.agents[u]
      BY <1>1, <2>2
    <3> HIDE DEF agents
    <3> QED BY <1>1, <1>3, <1>4, <2>0, <2>2, <3>1, FollowsOfOther
  <2> QED BY <2>1, <2>2
<1>8. agents \in [Agents -> As!Entry \cup {None}]
  BY <1>1
<1> HIDE DEF all, agents
<1>9. /\ lg \in Seq(As!Row) /\ Len(lg) <= LogMax /\ cutoff \in Nat /\ Len(lg) = Len(all) - cutoff
      /\ \A i \in 1 .. Len(lg) : lg[i] = all[i + cutoff]
  BY <1>0, <1>6, EndOf DEF As!LastOf
<1> HIDE DEF lg, cutoff
<1>10. \A u \in Agents : Follows(agents[u], lg, u)
  BY <1>6, <1>7, <1>9, FollowsOfCut
<1> DEFINE made == [agents |-> agents, log |-> lg]
<1>11. made.agents = agents /\ made.log = lg /\ made \in As!Doc
  BY <1>8, <1>9 DEF As!Doc
<1> HIDE DEF made
<1>12. AsGood(made)
  BY <1>9, <1>10, <1>11, FollowsIs DEF AsGood
<1> QED BY <1>5, <1>12 DEF made

LEMMA SyncIsGood ==
  ASSUME NEW doc, AsGood(doc), NEW t \in Agents, NEW seen \in As!Observed, now \in 0 .. MaxWrites
  PROVE  AsGood(As!syncAgentState(doc, t, seen))
<1> DEFINE prev == doc.agents[t]
           since == As!Since(prev, seen)
           e == [phase |-> seen.phase, key |-> seen.key, issue |-> seen.issue, since |-> since]
           same == prev # None /\ prev.phase = seen.phase /\ prev.key = seen.key /\ prev.issue = seen.issue
<1>0. MaxWrites \in Nat /\ None \notin As!Entry
  BY PartsAssumption DEF As!LogAssumption, As!NoneAssumption
<1>1. doc.agents \in [Agents -> As!Entry \cup {None}] /\ prev \in As!Entry \cup {None} /\ doc.log \in Seq(As!Row)
  BY DEF AsGood, As!Doc
<1>2. /\ prev # None /\ prev.phase = seen.phase /\ prev.key = seen.key /\ seen.key # None => since = prev.since
      /\ ~ (prev # None /\ prev.phase = seen.phase /\ prev.key = seen.key /\ seen.key # None) => since = now
  BY DEF As!Since
<1>3. since \in 0 .. MaxWrites
  <2> HIDE DEF since
  <2> QED BY <1>1, <1>2 DEF As!Entry
<1> HIDE DEF since
<1>4. seen.phase \in {"idle", "running", "turn_pending"} /\ seen.key \in Keys \cup {None} /\ seen.issue \in BOOLEAN
  BY DEF As!Observed
<1>5. e \in As!Entry /\ e.phase = seen.phase /\ e.key = seen.key /\ e.since = since
  BY <1>3, <1>4 DEF As!Entry
<1> HIDE DEF e
<1>6. CASE ~ same
  <2>1. As!syncAgentState(doc, t, seen) = As!Logged(doc, t, e, FALSE)
    BY <1>6 DEF As!syncAgentState, e, since
  <2>2. /\ e.key # None /\ (prev = None \/ prev.phase # e.phase \/ prev.key # e.key) => e.since = now
        /\ e.key # None /\ prev # None /\ prev.phase = e.phase /\ prev.key = e.key => e.since = prev.since
    BY <1>2, <1>5
  <2>3. AsGood(As!Logged(doc, t, e, FALSE))
    BY <1>5, <2>2, LoggedIsGood
  <2> QED BY <2>1, <2>3
<1>7. CASE same
  <2> DEFINE agents == [doc.agents EXCEPT ![t] = e]
  <2>1. As!syncAgentState(doc, t, seen) = [doc EXCEPT !.agents = agents]
    BY <1>7 DEF As!syncAgentState, e, since
  <2>2. agents \in [Agents -> As!Entry \cup {None}] /\ agents[t] = e
        /\ \A u \in Agents : u # t => agents[u] = doc.agents[u]
    BY <1>1, <1>5
  <2> HIDE DEF agents
  <2> DEFINE made == [doc EXCEPT !.agents = agents]
  <2>3. made.agents = agents /\ made.log = doc.log /\ made \in As!Doc
    BY <2>2 DEF AsGood, As!Doc
  <2> HIDE DEF made
  <2>4. ASSUME NEW u \in Agents PROVE As!FollowsLog(made, u)
    <3>1. Follows(doc.agents[u], doc.log, u)
      BY FollowsIs DEF AsGood
    <3>2. CASE u = t
      <4>1. /\ prev # None /\ e # None /\ e.phase = prev.phase /\ e.key = prev.key
            /\ e.key # None => e.since = prev.since
        BY <1>0, <1>2, <1>5, <1>7
      <4>2. Follows(e, doc.log, t)
        BY <3>1, <3>2, <4>1 DEF Follows
      <4> QED BY <2>2, <2>3, <3>2, <4>2, FollowsIs
    <3>3. CASE u # t
      BY <2>2, <2>3, <3>1, <3>3, FollowsIs
    <3> QED BY <3>2, <3>3
  <2>5. AsGood(made)
    BY <2>3, <2>4 DEF AsGood
  <2> QED BY <2>1, <2>5 DEF made
<1> QED BY <1>6, <1>7

LEMMA RecoverIsGood ==
  ASSUME NEW doc, AsGood(doc), NEW t \in Agents, doc.agents[t] # None, now \in 0 .. MaxWrites
  PROVE  AsGood(As!noteAgentRecover(doc, t))
<1> DEFINE e == [phase |-> "running", key |-> doc.agents[t].key, issue |-> FALSE, since |-> now]
<1>1. doc.agents[t] \in As!Entry
  BY DEF AsGood, As!Doc
<1>2. e \in As!Entry /\ e.since = now
  BY <1>1 DEF As!Entry
<1>3. As!noteAgentRecover(doc, t) = As!Logged(doc, t, e, TRUE)
  BY DEF As!noteAgentRecover
<1> HIDE DEF e
<1>4. AsGood(As!Logged(doc, t, e, TRUE))
  BY <1>2, LoggedIsGood
<1> QED BY <1>3, <1>4

AsInv ==
  /\ As!TypeOK /\ holds = [p \in As!Writers |-> holds[p]]
  /\ stored # None => AsGood(stored)
  /\ \A p \in As!Writers : holds[p] # None => AsGood(holds[p])

LEMMA EmptyIsGood == AsGood(As!EmptyFile)
<1>0. LogMax \in Nat
  BY PartsAssumption DEF As!LogAssumption
<1>1. As!EmptyFile.agents = [t \in Agents |-> None] /\ As!EmptyFile.log = <<>> /\ As!EmptyFile \in As!Doc
  BY DEF As!EmptyFile, As!Doc
<1>2. Len(As!EmptyFile.log) <= LogMax
  BY <1>0, <1>1
<1>3. \A t \in Agents : As!FollowsLog(As!EmptyFile, t)
  BY <1>1 DEF As!FollowsLog, As!Lines
<1> QED BY <1>1, <1>2, <1>3 DEF AsGood

LEMMA AsTypes ==
  ASSUME stored # None => AsGood(stored), \A p \in As!Writers : holds[p] # None => AsGood(holds[p]),
         cut \subseteq {p \in As!Writers : holds[p] # None}, now \in 0 .. MaxWrites
  PROVE  As!TypeOK
BY DEF As!TypeOK, AsGood

LEMMA AsStep == AsInv /\ [As!Next]_stateVars => AsInv'
<1> SUFFICES ASSUME AsInv, [As!Next]_stateVars PROVE AsInv'
  OBVIOUS
<1>0. MaxWrites \in Nat /\ now \in 0 .. MaxWrites /\ cut \subseteq {p \in As!Writers : holds[p] # None}
  BY PartsAssumption DEF As!LogAssumption, AsInv, As!TypeOK
<1>1. CASE UNCHANGED stateVars
  BY <1>1 DEF stateVars, AsInv, As!TypeOK
<1>2. AsGood(As!loadFile)
  BY EmptyIsGood DEF AsInv, As!loadFile
<1>3. ASSUME holds' = [p \in As!Writers |-> holds'[p]],
             stored' # None => AsGood(stored'), \A p \in As!Writers : holds'[p] # None => AsGood(holds'[p]),
             cut' \subseteq {p \in As!Writers : holds'[p] # None}, now' \in 0 .. MaxWrites
      PROVE  AsInv'
  <2>1. As!TypeOK'
    BY <1>3 DEF As!TypeOK, AsGood
  <2> QED BY <1>3, <2>1 DEF AsInv
<1>4. ASSUME NEW p \in As!Writers, NEW doc, AsGood(doc), As!Makes(p, doc) PROVE AsInv'
  <2>1. /\ holds[p] = None /\ now < MaxWrites /\ holds' = [holds EXCEPT ![p] = doc]
        /\ now' = now + 1 /\ UNCHANGED <<stored, cut>>
    BY <1>4 DEF As!Makes
  <2>2. /\ holds' = [q \in As!Writers |-> holds'[q]] /\ holds'[p] = doc
        /\ \A q \in As!Writers : q # p => holds'[q] = holds[q]
    BY <2>1 DEF AsInv
  <2>3. now' \in 0 .. MaxWrites
    BY <1>0, <2>1
  <2>4. \A q \in As!Writers : holds'[q] # None => AsGood(holds'[q])
    BY <1>4, <2>2 DEF AsInv
  <2>5. cut' \subseteq {q \in As!Writers : holds'[q] # None}
    BY <1>0, <2>1, <2>2
  <2>6. stored' # None => AsGood(stored')
    BY <2>1 DEF AsInv
  <2> QED BY <1>3, <2>2, <2>3, <2>4, <2>5, <2>6
<1>5. ASSUME NEW p \in Refreshers, NEW t \in Agents, As!Sync(p, t) PROVE AsInv'
  <2>1. PICK seen \in As!Observed : As!Makes(p, As!syncAgentState(As!loadFile, t, seen))
    BY <1>5 DEF As!Sync
  <2>2. AsGood(As!syncAgentState(As!loadFile, t, seen))
    BY <1>0, <1>2, SyncIsGood
  <2> QED BY <1>4, <2>1, <2>2 DEF As!Writers
<1>6. ASSUME NEW p \in Watchdogs, NEW t \in Agents, As!Recover(p, t) PROVE AsInv'
  <2>1. As!loadFile.agents[t] # None /\ As!Makes(p, As!noteAgentRecover(As!loadFile, t))
    BY <1>6 DEF As!Recover
  <2>2. AsGood(As!noteAgentRecover(As!loadFile, t))
    BY <1>0, <1>2, <2>1, RecoverIsGood
  <2> QED BY <1>4, <2>1, <2>2 DEF As!Writers
<1>7. ASSUME NEW p \in As!Writers, As!Truncate(p) PROVE AsInv'
  BY <1>0, <1>3, <1>7 DEF As!Truncate, AsInv
<1>8. ASSUME NEW p \in As!Writers, As!Write(p) PROVE AsInv'
  <2>1. /\ p \in cut /\ stored' \in {holds[p], None} /\ cut' = cut \ {p}
        /\ holds' = [holds EXCEPT ![p] = None] /\ now' = now
    BY <1>8 DEF As!Write
  <2>2. /\ holds' = [q \in As!Writers |-> holds'[q]] /\ holds'[p] = None
        /\ \A q \in As!Writers : q # p => holds'[q] = holds[q]
    BY <2>1 DEF AsInv
  <2> QED BY <1>0, <1>3, <2>1, <2>2 DEF AsInv
<1>9. ASSUME NEW p \in As!Writers, As!Killed(p) PROVE AsInv'
  <2>1. /\ cut' = cut \ {p} /\ holds' = [holds EXCEPT ![p] = None] /\ UNCHANGED <<stored, now>>
    BY <1>9 DEF As!Killed
  <2>2. /\ holds' = [q \in As!Writers |-> holds'[q]] /\ holds'[p] = None
        /\ \A q \in As!Writers : q # p => holds'[q] = holds[q]
    BY <2>1 DEF AsInv
  <2> QED BY <1>0, <1>3, <2>1, <2>2 DEF AsInv
<1> QED BY <1>1, <1>5, <1>6, <1>7, <1>8, <1>9 DEF As!Next

LEMMA AsInitial == As!Init => AsInv
<1> SUFFICES ASSUME As!Init PROVE AsInv
  OBVIOUS
<1>0. MaxWrites \in Nat /\ 0 \in 0 .. MaxWrites
  BY PartsAssumption DEF As!LogAssumption
<1>1. /\ stored = As!EmptyFile /\ holds = [p \in As!Writers |-> None] /\ cut = {} /\ now = 0
  BY DEF As!Init
<1>2. stored # None => AsGood(stored)
  BY <1>1, EmptyIsGood
<1>3. As!TypeOK
  BY <1>0, <1>1, <1>2, AsTypes
<1> QED BY <1>1, <1>2, <1>3 DEF AsInv


------------------------------------------------------------------------------
(* The billing cycle *)

ClMonths == Len(Calendar)
ClDays(m) == Calendar[m]

LEMMA CalendarIs ==
  /\ ClMonths \in Nat /\ ClMonths > 1 /\ Cl!Months = 1 .. ClMonths
  /\ \A m \in Cl!Months : ClDays(m) \in Nat /\ ClDays(m) > 0
<1>1. Calendar \in Seq(Nat \ {0}) /\ Len(Calendar) > 1
  BY PartsAssumption DEF Cl!MonthsAssumption
<1>2. Len(Calendar) \in Nat /\ DOMAIN Calendar = 1 .. Len(Calendar)
      /\ \A m \in 1 .. Len(Calendar) : Calendar[m] \in Nat \ {0}
  BY <1>1, LenProperties, ElementOfSeq
<1> QED BY <1>1, <1>2 DEF ClMonths, ClDays, Cl!Months

\* What the recursion asks of a function of the months up to k.
ClSums(f, k) == f = [m \in 1 .. k |-> IF m = 1 THEN 0 ELSE f[m - 1] + ClDays(m - 1)]

ClSummed(k) == \E f : ClSums(f, k)

LEMMA SumsExist == ClSummed(ClMonths + 1)
<1> DEFINE Bad == {k \in 1 .. (ClMonths + 1) : ~ ClSummed(k)}
<1>0. ClMonths \in Nat
  BY CalendarIs
<1>1. SUFFICES ASSUME Bad # {} PROVE FALSE
  BY <1>0
<1>2. PICK k \in Bad : \A j \in Bad : ~ (<<j, k>> \in OpToRel(<, Nat))
  <2>1. Bad \subseteq Nat
    BY <1>0
  <2> QED BY <1>1, <2>1, WFMin, NatLessThanWellFounded
<1>3. k \in 1 .. (ClMonths + 1) /\ k \in Nat /\ ~ ClSummed(k)
  BY <1>0
<1>4. CASE k = 1
  <2>1. ClSums([m \in 1 .. 1 |-> 0], 1)
    BY DEF ClSums
  <2> QED BY <1>3, <1>4, <2>1 DEF ClSummed
<1>5. CASE k # 1
  <2>1. k - 1 \in 1 .. (ClMonths + 1) /\ k - 1 \in Nat /\ k - 1 < k
    BY <1>0, <1>3, <1>5
  <2>2. k - 1 \notin Bad
    BY <1>2, <1>3, <2>1 DEF OpToRel
  <2>3. PICK f : ClSums(f, k - 1)
    BY <2>1, <2>2 DEF ClSummed
  <2> DEFINE g == [m \in 1 .. k |-> IF m = k THEN f[k - 1] + ClDays(k - 1) ELSE f[m]]
  <2>4. \A m \in 1 .. (k - 1) : f[m] = IF m = 1 THEN 0 ELSE f[m - 1] + ClDays(m - 1)
    BY <2>3 DEF ClSums
  <2>5. ASSUME NEW m \in 1 .. k
        PROVE  g[m] = IF m = 1 THEN 0 ELSE g[m - 1] + ClDays(m - 1)
    <3>1. CASE m = k
      <4>1. k - 1 \in 1 .. k /\ k - 1 # k /\ m - 1 = k - 1 /\ m # 1
        BY <1>3, <1>5, <3>1
      <4>2. g[m] = f[k - 1] + ClDays(k - 1) /\ g[k - 1] = f[k - 1]
        BY <3>1, <4>1
      <4> QED BY <4>1, <4>2
    <3>2. CASE m # k
      <4>1. m \in 1 .. (k - 1)
        BY <1>3, <3>2
      <4>2. m # 1 => m - 1 \in 1 .. k /\ m - 1 # k
        BY <1>3, <4>1
      <4>3. g[m] = f[m] /\ (m # 1 => g[m - 1] = f[m - 1])
        BY <3>2, <4>2
      <4> QED BY <2>4, <4>1, <4>3
    <3> QED BY <3>1, <3>2
  <2>6. g = [m \in 1 .. k |-> g[m]]
    OBVIOUS
  <2> HIDE DEF g
  <2>7. ClSums(g, k)
    BY <2>5, <2>6 DEF ClSums
  <2> QED BY <1>3, <2>7 DEF ClSummed
<1> QED BY <1>4, <1>5

\* The days before a month, and before the next.
LEMMA DaysBeforeIs ==
  /\ Cl!DaysBefore[1] = 0
  /\ \A m \in Cl!Months : Cl!DaysBefore[m + 1] = Cl!DaysBefore[m] + ClDays(m)
<1>1. ClSums(Cl!DaysBefore, ClMonths + 1)
  BY SumsExist DEF Cl!DaysBefore, ClSummed, ClSums, ClMonths, ClDays
<1>2. ClMonths \in Nat /\ Cl!Months = 1 .. ClMonths
  BY CalendarIs
<1> DEFINE D == Cl!DaysBefore
<1> HIDE DEF D
<1>3. \A m \in 1 .. (ClMonths + 1) : D[m] = IF m = 1 THEN 0 ELSE D[m - 1] + ClDays(m - 1)
  BY <1>1 DEF ClSums, D
<1>4. D[1] = 0
  BY <1>2, <1>3
<1>5. ASSUME NEW m \in Cl!Months PROVE D[m + 1] = D[m] + ClDays(m)
  <2>1. m + 1 \in 1 .. (ClMonths + 1) /\ m + 1 # 1 /\ (m + 1) - 1 = m
    BY <1>2
  <2> QED BY <1>3, <2>1
<1> QED BY <1>4, <1>5 DEF D

\* They grow with the month.
LEMMA DaysGrow ==
  \A m \in 1 .. (ClMonths + 1) : /\ Cl!DaysBefore[m] \in Nat
                                 /\ \A l \in 1 .. m : Cl!DaysBefore[l] <= Cl!DaysBefore[m]
<1> DEFINE D == Cl!DaysBefore
           Grown(m) == D[m] \in Nat /\ \A l \in 1 .. m : D[l] <= D[m]
           Bad == {m \in 1 .. (ClMonths + 1) : ~ Grown(m)}
<1>0. /\ ClMonths \in Nat /\ Cl!Months = 1 .. ClMonths /\ \A m \in Cl!Months : ClDays(m) \in Nat
      /\ D[1] = 0 /\ \A m \in Cl!Months : D[m + 1] = D[m] + ClDays(m)
  BY CalendarIs, DaysBeforeIs
<1> HIDE DEF D
<1>1. SUFFICES ASSUME Bad # {} PROVE FALSE
  BY DEF D
<1>2. PICK k \in Bad : \A j \in Bad : ~ (<<j, k>> \in OpToRel(<, Nat))
  <2>1. Bad \subseteq Nat
    BY <1>0
  <2> QED BY <1>1, <2>1, WFMin, NatLessThanWellFounded
<1>3. k \in 1 .. (ClMonths + 1) /\ k \in Nat /\ ~ Grown(k)
  BY <1>0
<1>4. CASE k = 1
  BY <1>0, <1>3, <1>4
<1>5. CASE k # 1
  <2>1. k - 1 \in 1 .. (ClMonths + 1) /\ k - 1 \in Nat /\ k - 1 < k /\ k - 1 \in Cl!Months /\ (k - 1) + 1 = k
    BY <1>0, <1>3, <1>5
  <2>2. k - 1 \notin Bad
    BY <1>2, <1>3, <2>1 DEF OpToRel
  <2>3. Grown(k - 1)
    BY <2>1, <2>2
  <2>4. D[k] = D[k - 1] + ClDays(k - 1) /\ ClDays(k - 1) \in Nat
    BY <1>0, <2>1
  <2>5. D[k] \in Nat /\ D[k - 1] <= D[k]
    BY <2>3, <2>4
  <2>6. ASSUME NEW l \in 1 .. k PROVE D[l] <= D[k]
    <3>1. CASE l = k
      BY <2>5, <3>1
    <3>2. CASE l # k
      <4>1. l \in 1 .. (k - 1)
        BY <1>3, <3>2
      <4>2. D[l] <= D[k - 1] /\ D[l] \in Nat
        <5>1. l \in 1 .. (ClMonths + 1) /\ l < k /\ l \in Nat
          BY <1>0, <1>3, <4>1
        <5>2. l \notin Bad
          BY <1>2, <1>3, <5>1 DEF OpToRel
        <5> QED BY <2>3, <4>1, <5>1, <5>2
      <4> QED BY <2>3, <2>5, <4>2
    <3> QED BY <3>1, <3>2
  <2> QED BY <1>3, <2>5, <2>6
<1> QED BY <1>4, <1>5

ClInv == Cl!TypeOK /\ month > 1 /\ \A i \in DOMAIN entries : entries[i] <= Cl!Today

\* Today, as a number of days.
LEMMA TodayIs ==
  ASSUME month \in Cl!Months, dom \in 1 .. ClDays(month)
  PROVE  /\ Cl!Today = Cl!DaysBefore[month] + dom /\ Cl!DaysBefore[month] \in Nat
         /\ Cl!Today \in 1 .. Cl!DaysBefore[ClMonths + 1] /\ Cl!DaysBefore[ClMonths + 1] \in Nat
<1>0. /\ ClMonths \in Nat /\ Cl!Months = 1 .. ClMonths /\ \A m \in Cl!Months : ClDays(m) \in Nat
  BY CalendarIs
<1>1. /\ Cl!DaysBefore[month] \in Nat /\ Cl!DaysBefore[month + 1] = Cl!DaysBefore[month] + ClDays(month)
      /\ Cl!DaysBefore[month + 1] <= Cl!DaysBefore[ClMonths + 1] /\ Cl!DaysBefore[ClMonths + 1] \in Nat
  <2>1. month \in 1 .. (ClMonths + 1) /\ ClMonths + 1 \in 1 .. (ClMonths + 1)
        /\ month + 1 \in 1 .. (ClMonths + 1)
    BY <1>0
  <2> QED BY <2>1, DaysGrow, DaysBeforeIs
<1>2. Cl!Today = Cl!DaysBefore[month] + dom
  BY DEF Cl!Today, Cl!DayNumber
<1>3. ClDays(month) \in Nat
  BY <1>0
<1> QED BY <1>1, <1>2, <1>3

LEMMA ClStep == ClInv /\ [Cl!Next]_cycleVars => ClInv'
<1> SUFFICES ASSUME ClInv, [Cl!Next]_cycleVars PROVE ClInv'
  OBVIOUS
<1> DEFINE Last == Cl!DaysBefore[Len(Calendar) + 1]
<1>0. /\ ClMonths \in Nat /\ Cl!Months = 1 .. ClMonths /\ \A m \in Cl!Months : ClDays(m) \in Nat /\ ClDays(m) > 0
  BY CalendarIs
<1>1. /\ month \in Cl!Months /\ dom \in 1 .. ClDays(month) /\ month > 1 /\ startDay \in StartDays
      /\ entries \in Seq(1 .. Last) /\ pending \in Nat /\ Len(entries) + pending <= MaxEntries
      /\ verdict \in {None, "allowed", "stopped"}
      /\ \A i \in DOMAIN entries : entries[i] <= Cl!Today
  BY DEF ClInv, Cl!TypeOK, ClDays
<1>2. /\ Cl!Today = Cl!DaysBefore[month] + dom /\ Cl!DaysBefore[month] \in Nat
      /\ Cl!Today \in 1 .. Last /\ Last \in Nat
  BY <1>1, TodayIs DEF ClMonths
<1>3. DOMAIN entries = 1 .. Len(entries) /\ Len(entries) \in Nat /\ \A i \in DOMAIN entries : entries[i] \in Int
  <2> HIDE DEF Last
  <2>1. DOMAIN entries = 1 .. Len(entries) /\ Len(entries) \in Nat /\ \A i \in 1 .. Len(entries) : entries[i] \in 1 .. Last
    BY <1>1, LenProperties, ElementOfSeq
  <2> QED BY <1>2, <2>1
<1>4. ASSUME UNCHANGED startDay, month' \in Cl!Months, dom' \in 1 .. ClDays(month'), month' > 1,
             entries' \in Seq(1 .. Last), pending' \in Nat, Len(entries') + pending' <= MaxEntries,
             verdict' \in {None, "allowed", "stopped"}, \A i \in DOMAIN entries' : entries'[i] <= Cl!Today'
      PROVE  ClInv'
  BY <1>1, <1>4 DEF ClInv, Cl!TypeOK, ClDays
<1> HIDE DEF Last
<1>5. ASSUME UNCHANGED <<month, dom>> PROVE Cl!Today' = Cl!Today
  BY <1>5 DEF Cl!Today, Cl!DayNumber
<1>6. CASE UNCHANGED cycleVars
  BY <1>1, <1>4, <1>5, <1>6 DEF cycleVars
<1>7. CASE Cl!Check
  BY <1>1, <1>4, <1>5, <1>7 DEF Cl!Check
<1>8. CASE Cl!Enqueue
  <2>1. /\ Len(entries) + pending < MaxEntries /\ pending' = pending + 1 /\ verdict' = None
        /\ UNCHANGED <<startDay, month, dom, entries>>
    BY <1>8 DEF Cl!Enqueue
  <2>2. pending' \in Nat /\ Len(entries') + pending' <= MaxEntries
    <3>1. MaxEntries \in Nat
      BY PartsAssumption DEF Cl!SendsAssumption
    <3> QED BY <1>1, <1>3, <2>1, <3>1
  <2> QED BY <1>1, <1>4, <1>5, <2>1, <2>2
<1>9. CASE Cl!Record
  <2>1. /\ pending > 0 /\ pending' = pending - 1 /\ verdict' = None
        /\ entries' = entries \/ entries' = Append(entries, Cl!Today)
        /\ UNCHANGED <<startDay, month, dom>>
    BY <1>9 DEF Cl!Record, Cl!recordCostEntry
  <2>2. MaxEntries \in Nat /\ pending' \in Nat
    BY <1>1, <2>1, PartsAssumption DEF Cl!SendsAssumption
  <2>3. CASE entries' = entries
    BY <1>1, <1>3, <1>4, <1>5, <2>1, <2>2, <2>3
  <2>4. CASE entries' = Append(entries, Cl!Today)
    <3>1. /\ entries' \in Seq(1 .. Last) /\ Len(entries') = Len(entries) + 1
          /\ \A i \in 1 .. Len(entries) : entries'[i] = entries[i]
          /\ entries'[Len(entries) + 1] = Cl!Today
      BY <1>1, <1>2, <2>4, AppendProperties
    <3>2. DOMAIN entries' = 1 .. (Len(entries) + 1)
      BY <3>1, LenProperties
    <3>3. \A i \in DOMAIN entries' : entries'[i] <= Cl!Today'
      <4>1. Cl!Today' = Cl!Today /\ Cl!Today \in Int /\ Cl!Today <= Cl!Today
        BY <1>2, <1>5, <2>1
      <4>2. ASSUME NEW i \in DOMAIN entries' PROVE entries'[i] <= Cl!Today
        <5>1. CASE i = Len(entries) + 1
          BY <3>1, <4>1, <5>1
        <5>2. CASE i # Len(entries) + 1
          <6>1. i \in 1 .. Len(entries)
            BY <1>3, <3>2, <5>2
          <6> QED BY <1>1, <1>3, <3>1, <6>1
        <5> QED BY <5>1, <5>2
      <4> QED BY <4>1, <4>2
    <3>4. Len(entries') + pending' <= MaxEntries
      BY <1>1, <1>3, <2>1, <2>2, <3>1
    <3> QED BY <1>1, <1>4, <2>1, <2>2, <3>1, <3>3, <3>4
  <2> QED BY <2>1, <2>3, <2>4
<1>10. CASE Cl!NextDay
  <2>1. /\ verdict' = None /\ UNCHANGED <<startDay, entries, pending>>
        /\ \/ dom < ClDays(month) /\ dom' = dom + 1 /\ UNCHANGED month
           \/ dom = ClDays(month) /\ month < ClMonths /\ dom' = 1 /\ month' = month + 1
    BY <1>10 DEF Cl!NextDay, ClDays, ClMonths
  <2>2. month' \in Cl!Months /\ month' > 1 /\ dom' \in 1 .. ClDays(month')
    <3>1. CASE dom < ClDays(month) /\ dom' = dom + 1 /\ UNCHANGED month
      BY <1>0, <1>1, <3>1
    <3>2. CASE dom = ClDays(month) /\ month < ClMonths /\ dom' = 1 /\ month' = month + 1
      <4>1. month' \in Cl!Months /\ month' > 1
        BY <1>0, <1>1, <3>2
      <4>2. ClDays(month') \in Nat /\ ClDays(month') > 0
        BY <1>0, <4>1
      <4> QED BY <3>2, <4>1, <4>2
    <3> QED BY <2>1, <3>1, <3>2
  <2>3. Cl!Today < Cl!Today' /\ Cl!Today' \in Int
    <3>1. Cl!Today' = Cl!DaysBefore[month'] + dom'
      BY DEF Cl!Today, Cl!DayNumber
    <3>2. CASE dom < ClDays(month) /\ dom' = dom + 1 /\ UNCHANGED month
      BY <1>1, <1>2, <3>1, <3>2
    <3>3. CASE dom = ClDays(month) /\ month < ClMonths /\ dom' = 1 /\ month' = month + 1
      <4>1. Cl!DaysBefore[month + 1] = Cl!DaysBefore[month] + ClDays(month)
        BY <1>1, DaysBeforeIs
      <4> QED BY <1>1, <1>2, <3>1, <3>3, <4>1
    <3> QED BY <2>1, <3>2, <3>3
  <2>4. \A i \in DOMAIN entries' : entries'[i] <= Cl!Today'
    <3>1. \A i \in DOMAIN entries : entries[i] <= Cl!Today /\ entries[i] \in Int /\ Cl!Today \in Int
      BY <1>1, <1>2, <1>3
    <3> QED BY <2>1, <2>3, <3>1
  <2> QED BY <1>1, <1>4, <2>1, <2>2, <2>4
<1> QED BY <1>6, <1>7, <1>8, <1>9, <1>10 DEF Cl!Next

LEMMA ClInitial == Cl!Init => ClInv
<1> SUFFICES ASSUME Cl!Init PROVE ClInv
  OBVIOUS
<1>0. /\ ClMonths \in Nat /\ ClMonths > 1 /\ Cl!Months = 1 .. ClMonths
      /\ \A m \in Cl!Months : ClDays(m) \in Nat /\ ClDays(m) > 0
  BY CalendarIs
<1>1. 2 \in Cl!Months /\ 1 \in 1 .. ClDays(2)
  BY <1>0
<1>2. entries = <<>> /\ Len(entries) = 0 /\ DOMAIN entries = {} /\ \A S : entries \in Seq(S)
  BY DEF Cl!Init
<1>3. MaxEntries \in Nat /\ 0 + 0 <= MaxEntries
  BY PartsAssumption DEF Cl!SendsAssumption
<1>4. /\ startDay \in StartDays /\ month = 2 /\ dom = 1 /\ pending = 0 /\ verdict = None
  BY DEF Cl!Init
<1>5. month \in Cl!Months /\ dom \in 1 .. Calendar[month] /\ month > 1
  BY <1>1, <1>4 DEF ClDays
<1>6. Len(entries) + pending <= MaxEntries
  BY <1>2, <1>3, <1>4
<1> QED BY <1>2, <1>4, <1>5, <1>6 DEF ClInv, Cl!TypeOK

\* An entry is of the cycle of today if it is not from before the day that began it.
LEMMA CycleIsCounted == ClInv => Cl!CountsCycle
<1> SUFFICES ASSUME ClInv, \A m \in Cl!Months : startDay <= ClDays(m)
             PROVE  Cl!sendsSince(Cl!cycleStartDate) =
                      Cl!Cardinality({i \in DOMAIN entries : Cl!CyclesBegun(entries[i]) = Cl!CyclesBegun(Cl!Today)})
  BY DEF Cl!CountsCycle, ClDays
<1> DEFINE F(m) == Cl!DayNumber(m, startDay)
           Begun(day) == {m \in Cl!Months : F(m) <= day}
           c == IF dom >= startDay THEN month ELSE month - 1
<1>0. /\ ClMonths \in Nat /\ Cl!Months = 1 .. ClMonths /\ \A m \in Cl!Months : ClDays(m) \in Nat /\ ClDays(m) > 0
      /\ IsFiniteSet(Cl!Months)
  <2>1. ClMonths \in Nat /\ Cl!Months = 1 .. ClMonths
    BY CalendarIs
  <2>2. IsFiniteSet(1 .. ClMonths)
    BY <2>1, FS_Interval
  <2> QED BY <2>1, <2>2, CalendarIs
<1>1. /\ month \in Cl!Months /\ dom \in 1 .. ClDays(month) /\ month > 1
      /\ startDay \in Nat /\ startDay > 0
      /\ \A i \in DOMAIN entries : entries[i] <= Cl!Today /\ entries[i] \in Int
  <2>1. /\ month \in Cl!Months /\ dom \in 1 .. ClDays(month) /\ month > 1 /\ startDay \in StartDays
        /\ entries \in Seq(1 .. Cl!DaysBefore[Len(Calendar) + 1])
        /\ \A i \in DOMAIN entries : entries[i] <= Cl!Today
    BY DEF ClInv, Cl!TypeOK, ClDays
  <2>2. startDay \in Nat /\ startDay # 0
    BY <2>1, PartsAssumption DEF Cl!StartAssumption
  <2>3. \A i \in DOMAIN entries : entries[i] \in Int
    <3> DEFINE Last == Cl!DaysBefore[Len(Calendar) + 1]
    <3>1. Last \in Nat
      BY <2>1, TodayIs DEF ClMonths
    <3> HIDE DEF Last
    <3>2. DOMAIN entries = 1 .. Len(entries) /\ \A i \in 1 .. Len(entries) : entries[i] \in 1 .. Last
      BY <2>1, LenProperties, ElementOfSeq DEF Last
    <3> QED BY <3>1, <3>2
  <2> QED BY <2>1, <2>2, <2>3
<1>2. Cl!Today = Cl!DaysBefore[month] + dom /\ Cl!DaysBefore[month] \in Nat /\ Cl!Today \in Int
  BY <1>1, TodayIs
<1>3. c \in Cl!Months /\ c \in Int
  BY <1>0, <1>1
<1>4. \A m \in Cl!Months : /\ F(m) = Cl!DaysBefore[m] + startDay /\ Cl!DaysBefore[m] \in Nat /\ F(m) \in Int
  BY <1>0, <1>1, DaysGrow DEF Cl!DayNumber
<1>5. Cl!cycleStartDate = F(c)
  BY DEF Cl!cycleStartDate
<1>6. F(c) <= Cl!Today
  <2>1. CASE dom >= startDay
    BY <1>1, <1>2, <1>4, <2>1
  <2>2. CASE ~ (dom >= startDay)
    <3>1. /\ month - 1 \in Cl!Months /\ c = month - 1 /\ (month - 1) + 1 = month
      BY <1>0, <1>1, <2>2
    <3>2. Cl!DaysBefore[month] = Cl!DaysBefore[month - 1] + ClDays(month - 1)
      BY <3>1, DaysBeforeIs
    <3>3. startDay <= ClDays(month - 1) /\ ClDays(month - 1) \in Nat
      BY <1>0, <3>1
    <3>4. F(c) = Cl!DaysBefore[month - 1] + startDay /\ Cl!DaysBefore[month - 1] \in Nat
      BY <1>4, <3>1
    <3> QED BY <1>1, <1>2, <3>2, <3>3, <3>4
  <2> QED BY <2>1, <2>2
<1>7. \A m \in Cl!Months : m > c => F(m) > Cl!Today
  <2> SUFFICES ASSUME NEW m \in Cl!Months, m > c PROVE F(m) > Cl!Today
    OBVIOUS
  <2>0. m \in 1 .. (ClMonths + 1)
    BY <1>0
  <2>1. CASE dom >= startDay
    <3>1. month + 1 \in 1 .. m
      BY <1>0, <1>1, <2>1
    <3>2. Cl!DaysBefore[month + 1] <= Cl!DaysBefore[m]
      BY <2>0, <3>1, DaysGrow
    <3>3. Cl!DaysBefore[month + 1] = Cl!DaysBefore[month] + ClDays(month) /\ ClDays(month) \in Nat
      BY <1>0, <1>1, DaysBeforeIs
    <3> QED BY <1>1, <1>2, <1>4, <3>2, <3>3
  <2>2. CASE ~ (dom >= startDay)
    <3>1. month \in 1 .. m
      BY <1>0, <1>1, <2>2
    <3>2. Cl!DaysBefore[month] <= Cl!DaysBefore[m]
      BY <2>0, <3>1, DaysGrow
    <3> QED BY <1>1, <1>2, <1>4, <2>2, <3>2
  <2> QED BY <2>1, <2>2
<1>8. \A m \in Cl!Months : m <= c => F(m) <= F(c)
  <2> SUFFICES ASSUME NEW m \in Cl!Months, m <= c PROVE F(m) <= F(c)
    OBVIOUS
  <2>1. c \in 1 .. (ClMonths + 1) /\ m \in 1 .. c
    BY <1>0, <1>3
  <2>2. Cl!DaysBefore[m] <= Cl!DaysBefore[c]
    BY <2>1, DaysGrow
  <2> QED BY <1>1, <1>3, <1>4, <2>2
<1> HIDE DEF c, F
<1>9. ASSUME NEW i \in DOMAIN entries
      PROVE  (entries[i] >= F(c)) <=> (Begun(entries[i]) = Begun(Cl!Today))
  <2>0. entries[i] <= Cl!Today /\ entries[i] \in Int /\ F(c) \in Int /\ \A m \in Cl!Months : m \in Int /\ F(m) \in Int
    BY <1>0, <1>1, <1>3, <1>4
  <2>1. ASSUME entries[i] >= F(c), NEW m \in Cl!Months PROVE F(m) <= entries[i] <=> F(m) <= Cl!Today
    <3>1. F(m) <= Cl!Today => F(m) <= F(c)
      BY <1>2, <1>3, <1>7, <1>8, <2>0
    <3> QED BY <1>2, <2>0, <2>1, <3>1
  <2>2. ASSUME ~ (entries[i] >= F(c)) PROVE c \notin Begun(entries[i]) /\ c \in Begun(Cl!Today)
    BY <1>3, <1>6, <2>0, <2>2
  <2> QED BY <2>1, <2>2
<1>10. \A day : IsFiniteSet(Begun(day)) /\ Cl!CyclesBegun(day) = Cardinality(Begun(day))
  <2> SUFFICES ASSUME NEW day PROVE IsFiniteSet(Begun(day)) /\ Cl!CyclesBegun(day) = Cardinality(Begun(day))
    OBVIOUS
  <2>1. IsFiniteSet(Begun(day))
    BY <1>0, FS_Subset
  <2>2. Cl!CyclesBegun(day) = Cl!Cardinality(Begun(day))
    BY DEF Cl!CyclesBegun, F
  <2>3. Cl!Cardinality(Begun(day)) = Cardinality(Begun(day))
    BY DEF Cl!Cardinality, Cardinality
  <2> QED BY <2>1, <2>2, <2>3
<1>11. ASSUME NEW i \in DOMAIN entries
       PROVE  (Cl!CyclesBegun(entries[i]) = Cl!CyclesBegun(Cl!Today)) <=> (Begun(entries[i]) = Begun(Cl!Today))
  <2>1. Begun(entries[i]) \subseteq Begun(Cl!Today)
    BY <1>0, <1>1, <1>2, <1>4
  <2> HIDE DEF Begun
  <2>2. Cardinality(Begun(entries[i])) = Cardinality(Begun(Cl!Today)) => Begun(entries[i]) = Begun(Cl!Today)
    BY <1>10, <2>1, FS_Subset
  <2> QED BY <1>10, <2>2
<1> HIDE DEF Begun
<1>12. {i \in DOMAIN entries : entries[i] >= F(c)}
         = {i \in DOMAIN entries : Cl!CyclesBegun(entries[i]) = Cl!CyclesBegun(Cl!Today)}
  BY <1>9, <1>11
<1> QED BY <1>5, <1>12 DEF Cl!sendsSince

------------------------------------------------------------------------------
(* The records together *)

RecordsInv == AsInv /\ StInv /\ ClInv /\ UsInv

LEMMA RecordsInitial == Init => RecordsInv
BY AsInitial, StInitial, ClInitial, UsInitial DEF Init, RecordsInv

LEMMA RecordsStep == RecordsInv /\ [Next]_vars => RecordsInv'
BY AsStep, StStep, ClStep, UsStep, PartSteps DEF RecordsInv

(***************************************************************************)
(* What is recorded is true of what happened: an agent's phase and since     *)
(* when follow the log of the changes, whatever updates are lost; no recent   *)
(* error that the watchdog's log shows is missing from its count; the guard    *)
(* counts the sends of the cycle of today; a percentage of the usage page was   *)
(* loaded while the probe ran.                                                   *)
(***************************************************************************)
THEOREM RecordsAreTrue == Spec => []RecordsTrue
<1>1. Init => RecordsInv
  BY RecordsInitial
<1>2. RecordsInv /\ [Next]_vars => RecordsInv'
  BY RecordsStep
<1>3. RecordsInv => RecordsTrue
  <2> SUFFICES ASSUME RecordsInv PROVE RecordsTrue
    OBVIOUS
  <2>1. As!StateFollowsLog
    BY DEF RecordsInv, AsInv, AsGood, As!StateFollowsLog
  <2>2. St!RecentErrorsCounted
    BY StSizes DEF RecordsInv, StInv
  <2>3. Cl!CountsCycle
    BY CycleIsCounted DEF RecordsInv
  <2>4. Us!ReadingsFresh
    BY DEF RecordsInv, UsInv, UsTaken, Us!ReadingsFresh
  <2> QED BY <2>1, <2>2, <2>3, <2>4 DEF RecordsTrue
<1> QED BY <1>1, <1>2, <1>3, PTL DEF Spec

------------------------------------------------------------------------------
(* The turn log *)

\* The lines up to the n-th.
First(n) == [i \in 1 .. n |-> i]

LEMMA FirstIs ==
  ASSUME NEW n \in Nat
  PROVE  /\ First(n) \in Seq(1 .. n) /\ First(n) \in Seq(Nat) /\ Len(First(n)) = n /\ DOMAIN First(n) = 1 .. n
         /\ \A i \in 1 .. n : First(n)[i] = i
         /\ First(n + 1) = Append(First(n), n + 1)
         /\ \A x \in 1 .. n : Tf!Contains(First(n), x)
         /\ ~ Tf!Contains(First(n), n + 1)
<1>1. /\ First(n) \in Seq(1 .. n) /\ First(n) \in Seq(Nat) /\ Len(First(n)) = n /\ DOMAIN First(n) = 1 .. n
      /\ \A i \in 1 .. n : First(n)[i] = i
  BY DEF First
<1>2. First(n + 1) = Append(First(n), n + 1)
  <2>1. /\ Append(First(n), n + 1) \in Seq(Nat) /\ Len(Append(First(n), n + 1)) = n + 1
        /\ \A i \in 1 .. n : Append(First(n), n + 1)[i] = i
        /\ Append(First(n), n + 1)[n + 1] = n + 1
    BY <1>1, AppendProperties
  <2>2. Append(First(n), n + 1) = [i \in 1 .. (n + 1) |-> Append(First(n), n + 1)[i]]
    BY <2>1, LenProperties
  <2>3. \A i \in 1 .. (n + 1) : Append(First(n), n + 1)[i] = i
    BY <2>1
  <2> QED BY <2>2, <2>3 DEF First
<1>3. \A x \in 1 .. n : Tf!Contains(First(n), x)
  BY <1>1 DEF Tf!Contains
<1>4. ~ Tf!Contains(First(n), n + 1)
  <2> SUFFICES ASSUME NEW i \in 1 .. Len(First(n)), First(n)[i] = n + 1 PROVE FALSE
    BY DEF Tf!Contains
  <2> QED BY <1>1
<1> QED BY <1>1, <1>2, <1>3, <1>4

Longer(n, k) == IF n >= k THEN n ELSE k

\* Lines merged into rows, where both are the log as far as they go.
LEMMA MergedIs ==
  ASSUME NEW n \in Nat, NEW k \in Nat, rows = First(n)
  PROVE  Tf!Merged(First(k)) = First(Longer(n, k))
<1> DEFINE lines == First(k)
           Row(f, i) == IF i = 0 THEN rows
                        ELSE IF Tf!Contains(f[i - 1], lines[i]) THEN f[i - 1] ELSE Append(f[i - 1], lines[i])
           Adds(f) == f = [i \in 0 .. Len(lines) |-> Row(f, i)]
           after == CHOOSE f : Adds(f)
           witness == [i \in 0 .. k |-> First(Longer(n, i))]
<1>0. Len(lines) = k /\ \A i \in 1 .. k : lines[i] = i
  BY FirstIs
<1>1. Tf!Merged(lines) = after[Len(lines)]
  BY DEF Tf!Merged
<1>2. ASSUME NEW i \in 1 .. k
      PROVE  LET s == First(Longer(n, i - 1))
             IN  First(Longer(n, i)) = IF Tf!Contains(s, i) THEN s ELSE Append(s, i)
  <2>1. CASE i <= n
    <3>1. Longer(n, i - 1) = n /\ Longer(n, i) = n /\ i \in 1 .. n
      BY <2>1 DEF Longer
    <3>2. Tf!Contains(First(n), i)
      BY <3>1, FirstIs
    <3> QED BY <3>1, <3>2
  <2>2. CASE ~ (i <= n)
    <3>1. Longer(n, i - 1) = i - 1 /\ Longer(n, i) = i /\ i - 1 \in Nat /\ (i - 1) + 1 = i
      BY <2>2 DEF Longer
    <3> DEFINE j == i - 1
    <3>2. j \in Nat /\ j + 1 = i
      BY <3>1
    <3> HIDE DEF j
    <3>3. First(j + 1) = Append(First(j), j + 1) /\ ~ Tf!Contains(First(j), j + 1)
      BY <3>2, FirstIs
    <3>4. First(i) = Append(First(j), i) /\ ~ Tf!Contains(First(j), i)
      BY <3>2, <3>3
    <3> QED BY <3>1, <3>4 DEF j
  <2> QED BY <2>1, <2>2
<1>3. \A i \in 1 .. k : i - 1 \in 0 .. k
  OBVIOUS
<1>4. Longer(n, 0) = n
  BY DEF Longer
<1>5. Adds(witness)
  <2>1. \A i \in 0 .. k : witness[i] = First(Longer(n, i))
    OBVIOUS
  <2> HIDE DEF witness
  <2>2. ASSUME NEW i \in 0 .. k PROVE First(Longer(n, i)) = Row(witness, i)
    <3>1. CASE i = 0
      BY <1>4, <3>1
    <3>2. CASE i # 0
      <4>1. i \in 1 .. k /\ lines[i] = i
        BY <1>0, <3>2
      <4>2. witness[i - 1] = First(Longer(n, i - 1))
        BY <1>3, <2>1, <4>1
      <4> HIDE DEF lines
      <4>3. Row(witness, i) = IF Tf!Contains(witness[i - 1], i) THEN witness[i - 1] ELSE Append(witness[i - 1], i)
        BY <3>2, <4>1
      <4> QED BY <1>2, <4>1, <4>2, <4>3
    <3> QED BY <3>1, <3>2
  <2> QED BY <1>0, <2>2 DEF witness
<1>6. Adds(after)
  <2> HIDE DEF Adds, witness
  <2> QED BY <1>5
<1> HIDE DEF witness, after
<1>7. \A i \in 0 .. k : after[i] = Row(after, i)
  BY <1>0, <1>6
<1> DEFINE Bad == {i \in 0 .. k : after[i] # First(Longer(n, i))}
<1>8. ASSUME Bad # {} PROVE FALSE
  <2>1. PICK i \in Bad : \A j \in Bad : ~ (<<j, i>> \in OpToRel(<, Nat))
    <3>1. Bad \subseteq Nat
      OBVIOUS
    <3> QED BY <1>8, <3>1, WFMin, NatLessThanWellFounded
  <2>2. i \in 0 .. k /\ after[i] # First(Longer(n, i))
    OBVIOUS
  <2>3. CASE i = 0
    BY <1>4, <1>7, <2>2, <2>3
  <2>4. CASE i # 0
    <3>1. i \in 1 .. k /\ lines[i] = i /\ i - 1 \in 0 .. k /\ i - 1 \in Nat /\ i \in Nat /\ i - 1 < i
      BY <1>0, <2>2, <2>4
    <3>2. i - 1 \notin Bad
      BY <2>1, <3>1 DEF OpToRel
    <3>3. after[i - 1] = First(Longer(n, i - 1))
      BY <3>1, <3>2
    <3> HIDE DEF lines
    <3>4. after[i] = IF Tf!Contains(after[i - 1], i) THEN after[i - 1] ELSE Append(after[i - 1], i)
      BY <1>7, <2>2, <2>4, <3>1
    <3> QED BY <1>2, <2>2, <3>1, <3>3, <3>4
  <2> QED BY <2>3, <2>4
<1>9. after[k] = First(Longer(n, k))
  BY <1>8
<1> QED BY <1>0, <1>1, <1>9

\* The log is numbered, and the rows and what is being merged are whole lines of it.
TfLogInv ==
  /\ partial \in BOOLEAN
  /\ \E n \in 0 .. MaxLines : /\ log = First(n) /\ (partial => n > 0)
       /\ \E r \in 0 .. n : rows = First(r) /\ (partial => r < n)
       /\ \A p \in Syncers : reading[p] = Idle
            \/ \E k \in 0 .. n : reading[p].lines = First(k) /\ (partial => k < n)
  /\ reading = [p \in Syncers |-> reading[p]]

LEMMA FirstGrows ==
  ASSUME NEW n \in Nat, NEW k \in 0 .. n
  PROVE  /\ Tf!IsPrefix(First(k), First(n)) /\ Tf!ToSet(First(k)) \subseteq Tf!ToSet(First(n))
         /\ SubSeq(First(n), 1, k) = First(k)
         /\ \A m \in Nat : n <= m => First(k) \in Tf!BoundedSeq(1 .. m, m)
<1>1. /\ k \in Nat /\ Len(First(k)) = k /\ Len(First(n)) = n /\ k <= n
      /\ DOMAIN First(k) = 1 .. k /\ DOMAIN First(n) = 1 .. n
      /\ \A i \in 1 .. k : First(k)[i] = i /\ First(n)[i] = i
      /\ First(n) \in Seq(Nat) /\ First(k) \in Seq(Nat)
  BY FirstIs
<1>2. SubSeq(First(k), 1, k) = SubSeq(First(n), 1, k) /\ SubSeq(First(n), 1, k) = First(k)
  <2> DEFINE a == SubSeq(First(k), 1, k)
             b == SubSeq(First(n), 1, k)
  <2>1. /\ a \in Seq(Nat) /\ Len(a) = k /\ \A i \in 1 .. k : a[i] = i
        /\ b \in Seq(Nat) /\ Len(b) = k /\ \A i \in 1 .. k : b[i] = i
    <3>1. 1 \in Int /\ k \in Int /\ \A i \in 1 .. k : First(k)[i] \in Nat /\ First(n)[i] \in Nat
      BY <1>1
    <3>2. /\ a \in Seq(Nat) /\ Len(a) = (IF 1 <= k THEN k - 1 + 1 ELSE 0)
          /\ \A i \in 1 .. (k - 1 + 1) : a[i] = First(k)[1 + i - 1]
      BY ONLY <3>1, SubSeqProperties
    <3>3. /\ b \in Seq(Nat) /\ Len(b) = (IF 1 <= k THEN k - 1 + 1 ELSE 0)
          /\ \A i \in 1 .. (k - 1 + 1) : b[i] = First(n)[1 + i - 1]
      BY ONLY <3>1, SubSeqProperties
    <3> HIDE DEF a, b
    <3> QED BY <1>1, <3>2, <3>3
  <2> HIDE DEF a, b
  <2>2. a = [i \in 1 .. k |-> a[i]] /\ b = [i \in 1 .. k |-> b[i]]
    BY <2>1, LenProperties
  <2>3. a = b /\ b = First(k)
    BY <2>1, <2>2 DEF First
  <2> QED BY <2>3 DEF a, b
<1>3. Tf!IsPrefix(First(k), First(n))
  BY <1>1, <1>2 DEF Tf!IsPrefix
<1>4. Tf!ToSet(First(k)) \subseteq Tf!ToSet(First(n))
  BY <1>1 DEF Tf!ToSet
<1>5. ASSUME NEW m \in Nat, n <= m PROVE First(k) \in Tf!BoundedSeq(1 .. m, m)
  <2>1. k \in 0 .. m /\ First(k) \in [1 .. k -> 1 .. m]
    BY <1>1, <1>5 DEF First
  <2> QED BY <2>1 DEF Tf!BoundedSeq, Tf!SeqOf
<1> QED BY <1>2, <1>3, <1>4, <1>5

LEMMA TfLogStep == TfLogInv /\ [Tf!Next]_fileVars => TfLogInv'
<1> SUFFICES ASSUME TfLogInv, [Tf!Next]_fileVars PROVE TfLogInv'
  OBVIOUS
<1>0. MaxLines \in Nat /\ partial \in BOOLEAN /\ reading = [p \in Syncers |-> reading[p]]
  BY PartsAssumption DEF Tf!BoundsAssumption, TfLogInv
<1>1. PICK n \in 0 .. MaxLines, r \in Nat :
        /\ r \in 0 .. n /\ log = First(n) /\ (partial => n > 0) /\ rows = First(r) /\ (partial => r < n)
        /\ \A p \in Syncers : reading[p] = Idle
             \/ \E k \in 0 .. n : reading[p].lines = First(k) /\ (partial => k < n)
  BY DEF TfLogInv
<1>2. n \in Nat /\ r \in Nat /\ r <= n /\ n <= MaxLines
  BY <1>0, <1>1
<1>3. CASE UNCHANGED fileVars \/ Tf!Session
  <2>1. UNCHANGED <<log, partial, reading, rows>>
    BY <1>3 DEF fileVars, Tf!Session, Tf!logVars, Tf!Truncate, Tf!Write, Tf!Rename, Tf!StartSync,
         Tf!StartWatch, Tf!Debounced, Tf!Load
  <2> QED BY <2>1 DEF TfLogInv
<1>4. CASE Tf!AppendLine
  <2>1. /\ partial = FALSE /\ Len(log) < MaxLines /\ log' = Append(log, Len(log) + 1) /\ partial' = TRUE
        /\ UNCHANGED <<reading, rows>>
    BY <1>0, <1>4 DEF Tf!AppendLine
  <2>2. log' = First(n + 1) /\ n + 1 \in 0 .. MaxLines
    <3>1. Len(log) = n /\ First(n + 1) = Append(First(n), n + 1)
      BY <1>1, <1>2, FirstIs
    <3>2. n < MaxLines
      BY <2>1, <3>1
    <3> QED BY <1>0, <1>1, <1>2, <2>1, <3>1, <3>2
  <2>3. \A k \in 0 .. n : k \in 0 .. (n + 1) /\ k < n + 1
    BY <1>2
  <2>4. \A p \in Syncers : reading[p] = Idle
          \/ \E k \in 0 .. (n + 1) : reading[p].lines = First(k) /\ k < n + 1
    BY <1>1, <2>3
  <2>5. r \in 0 .. (n + 1) /\ r < n + 1 /\ n + 1 > 0
    BY <1>2
  <2> DEFINE m == n + 1
  <2>6. m \in 0 .. MaxLines /\ log' = First(m) /\ m > 0 /\ r \in 0 .. m /\ r < m
        /\ \A p \in Syncers : reading[p] = Idle \/ \E k \in 0 .. m : reading[p].lines = First(k) /\ k < m
    BY <2>2, <2>4, <2>5
  <2> HIDE DEF m
  <2> QED BY <1>0, <1>1, <2>1, <2>6 DEF TfLogInv
<1>5. CASE Tf!EndLine
  <2>1. partial' = FALSE /\ UNCHANGED <<log, reading, rows>>
    BY <1>5 DEF Tf!EndLine
  <2> QED BY <1>0, <1>1, <2>1 DEF TfLogInv
<1>6. ASSUME NEW p \in Syncers, Tf!ReadLog(p) PROVE TfLogInv'
  <2>1. /\ reading' = [reading EXCEPT ![p] = [lines |-> Tf!Parsed]] /\ UNCHANGED <<log, partial, rows>>
    BY <1>6 DEF Tf!ReadLog
  <2>2. \E k \in 0 .. n : Tf!Parsed = First(k) /\ (partial => k < n)
    <3>1. CASE partial
      <4>1. n - 1 \in 0 .. n /\ n - 1 < n /\ Len(log) = n
        BY <1>1, <1>2, <3>1, FirstIs
      <4> DEFINE k == n - 1
      <4>2. Tf!Parsed = SubSeq(log, 1, k)
        BY <3>1, <4>1 DEF Tf!Parsed, Tf!Front
      <4>3. k \in 0 .. n /\ k < n
        BY <4>1
      <4> HIDE DEF k
      <4>4. SubSeq(First(n), 1, k) = First(k)
        BY <1>2, <4>3, FirstGrows
      <4> QED BY <1>1, <4>2, <4>3, <4>4
    <3>2. CASE ~ partial
      <4>1. Tf!Parsed = First(n) /\ n \in 0 .. n
        BY <1>1, <1>2, <3>2 DEF Tf!Parsed
      <4> QED BY <3>2, <4>1
    <3> QED BY <3>1, <3>2
  <2>3. /\ reading' = [q \in Syncers |-> reading'[q]] /\ reading'[p].lines = Tf!Parsed
        /\ \A q \in Syncers : q # p => reading'[q] = reading[q]
    BY <1>0, <2>1
  <2>4. \A q \in Syncers : reading'[q] = Idle
          \/ \E k \in 0 .. n : reading'[q].lines = First(k) /\ (partial => k < n)
    BY <1>1, <2>2, <2>3
  <2> QED BY <1>0, <1>1, <2>1, <2>3, <2>4 DEF TfLogInv
<1>7. ASSUME NEW p \in Syncers, Tf!MergeLog(p) PROVE TfLogInv'
  <2>1. /\ reading[p] # Idle /\ rows' = Tf!Merged(reading[p].lines)
        /\ reading' = [reading EXCEPT ![p] = Idle] /\ UNCHANGED <<log, partial>>
    BY <1>7 DEF Tf!MergeLog
  <2>2. PICK k \in 0 .. n : reading[p].lines = First(k) /\ (partial => k < n)
    BY <1>1, <2>1
  <2>3. rows' = First(Longer(r, k))
    BY <1>1, <1>2, <2>1, <2>2, MergedIs
  <2>4. Longer(r, k) \in 0 .. n /\ (partial => Longer(r, k) < n)
    BY <1>1, <2>2 DEF Longer
  <2>5. /\ reading' = [q \in Syncers |-> reading'[q]] /\ reading'[p] = Idle
        /\ \A q \in Syncers : q # p => reading'[q] = reading[q]
    BY <1>0, <2>1
  <2> QED BY <1>0, <1>1, <2>1, <2>3, <2>4, <2>5 DEF TfLogInv
<1> QED BY <1>3, <1>4, <1>5, <1>6, <1>7 DEF Tf!Next, Tf!TurnLog

LEMMA TfLogInitial == Tf!Init => TfLogInv
<1> SUFFICES ASSUME Tf!Init PROVE TfLogInv
  OBVIOUS
<1>1. MaxLines \in Nat /\ 0 \in 0 .. MaxLines /\ 0 \in 0 .. 0
  BY PartsAssumption DEF Tf!BoundsAssumption
<1>2. /\ log = First(0) /\ rows = First(0) /\ partial = FALSE
      /\ reading = [p \in Syncers |-> reading[p]] /\ \A p \in Syncers : reading[p] = Idle
  BY DEF Tf!Init, First
<1> QED BY <1>1, <1>2 DEF TfLogInv

\* A merge by one process, when all of its lines are lines of the log.
LEMMA MergeHasAll ==
  ASSUME TfLogInv, [Tf!Next]_fileVars, NEW p \in Syncers, reading[p] # Idle, reading'[p] = Idle
  PROVE  Tf!ToSet(reading[p].lines) \subseteq Tf!ToSet(rows')
<1>0. reading = [q \in Syncers |-> reading[q]]
  BY DEF TfLogInv
<1>1. Tf!MergeLog(p)
  <2>1. reading' # reading
    OBVIOUS
  <2>2. \E q \in Syncers : Tf!ReadLog(q) \/ Tf!MergeLog(q)
    BY <2>1 DEF fileVars, Tf!Next, Tf!Session, Tf!TurnLog, Tf!logVars, Tf!Truncate, Tf!Write, Tf!Rename,
         Tf!StartSync, Tf!StartWatch, Tf!Debounced, Tf!Load, Tf!AppendLine, Tf!EndLine
  <2>3. ASSUME NEW q \in Syncers, Tf!ReadLog(q) PROVE FALSE
    BY <1>0, <2>3 DEF Tf!ReadLog
  <2>4. ASSUME NEW q \in Syncers, Tf!MergeLog(q) PROVE q = p
    BY <1>0, <2>4 DEF Tf!MergeLog
  <2> QED BY <2>2, <2>3, <2>4
<1>2. PICK r \in Nat, k \in Nat : rows = First(r) /\ reading[p].lines = First(k)
  BY DEF TfLogInv
<1>3. r \in Nat /\ k \in Nat
  OBVIOUS
<1>4. rows' = First(Longer(r, k))
  BY <1>1, <1>2, <1>3, MergedIs DEF Tf!MergeLog
<1>5. Longer(r, k) \in Nat /\ k \in 0 .. Longer(r, k)
  BY <1>3 DEF Longer
<1> QED BY <1>2, <1>4, <1>5, FirstGrows

LEMMA RowsArePrefix == TfLogInv => Tf!RowsFollowLog
<1> SUFFICES ASSUME TfLogInv PROVE Tf!IsPrefix(rows, log)
  BY DEF Tf!RowsFollowLog
<1>1. PICK n \in 0 .. MaxLines, r \in Nat : r \in 0 .. n /\ rows = First(r) /\ log = First(n)
  BY DEF TfLogInv
<1>2. n \in Nat
  BY PartsAssumption DEF Tf!BoundsAssumption
<1> QED BY <1>1, <1>2, FirstGrows

(***************************************************************************)
(* The turn log and its rows: the rows are the first lines of TURNLOG.jsonl, *)
(* each once, and a merge leaves a row for every whole line it has read -    *)
(* for any number of processes that merge, however they interleave.          *)
(***************************************************************************)
THEOREM RowsAreTheLog == Spec => LogMirrored
<1>1. Init => TfLogInv
  BY TfLogInitial DEF Init
<1>2. TfLogInv /\ [Next]_vars => TfLogInv'
  BY TfLogStep, PartSteps
<1>3. TfLogInv => Tf!RowsFollowLog
  BY RowsArePrefix
<1>4. TfLogInv /\ [Next]_vars =>
        [\A p \in Syncers : reading[p] # Idle /\ reading'[p] = Idle
           => Tf!ToSet(reading[p].lines) \subseteq Tf!ToSet(rows')]_(Tf!vars)
  BY MergeHasAll, PartSteps
<1> QED BY <1>1, <1>2, <1>3, <1>4, PTL DEF Spec, LogMirrored, Tf!LogMirrored, Tf!MergeIsComplete

\* The file and its copy have the turns of the writes there have been.
TfTurns == file \in 0 .. (MaxEdits + 1) /\ cache \in 0 .. (MaxEdits + 1) /\ (torn => file < MaxEdits)

LEMMA TfTurnsStep == TfInv /\ TfTurns /\ [Tf!Next]_fileVars => TfTurns'
<1> SUFFICES ASSUME TfInv, TfTurns, [Tf!Next]_fileVars PROVE TfTurns'
  OBVIOUS
<1>0. /\ MaxEdits \in Nat /\ file \in 0 .. (MaxEdits + 1) /\ cache \in 0 .. (MaxEdits + 1)
      /\ Tf!Turns \in 0 .. (MaxEdits + 1)
  BY PartsAssumption DEF Tf!BoundsAssumption, TfTurns, Tf!Turns
<1>1. CASE UNCHANGED fileVars \/ Tf!TurnLog
  <2>1. UNCHANGED <<file, cache, torn>>
    BY <1>1 DEF fileVars, Tf!TurnLog, Tf!AppendLine, Tf!EndLine, Tf!ReadLog, Tf!MergeLog, Tf!sessionVars
  <2> QED BY <2>1 DEF TfTurns
<1>2. CASE Tf!Truncate
  <2>1. file \in 1 .. (MaxEdits - 1) /\ UNCHANGED <<file, cache>>
    BY <1>2 DEF Tf!Truncate
  <2> QED BY <1>0, <2>1 DEF TfTurns
<1>3. CASE Tf!Write
  <2>1. (torn \/ file = 0) /\ file' = file + 1 /\ torn' = FALSE /\ cache' = cache
    BY <1>3 DEF Tf!Write
  <2>2. file' \in 0 .. (MaxEdits + 1)
    <3>1. file < MaxEdits \/ file = 0
      BY <2>1 DEF TfTurns
    <3>2. MaxEdits \in Nat /\ file \in 0 .. (MaxEdits + 1) /\ file' = file + 1
      BY <1>0, <2>1
    <3> QED BY ONLY <3>1, <3>2
  <2> QED BY <1>0, <2>1, <2>2 DEF TfTurns
<1>4. CASE Tf!Rename
  <2>1. file \in 1 .. (MaxEdits - 1) /\ file' = file + 1 /\ torn = FALSE /\ UNCHANGED <<torn, cache>>
    BY <1>4 DEF Tf!Rename, TfInv
  <2>2. file' \in 0 .. (MaxEdits + 1)
    BY <1>0, <2>1
  <2> QED BY <1>0, <2>1, <2>2 DEF TfTurns
<1>5. CASE Tf!StartSync \/ Tf!StartWatch \/ Tf!Debounced \/ Tf!Load
  <2>1. UNCHANGED <<file, torn>> /\ cache' \in {cache, Tf!Turns}
    BY <1>5 DEF Tf!StartSync, Tf!StartWatch, Tf!Debounced, Tf!Load, Tf!SyncSession
  <2>2. cache' \in 0 .. (MaxEdits + 1)
    <3>1. cache' \in {cache, Tf!Turns}
      BY <2>1
    <3>2. cache \in 0 .. (MaxEdits + 1) /\ Tf!Turns \in 0 .. (MaxEdits + 1)
      BY <1>0
    <3> QED BY ONLY <3>1, <3>2
  <2> QED BY <2>1, <2>2 DEF TfTurns
<1> QED BY <1>1, <1>2, <1>3, <1>4, <1>5 DEF Tf!Next, Tf!Session

LEMMA TfTypes == TfInv /\ TfTurns /\ TfLogInv => Tf!TypeOK
<1> SUFFICES ASSUME TfInv, TfTurns, TfLogInv PROVE Tf!TypeOK
  OBVIOUS
<1>1. MaxLines \in Nat
  BY PartsAssumption DEF Tf!BoundsAssumption
<1>2. \A n \in 0 .. MaxLines : \A k \in 0 .. n : First(k) \in Tf!BoundedSeq(1 .. MaxLines, MaxLines)
  BY <1>1, FirstGrows
<1>3. log \in Tf!BoundedSeq(1 .. MaxLines, MaxLines) /\ rows \in Tf!BoundedSeq(1 .. MaxLines, MaxLines)
  <2>1. PICK n \in 0 .. MaxLines, r \in Nat : r \in 0 .. n /\ rows = First(r) /\ log = First(n)
    BY <1>1 DEF TfLogInv
  <2>2. n \in 0 .. n
    BY <1>1
  <2> QED BY <1>2, <2>1, <2>2
<1>4. \A p \in Syncers : reading[p] = Idle \/ reading[p].lines \in Tf!BoundedSeq(1 .. MaxLines, MaxLines)
  BY <1>2 DEF TfLogInv
<1>5. {torn, timer, excused, partial} \subseteq BOOLEAN
  BY DEF TfInv, TfLogInv
<1> QED BY <1>3, <1>4, <1>5 DEF TfInv, TfTurns, Tf!TypeOK

LEMMA TfTurnsInitial == Tf!Init => TfTurns
BY PartsAssumption DEF Tf!BoundsAssumption, Tf!Init, TfTurns

------------------------------------------------------------------------------
(* The types of all parts *)

HostInv == MgInv /\ WpInv /\ LpInv /\ TfInv /\ TfTurns /\ TfLogInv /\ MsInv /\ SvInv /\ RecordsInv

(***************************************************************************)
(* The types of the ten parts, with the coherence each adds to them.         *)
(***************************************************************************)
THEOREM TypeCorrect == Spec => []TypeOK
<1>1. Init => HostInv
  BY MgInitial, WpInitial, LpInitial, TfInitial, TfTurnsInitial, TfLogInitial, MsInitial, SvInitial,
     RecordsInitial DEF Init, HostInv
<1>2. HostInv /\ [Next]_vars => HostInv'
  BY MgStep, WpStep, LpStep, TfStep, TfTurnsStep, TfLogStep, MsStep, SvStep, RecordsStep, PartSteps DEF HostInv
<1>3. HostInv => TypeOK
  BY TfTypes DEF HostInv, TypeOK, MgInv, WpInv, LpInv, MsInv, SvInv, RecordsInv, AsInv, StInv, ClInv, UsInv
<1> QED BY <1>1, <1>2, <1>3, PTL DEF Spec
==============================================================================
