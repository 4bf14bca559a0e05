------------------------------ MODULE HostProofs ------------------------------
(***************************************************************************)
(* Proofs about the parts of MCHost, each for every number of processes,    *)
(* files, crashes and steps.                                                *)
(***************************************************************************)
EXTENDS MCHost, TLAPS, FiniteSetTheorems, SequenceTheorems

\* A step of the whole is a step of each part, or leaves it alone.
LEMMA PartSteps ==
  [Next]_vars => /\ [Lp!Next]_loopVars /\ [Mg!Next]_dbVars /\ [Tf!Next]_fileVars
                 /\ [Sv!Next]_logVars /\ [Wp!Next]_wdVars /\ [As!Next]_stateVars
                 /\ [Ms!Next]_meetingVars /\ [St!Next]_statVars /\ [Cl!Next]_cycleVars
                 /\ [Us!Next]_usageVars
BY DEF Next, vars

------------------------------------------------------------------------------
(* The database *)

\* What a process has gone past is recorded, and what it has executed is there.
MgPassed ==
  \A p \in Processes :
    /\ pc[p] \in {"look", "exec", "record", "ready"} =>
         \A v \in Versions : v < at[p] => v \in versions
    /\ pc[p] \in {"exec", "record"} => at[p] \in Versions
    /\ pc[p] = "exec" => /\ step[p] \in 1 .. Statements
                         /\ \A i \in 1 .. Statements : i < step[p] => <<at[p], i>> \in objects
    /\ pc[p] = "record" => Mg!Whole(at[p])
    /\ pc[p] = "ready" => at[p] = Mg!Past

\* As long as none has died and no two have met, a version is being migrated by
\* one process, and all that is there of it is what this process executed.
MgApart ==
  crashes = 0 /\ ~ overlapped =>
    /\ \A p \in Processes : pc[p] # "failed"
    /\ \A p, q \in Processes, v \in Versions : Mg!Inside(p, v) /\ Mg!Inside(q, v) => p = q
    /\ \A p \in Processes, v \in Versions : Mg!Inside(p, v) => v \notin versions
    /\ \A v \in Versions, i \in 1 .. Statements : <<v, i>> \in objects =>
         \/ v \in versions
         \/ \E p \in Processes : Mg!Inside(p, v) /\ (pc[p] = "record" \/ i < step[p])

MgInv == /\ Mg!TypeOK /\ crashes \in Nat /\ overlapped \in BOOLEAN
         /\ MgPassed /\ MgApart

LEMMA MgSets ==
  ASSUME NEW S
  PROVE  Mg!Cardinality(S) = Cardinality(S) /\ (Mg!IsFiniteSet(S) <=> IsFiniteSet(S))
<1>1. Mg!IsFiniteSet(S) <=> IsFiniteSet(S)
  BY DEF Mg!IsFiniteSet, IsFiniteSet
<1>2. Mg!Cardinality(S) = Cardinality(S)
  BY DEF Mg!Cardinality, Cardinality
<1> QED BY <1>1, <1>2

LEMMA VersionNumbers ==
  /\ Cardinality(Versions) \in Nat /\ Versions = 1 .. Cardinality(Versions)
  /\ Mg!Past = Cardinality(Versions) + 1
  /\ Statements \in Nat /\ Statements # 0
<1>1. IsFiniteSet(Versions) /\ Versions = 1 .. Cardinality(Versions) /\ Statements \in Nat \ {0}
  BY PartsAssumption, MgSets DEF Mg!VersionsAssumption, Mg!StatementsAssumption
<1>2. Cardinality(Versions) \in Nat
  BY <1>1, FS_CardinalityType
<1> QED BY <1>1, <1>2, MgSets DEF Mg!Past

LEMMA MgInitial == Mg!Init => MgInv
<1> SUFFICES ASSUME Mg!Init PROVE MgInv
  OBVIOUS
<1> USE VersionNumbers DEF Mg!Init
<1>1. Mg!TypeOK
  <2>1. 1 \in 1 .. Mg!Past /\ 1 \in 1 .. (Statements + 1)
    BY VersionNumbers
  <2> QED BY <2>1 DEF Mg!TypeOK, Mg!Resting
<1>2. MgPassed
  BY DEF MgPassed
<1>3. MgApart
  BY DEF MgApart, Mg!Inside
<1> QED BY <1>1, <1>2, <1>3 DEF MgInv

\* What the parts of the invariant say of one process and one step of it.
LEMMA MgStep == MgInv /\ [Mg!Next]_dbVars => MgInv'
<1> SUFFICES ASSUME MgInv, [Mg!Next]_dbVars PROVE MgInv'
  OBVIOUS
<1>1. CASE UNCHANGED dbVars
  BY <1>1 DEF dbVars, MgInv, MgPassed, MgApart, Mg!TypeOK, Mg!Whole, Mg!Inside
<1>2. /\ pc \in [Processes -> Mg!Resting \cup {"look", "exec", "record"}]
      /\ at \in [Processes -> 1 .. Mg!Past] /\ step \in [Processes -> 1 .. (Statements + 1)]
      /\ objects \subseteq Versions \X (1 .. Statements) /\ versions \subseteq Versions
      /\ \A v \in versions : Mg!Whole(v)
      /\ crashes \in Nat /\ overlapped \in BOOLEAN
  BY DEF MgInv, Mg!TypeOK
<1>3. ASSUME NEW p \in Processes, Mg!Open(p) PROVE MgInv'
  <2>1. /\ pc[p] \notin {"exec", "record"} /\ pc' = [pc EXCEPT ![p] = "look"]
        /\ at' = [at EXCEPT ![p] = 1]
        /\ UNCHANGED <<step, objects, versions, crashes, overlapped>>
    BY <1>3 DEF Mg!Open, Mg!Resting
  <2>2. Mg!TypeOK'
    <3>1. 1 \in 1 .. Mg!Past
      BY VersionNumbers
    <3> QED BY <1>2, <2>1, <3>1 DEF Mg!TypeOK, Mg!Whole
  <2>3. MgPassed'
    <3>1. \A v \in Versions : ~ (v < 1)
      BY VersionNumbers
    <3> QED BY <1>2, <2>1, <3>1 DEF MgInv, MgPassed, Mg!Whole
  <2>4. MgApart'
    BY <1>2, <2>1 DEF MgInv, MgApart, Mg!Inside
  <2> QED BY <1>2, <2>1, <2>2, <2>3, <2>4 DEF MgInv
<1>4. ASSUME NEW p \in Processes, Mg!Look(p) PROVE MgInv'
  <2>1. pc[p] = "look" /\ UNCHANGED <<objects, versions, crashes>>
    BY <1>4 DEF Mg!Look
  <2>2. at[p] \in 1 .. Mg!Past /\ (at[p] # Mg!Past => at[p] \in Versions)
        /\ \A v \in Versions : v < at[p] => v \in versions
    BY <1>2, <2>1, VersionNumbers DEF MgInv, MgPassed
  <2>3. CASE at[p] = Mg!Past /\ pc' = [pc EXCEPT ![p] = "ready"] /\ UNCHANGED <<at, step, overlapped>>
    <3>1. Mg!TypeOK'
      BY <1>2, <2>1, <2>3 DEF Mg!TypeOK, Mg!Whole, Mg!Resting
    <3>2. MgPassed'
      BY <1>2, <2>1, <2>3 DEF MgInv, MgPassed, Mg!Whole
    <3>3. MgApart'
      BY <1>2, <2>1, <2>3 DEF MgInv, MgApart, Mg!Inside
    <3> QED BY <1>2, <2>1, <2>3, <3>1, <3>2, <3>3 DEF MgInv
  <2>4. CASE /\ at[p] # Mg!Past /\ Mg!hasVersion(at[p])
             /\ at' = [at EXCEPT ![p] = @ + 1] /\ UNCHANGED <<pc, step, overlapped>>
    <3>1. at[p] + 1 \in 1 .. Mg!Past /\ \A v \in Versions : v < at[p] + 1 => v < at[p] \/ v = at[p]
      BY <2>2, <2>4, VersionNumbers
    <3>2. Mg!TypeOK'
      BY <1>2, <2>1, <2>4, <3>1 DEF Mg!TypeOK, Mg!Whole
    <3>3. MgPassed'
      BY <1>2, <2>1, <2>2, <2>4, <3>1 DEF MgInv, MgPassed, Mg!Whole, Mg!hasVersion
    <3>4. MgApart'
      BY <1>2, <2>1, <2>4 DEF MgInv, MgApart, Mg!Inside
    <3> QED BY <1>2, <2>1, <2>4, <3>2, <3>3, <3>4 DEF MgInv
  <2>5. CASE /\ at[p] # Mg!Past /\ ~ Mg!hasVersion(at[p])
             /\ pc' = [pc EXCEPT ![p] = "exec"] /\ step' = [step EXCEPT ![p] = 1]
             /\ overlapped' = (overlapped \/ \E q \in Processes \ {p} : Mg!Inside(q, at[p]))
             /\ UNCHANGED at
    <3>1. 1 \in 1 .. Statements /\ 1 \in 1 .. (Statements + 1) /\ \A i \in 1 .. Statements : ~ (i < 1)
      BY VersionNumbers
    <3>2. Mg!TypeOK' /\ overlapped' \in BOOLEAN
      BY <1>2, <2>1, <2>5, <3>1 DEF Mg!TypeOK, Mg!Whole
    <3>3. MgPassed'
      BY <1>2, <2>1, <2>2, <2>5, <3>1 DEF MgInv, MgPassed, Mg!Whole
    <3>4. MgApart'
      <4> SUFFICES ASSUME crashes = 0, ~ overlapped, ~ \E q \in Processes \ {p} : Mg!Inside(q, at[p])
                   PROVE  MgApart'
        BY <2>1, <2>5 DEF MgApart
      <4>1. \A q \in Processes : \A v : q # p => (Mg!Inside(q, v)' <=> Mg!Inside(q, v)) /\ pc'[q] = pc[q]
                                            /\ step'[q] = step[q]
        BY <1>2, <2>5 DEF Mg!Inside
      <4>2. \A v : Mg!Inside(p, v)' <=> v = at[p]
        BY <1>2, <2>5 DEF Mg!Inside
      <4>3. ~ Mg!Inside(p, at[p]) /\ \A v : ~ Mg!Inside(p, v)
        BY <2>1 DEF Mg!Inside
      <4>4. at[p] \notin versions
        BY <2>5 DEF Mg!hasVersion
      <4>5. \A q \in Processes : pc'[q] # "failed"
        BY <1>2, <2>5 DEF MgInv, MgApart
      <4>6. \A q, r \in Processes, v \in Versions : Mg!Inside(q, v)' /\ Mg!Inside(r, v)' => q = r
        BY <4>1, <4>2 DEF MgInv, MgApart
      <4>7. \A q \in Processes, v \in Versions : Mg!Inside(q, v)' => v \notin versions'
        BY <2>1, <4>1, <4>2, <4>4 DEF MgInv, MgApart
      <4>8. \A v \in Versions, i \in 1 .. Statements : <<v, i>> \in objects' =>
               \/ v \in versions'
               \/ \E q \in Processes : Mg!Inside(q, v)' /\ (pc'[q] = "record" \/ i < step'[q])
        BY <2>1, <4>1, <4>3 DEF MgInv, MgApart
      <4> QED BY <4>5, <4>6, <4>7, <4>8 DEF MgApart
    <3> QED BY <1>2, <2>1, <2>5, <3>2, <3>3, <3>4 DEF MgInv
  <2> QED BY <1>4, <2>3, <2>4, <2>5 DEF Mg!Look
<1>5. ASSUME NEW p \in Processes, Mg!Exec(p) PROVE MgInv'
  <2>1. /\ pc[p] = "exec" /\ Mg!Inside(p, at[p]) /\ at[p] \in Versions /\ step[p] \in 1 .. Statements
        /\ \A i \in 1 .. Statements : i < step[p] => <<at[p], i>> \in objects
        /\ UNCHANGED <<at, versions, crashes, overlapped>>
    BY <1>5 DEF Mg!Exec, MgInv, MgPassed, Mg!Inside
  <2>2. CASE /\ <<at[p], step[p]>> \in objects
             /\ pc' = [pc EXCEPT ![p] = "failed"] /\ UNCHANGED <<step, objects>>
    <3>1. Mg!TypeOK'
      BY <1>2, <2>1, <2>2 DEF Mg!TypeOK, Mg!Whole, Mg!Resting
    <3>2. MgPassed'
      BY <1>2, <2>1, <2>2 DEF MgInv, MgPassed, Mg!Whole
    <3>3. ~ (crashes = 0 /\ ~ overlapped)
      <4> SUFFICES ASSUME crashes = 0, ~ overlapped PROVE FALSE
        OBVIOUS
      <4>1. at[p] \notin versions
        BY <2>1 DEF MgInv, MgApart
      <4>2. PICK q \in Processes : Mg!Inside(q, at[p]) /\ (pc[q] = "record" \/ step[p] < step[q])
        BY <2>1, <2>2, <4>1 DEF MgInv, MgApart
      <4>3. q = p
        BY <2>1, <4>2 DEF MgInv, MgApart
      <4> QED BY <2>1, <4>2, <4>3
    <3> QED BY <1>2, <2>1, <2>2, <3>1, <3>2, <3>3 DEF MgInv, MgApart
  <2>3. CASE /\ objects' = objects \cup {<<at[p], step[p]>>}
             /\ step' = [step EXCEPT ![p] = @ + 1]
             /\ pc' = [pc EXCEPT ![p] = IF step[p] = Statements THEN "record" ELSE "exec"]
    <3>1. /\ step[p] + 1 \in 1 .. (Statements + 1)
          /\ step[p] # Statements => step[p] + 1 \in 1 .. Statements
          /\ \A i \in 1 .. Statements : i < step[p] + 1 => i < step[p] \/ i = step[p]
          /\ step[p] = Statements => \A i \in 1 .. Statements : i < step[p] \/ i = step[p]
      BY <2>1, VersionNumbers
    <3>2. \A v : Mg!Whole(v) => Mg!Whole(v)'
      BY <2>3 DEF Mg!Whole
    <3>3. Mg!TypeOK'
      BY <1>2, <2>1, <2>3, <3>1, <3>2 DEF Mg!TypeOK
    <3>4. step[p] = Statements => Mg!Whole(at[p])'
      BY <2>1, <2>3, <3>1 DEF Mg!Whole
    <3>5. MgPassed'
      <4> SUFFICES ASSUME NEW q \in Processes
                   PROVE  /\ pc'[q] \in {"look", "exec", "record", "ready"} =>
                               \A v \in Versions : v < at'[q] => v \in versions'
                          /\ pc'[q] \in {"exec", "record"} => at'[q] \in Versions
                          /\ pc'[q] = "exec" =>
                               /\ step'[q] \in 1 .. Statements
                               /\ \A i \in 1 .. Statements : i < step'[q] => <<at'[q], i>> \in objects'
                          /\ pc'[q] = "record" => Mg!Whole(at[q])'
                          /\ pc'[q] = "ready" => at'[q] = Mg!Past
        BY <2>1 DEF MgPassed, Mg!Whole
      <4>1. CASE q = p
        BY <1>2, <2>1, <2>3, <3>1, <3>4, <4>1 DEF MgInv, MgPassed
      <4>2. CASE q # p
        BY <1>2, <2>1, <2>3, <3>2, <4>2 DEF MgInv, MgPassed
      <4> QED BY <4>1, <4>2
    <3>6. MgApart'
      <4> SUFFICES ASSUME crashes = 0, ~ overlapped PROVE MgApart'
        BY <2>1 DEF MgApart
      <4>1. \A q \in Processes : \A v : Mg!Inside(q, v)' <=> Mg!Inside(q, v)
        BY <1>2, <2>1, <2>3 DEF Mg!Inside
      <4>2. \A q \in Processes : pc'[q] # "failed"
        BY <1>2, <2>3 DEF MgInv, MgApart
      <4>3. pc'[p] = "record" \/ \A i \in 1 .. Statements : i <= step[p] => i < step'[p]
        BY <1>2, <2>1, <2>3, VersionNumbers
      <4>4. \A v \in Versions, i \in 1 .. Statements : <<v, i>> \in objects' =>
               \/ v \in versions'
               \/ \E q \in Processes : Mg!Inside(q, v)' /\ (pc'[q] = "record" \/ i < step'[q])
        <5> SUFFICES ASSUME NEW v \in Versions, NEW i \in 1 .. Statements, <<v, i>> \in objects',
                            v \notin versions
                     PROVE  \E q \in Processes : Mg!Inside(q, v)' /\ (pc'[q] = "record" \/ i < step'[q])
          BY <2>1
        <5>1. CASE v = at[p] /\ i = step[p]
          <6>1. i <= step[p]
            BY <5>1, <2>1
          <6> QED BY <2>1, <4>1, <4>3, <5>1, <6>1
        <5>2. CASE <<v, i>> \in objects
          <6>1. PICK q \in Processes : Mg!Inside(q, v) /\ (pc[q] = "record" \/ i < step[q])
            BY <5>2 DEF MgInv, MgApart
          <6>2. CASE q # p
            BY <1>2, <2>3, <4>1, <6>1, <6>2
          <6>3. CASE q = p
            <7>1. i < step[p] /\ step[p] \in Nat
              BY <2>1, <6>1, <6>3, VersionNumbers
            <7>2. i <= step[p]
              BY <7>1
            <7> QED BY <4>1, <4>3, <6>1, <6>3, <7>2
          <6> QED BY <6>2, <6>3
        <5> QED BY <2>3, <5>1, <5>2
      <4> QED BY <2>1, <4>1, <4>2, <4>4 DEF MgInv, MgApart
    <3> QED BY <1>2, <2>1, <2>3, <3>3, <3>5, <3>6 DEF MgInv
  <2> QED BY <1>5, <2>2, <2>3 DEF Mg!Exec, Mg!AfterClash
<1>6. ASSUME NEW p \in Processes, Mg!Record(p) PROVE MgInv'
  <2>1. /\ pc[p] = "record" /\ Mg!Inside(p, at[p]) /\ at[p] \in Versions /\ Mg!Whole(at[p])
        /\ \A v \in Versions : v < at[p] => v \in versions
        /\ UNCHANGED <<step, objects, crashes, overlapped>>
    BY <1>6 DEF Mg!Record, MgInv, MgPassed, Mg!Inside
  <2>2. CASE at[p] \in versions /\ pc' = [pc EXCEPT ![p] = "failed"] /\ UNCHANGED <<at, versions>>
    <3>1. Mg!TypeOK'
      BY <1>2, <2>1, <2>2 DEF Mg!TypeOK, Mg!Whole, Mg!Resting
    <3>2. MgPassed'
      BY <1>2, <2>1, <2>2 DEF MgInv, MgPassed, Mg!Whole
    <3>3. ~ (crashes = 0 /\ ~ overlapped)
      BY <2>1, <2>2 DEF MgInv, MgApart
    <3> QED BY <1>2, <2>1, <2>2, <3>1, <3>2, <3>3 DEF MgInv, MgApart
  <2>3. CASE /\ versions' = versions \cup {at[p]} /\ at' = [at EXCEPT ![p] = @ + 1]
             /\ pc' = [pc EXCEPT ![p] = "look"]
    <3>1. at[p] + 1 \in 1 .. Mg!Past /\ \A v \in Versions : v < at[p] + 1 => v < at[p] \/ v = at[p]
      BY <2>1, VersionNumbers
    <3>2. Mg!TypeOK'
      BY <1>2, <2>1, <2>3, <3>1 DEF Mg!TypeOK, Mg!Whole
    <3>3. MgPassed'
      BY <1>2, <2>1, <2>3, <3>1 DEF MgInv, MgPassed, Mg!Whole
    <3>4. MgApart'
      <4> SUFFICES ASSUME crashes = 0, ~ overlapped PROVE MgApart'
        BY <2>1 DEF MgApart
      <4>1. \A q \in Processes : \A v : Mg!Inside(q, v)' <=> Mg!Inside(q, v) /\ q # p
        BY <1>2, <2>1, <2>3 DEF Mg!Inside
      <4>2. \A q \in Processes : pc'[q] # "failed" /\ (q # p => pc'[q] = pc[q])
        BY <1>2, <2>3 DEF MgInv, MgApart
      <4>3. \A q \in Processes, v \in Versions : Mg!Inside(q, v)' => v \notin versions'
        BY <2>1, <2>3, <4>1 DEF MgInv, MgApart
      <4>4. \A v \in Versions, i \in 1 .. Statements : <<v, i>> \in objects' =>
               \/ v \in versions'
               \/ \E q \in Processes : Mg!Inside(q, v)' /\ (pc'[q] = "record" \/ i < step'[q])
        <5>1. \A v \in Versions : Mg!Inside(p, v) => v \in versions'
          BY <2>3 DEF Mg!Inside
        <5> QED BY <2>1, <2>3, <4>1, <4>2, <5>1 DEF MgInv, MgApart
      <4> QED BY <4>1, <4>2, <4>3, <4>4 DEF MgInv, MgApart
    <3> QED BY <1>2, <2>1, <2>3, <3>2, <3>3, <3>4 DEF MgInv
  <2> QED BY <1>6, <2>2, <2>3 DEF Mg!Record
<1>7. ASSUME NEW p \in Processes, Mg!Crash(p) PROVE MgInv'
  <2>1. /\ pc' = [pc EXCEPT ![p] = "closed"] /\ crashes' = crashes + 1
        /\ UNCHANGED <<at, step, objects, versions, overlapped>>
    BY <1>7 DEF Mg!Crash
  <2>2. Mg!TypeOK'
    BY <1>2, <2>1 DEF Mg!TypeOK, Mg!Whole, Mg!Resting
  <2>3. MgPassed'
    BY <1>2, <2>1 DEF MgInv, MgPassed, Mg!Whole
  <2>4. crashes' \in Nat /\ crashes' # 0
    BY <1>2, <2>1
  <2>5. MgApart'
    BY <2>4 DEF MgApart
  <2> QED BY <1>2, <2>1, <2>2, <2>3, <2>4, <2>5 DEF MgInv
<1> QED BY <1>1, <1>3, <1>4, <1>5, <1>6, <1>7 DEF Mg!Next

(***************************************************************************)
(* Whoever opened the database has all its tables, whoever else migrated it *)
(* at the time and whoever died meanwhile, and an open fails only if one    *)
(* did, or two met at a version.                                            *)
(***************************************************************************)
THEOREM OpenIsWhole == Spec => []OpensWhole
<1>1. Init => MgInv
  BY MgInitial DEF Init
<1>2. MgInv /\ [Next]_vars => MgInv'
  BY MgStep, PartSteps
<1>3. MgInv => OpensWhole
  <2> SUFFICES ASSUME MgInv PROVE OpensWhole
    OBVIOUS
  <2>1. Mg!ReadyIsMigrated
    <3>1. \A p \in Processes : pc[p] = "ready" => \A v \in Versions : v \in versions
      BY VersionNumbers DEF MgInv, MgPassed
    <3> QED BY <3>1 DEF Mg!ReadyIsMigrated, MgInv, Mg!TypeOK
  <2>2. Mg!FailsOnlyInterrupted
    <3>1. \A p \in Processes : pc[p] = "failed" => crashes # 0 \/ overlapped
      BY DEF MgInv, MgApart
    <3> QED BY <3>1 DEF Mg!FailsOnlyInterrupted, MgInv
  <2> QED BY <2>1, <2>2 DEF OpensWhole, Mg!OpensWhole
<1> QED BY <1>1, <1>2, <1>3, PTL DEF Spec

------------------------------------------------------------------------------
(* The watchdog's process *)

\* As long as every start knew of the daemon that lived, there is one at most,
\* and the socket and the pidfile are its own.
WpInv ==
  /\ Wp!TypeOK
  /\ ~ unseen => /\ \A d, e \in Wp!Live : d = e
                 /\ Wp!Reachable

LEMMA WpStep == WpInv /\ [Wp!Next]_wdVars => WpInv'
<1> SUFFICES ASSUME WpInv, [Wp!Next]_wdVars PROVE WpInv'
  OBVIOUS
<1> USE DEF WpInv, Wp!TypeOK, Wp!Live, Wp!Reachable
<1>1. CASE UNCHANGED wdVars
  BY <1>1 DEF wdVars
<1>2. MaxSignals \in Nat /\ None \notin Daemons
  BY PartsAssumption DEF Wp!SignalsAssumption, Wp!DaemonsAssumption
<1>3. ASSUME NEW s \in Starters, Wp!Start(s) PROVE WpInv'
  <2>1. CASE Wp!AlreadyRunning
    BY <1>3, <2>1 DEF Wp!Start
  <2>2. CASE ~ Wp!AlreadyRunning
    <3>1. PICK d \in Daemons : /\ daemon[d] = "new" /\ daemon' = [daemon EXCEPT ![d] = "spawned"]
                               /\ unseen' = (unseen \/ Wp!Live \ {daemonFile} # {})
                               /\ starter' = [starter EXCEPT ![s] = "waiting"]
                               /\ UNCHANGED <<socket, daemonFile, reused, signals>>
      BY <1>3, <2>2 DEF Wp!Start
    <3>2. ~ unseen' => Wp!Live = {}
      BY ZenonT(60), <1>2, <2>2, <3>1 DEF Wp!AlreadyRunning, Wp!isProcessAlive
    <3> QED BY <3>1, <3>2
  <2> QED BY <2>1, <2>2
<1>4. ASSUME NEW s \in Starters, Wp!Found(s) \/ Wp!NotFound(s) PROVE WpInv'
  BY <1>4 DEF Wp!Found, Wp!NotFound
<1>5. ASSUME NEW d \in Daemons, Wp!Boot(d) PROVE WpInv'
  BY <1>5 DEF Wp!Boot, Wp!Moved
<1>6. ASSUME NEW d \in Daemons, Wp!Listen(d) PROVE WpInv'
  BY <1>6 DEF Wp!Listen, Wp!Moved
<1>7. ASSUME NEW d \in Daemons, Wp!Exit(d) \/ Wp!Recycle(d) PROVE WpInv'
  BY <1>7 DEF Wp!Exit, Wp!Recycle, Wp!Moved
<1>8. ASSUME Wp!Signalled PROVE signals' \in 0 .. MaxSignals
  BY <1>2, <1>8 DEF Wp!Signalled
<1>9. ASSUME NEW d \in Daemons, Wp!Terminate(d) PROVE WpInv'
  BY <1>8, <1>9 DEF Wp!Terminate, Wp!Shutdown, Wp!Moved
<1>10. ASSUME NEW d \in Daemons, Wp!Kill(d) PROVE WpInv'
  BY <1>8, <1>10 DEF Wp!Kill, Wp!Moved
<1>11. ASSUME Wp!Stop PROVE WpInv'
  BY <1>2, <1>11 DEF Wp!Stop, Wp!Shutdown, Wp!Moved
<1> QED BY <1>1, <1>3, <1>4, <1>5, <1>6, <1>7, <1>9, <1>10, <1>11 DEF Wp!Next

LEMMA WpInitial == Wp!Init => WpInv
<1>1. 0 \in 0 .. MaxSignals
  BY PartsAssumption DEF Wp!SignalsAssumption
<1> QED BY <1>1 DEF Wp!Init, WpInv, Wp!TypeOK, Wp!Live, Wp!Reachable

(***************************************************************************)
(* A watchdog that serves has the socket and the pidfile the scripts go by, *)
(* although a daemon that boots or stops takes both without asking whose    *)
(* they are, except after a start that could not know of one booting or     *)
(* closing: no other start spawns a second one.                             *)
(***************************************************************************)
THEOREM ServingIsReachable == Spec => []Reachable
<1>1. Init => WpInv
  BY WpInitial DEF Init
<1>2. WpInv /\ [Next]_vars => WpInv'
  BY WpStep, PartSteps
<1>3. WpInv => Reachable
  BY DEF WpInv, Reachable, Wp!Reachable, Wp!TypeOK
<1> QED BY <1>1, <1>2, <1>3, PTL DEF Spec

------------------------------------------------------------------------------
(* The loop *)

Inside == {"checking", "clearing", "writing", "running"}

\* Who is past the lock holds that of the file it opened; else its descriptor is
\* held by the children of a loop that was killed.
LpLocks ==
  /\ \A l \in Loops : /\ loop[l] \in {"unborn", "opening", "refused"} => opened[l] = None
                      /\ loop[l] = "locking" => opened[l] # None
                      /\ loop[l] \in Inside => opened[l] # None /\ held[opened[l]] = l
  /\ \A f \in Loops : held[f] # None => loop[held[f]] \in Inside \/ held[f] \in orphans
  /\ \A l \in orphans : loop[l] = "dead"

\* A file is there only after the loop it is named by has opened it.
LpNamed ==
  /\ \A f \in Loops : held[f] # None => loop[f] \notin {"unborn", "opening"}
  /\ \A l \in Loops : opened[l] # None => loop[opened[l]] \notin {"unborn", "opening"}
  /\ lockFile # None => loop[lockFile] \notin {"unborn", "opening"}
  /\ pidFile # None => loop[pidFile] \in {"running", "dead"}

\* What was held by the children of killed loops when a script removed the files
\* is neither the file that has the name now nor that of the loop it started.
LpBuried ==
  \A s \in Scripts :
    /\ script[s] # "done" => starts[s] = None
    /\ script[s] \in {"idle", "asking", "removing"} => buried[s] = {}
    /\ \A h \in buried[s] : loop[h] = "dead"
    /\ starts[s] # None => loop[starts[s]] # "unborn"
    /\ \A f \in Loops : held[f] \in buried[s] =>
         f # lockFile /\ (starts[s] # None => opened[starts[s]] # f)

\* Until a script removes the files of a living loop, all that live have the same.
LpSameFile ==
  ~ removed => \A l \in Loops : loop[l] \in Lp!Booting \cup {"running"} => opened[l] = lockFile

LpInv == Lp!TypeOK /\ LpLocks /\ LpNamed /\ LpBuried /\ LpSameFile

LEMMA LpStep == LpInv /\ [Lp!Next]_loopVars => LpInv'
<1> SUFFICES ASSUME LpInv, [Lp!Next]_loopVars PROVE LpInv'
  OBVIOUS
<1>0. None \notin Loops
  BY PartsAssumption DEF Lp!LoopsAssumption
<1> USE <1>0 DEF LpInv, Inside, Lp!Booting, Lp!Living
<1>1. CASE UNCHANGED loopVars
  BY <1>1 DEF loopVars, Lp!TypeOK, LpLocks, LpNamed, LpBuried, LpSameFile
<1>2. ASSUME NEW l \in Loops, Lp!Launch(l) PROVE LpInv'
  <2>1. Lp!TypeOK'
    BY <1>2 DEF Lp!Launch, Lp!TypeOK, LpLocks
  <2>2. LpLocks'
    BY <1>2 DEF Lp!Launch, Lp!TypeOK, LpLocks, LpNamed
  <2>3. LpNamed'
    BY <1>2 DEF Lp!Launch, Lp!TypeOK, LpLocks, LpNamed
  <2>4. LpBuried'
    BY <1>2 DEF Lp!Launch, Lp!TypeOK, LpLocks, LpNamed, LpBuried
  <2>5. LpSameFile'
    BY <1>2 DEF Lp!Launch, Lp!TypeOK, LpLocks, LpNamed, LpSameFile
  <2> QED BY <2>1, <2>2, <2>3, <2>4, <2>5
<1>3. ASSUME NEW l \in Loops, Lp!Open(l) PROVE LpInv'
  <2>1. Lp!TypeOK'
    BY <1>3 DEF Lp!Open, Lp!TypeOK, LpLocks
  <2>2. LpLocks'
    BY <1>3 DEF Lp!Open, Lp!TypeOK, LpLocks, LpNamed
  <2>3. LpNamed'
    BY <1>3 DEF Lp!Open, Lp!TypeOK, LpLocks, LpNamed
  <2>4. LpBuried'
    BY <1>3 DEF Lp!Open, Lp!TypeOK, LpLocks, LpNamed, LpBuried
  <2>5. LpSameFile'
    BY <1>3 DEF Lp!Open, Lp!TypeOK, LpLocks, LpNamed, LpSameFile
  <2> QED BY <2>1, <2>2, <2>3, <2>4, <2>5
<1>4. ASSUME NEW l \in Loops, Lp!Lock(l) PROVE LpInv'
  <2>1. Lp!TypeOK'
    BY <1>4 DEF Lp!Lock, Lp!MayLock, Lp!TypeOK, LpLocks
  <2>2. LpLocks'
    BY <1>4 DEF Lp!Lock, Lp!MayLock, Lp!TypeOK, LpLocks, LpNamed
  <2>3. LpNamed'
    BY <1>4 DEF Lp!Lock, Lp!MayLock, Lp!TypeOK, LpLocks, LpNamed
  <2>4. LpBuried'
    BY <1>4 DEF Lp!Lock, Lp!MayLock, Lp!TypeOK, LpLocks, LpNamed, LpBuried
  <2>5. LpSameFile'
    BY <1>4 DEF Lp!Lock, Lp!MayLock, Lp!TypeOK, LpLocks, LpNamed, LpSameFile
  <2> QED BY <2>1, <2>2, <2>3, <2>4, <2>5
<1>5. ASSUME NEW l \in Loops, Lp!CheckPid(l) PROVE LpInv'
  <2>1. Lp!TypeOK'
    BY <1>5 DEF Lp!CheckPid, Lp!Released, Lp!TypeOK, LpLocks
  <2>2. LpLocks'
    BY <1>5 DEF Lp!CheckPid, Lp!Released, Lp!TypeOK, LpLocks, LpNamed
  <2>3. LpNamed'
    BY <1>5 DEF Lp!CheckPid, Lp!Released, Lp!TypeOK, LpLocks, LpNamed
  <2>4. LpBuried'
    BY <1>5 DEF Lp!CheckPid, Lp!Released, Lp!TypeOK, LpLocks, LpNamed, LpBuried
  <2>5. LpSameFile'
    BY <1>5 DEF Lp!CheckPid, Lp!Released, Lp!TypeOK, LpLocks, LpNamed, LpSameFile
  <2> QED BY <2>1, <2>2, <2>3, <2>4, <2>5
<1>6. ASSUME NEW l \in Loops, Lp!ClearPid(l) PROVE LpInv'
  <2>1. Lp!TypeOK'
    BY <1>6 DEF Lp!ClearPid, Lp!TypeOK, LpLocks
  <2>2. LpLocks'
    BY <1>6 DEF Lp!ClearPid, Lp!TypeOK, LpLocks, LpNamed
  <2>3. LpNamed'
    BY <1>6 DEF Lp!ClearPid, Lp!TypeOK, LpLocks, LpNamed
  <2>4. LpBuried'
    BY <1>6 DEF Lp!ClearPid, Lp!TypeOK, LpLocks, LpNamed, LpBuried
  <2>5. LpSameFile'
    BY <1>6 DEF Lp!ClearPid, Lp!TypeOK, LpLocks, LpNamed, LpSameFile
  <2> QED BY <2>1, <2>2, <2>3, <2>4, <2>5
<1>7. ASSUME NEW l \in Loops, Lp!WritePid(l) PROVE LpInv'
  <2>1. Lp!TypeOK'
    BY <1>7 DEF Lp!WritePid, Lp!TypeOK, LpLocks
  <2>2. LpLocks'
    BY <1>7 DEF Lp!WritePid, Lp!TypeOK, LpLocks, LpNamed
  <2>3. LpNamed'
    BY <1>7 DEF Lp!WritePid, Lp!TypeOK, LpLocks, LpNamed
  <2>4. LpBuried'
    BY <1>7 DEF Lp!WritePid, Lp!TypeOK, LpLocks, LpNamed, LpBuried
  <2>5. LpSameFile'
    BY <1>7 DEF Lp!WritePid, Lp!TypeOK, LpLocks, LpNamed, LpSameFile
  <2> QED BY <2>1, <2>2, <2>3, <2>4, <2>5
<1>8. ASSUME NEW l \in Loops, Lp!Kill(l) PROVE LpInv'
  <2>1. Lp!TypeOK'
    BY <1>8 DEF Lp!Kill, Lp!Released, Lp!TypeOK, LpLocks
  <2>2. LpLocks'
    BY <1>8 DEF Lp!Kill, Lp!Released, Lp!TypeOK, LpLocks, LpNamed
  <2>3. LpNamed'
    BY <1>8 DEF Lp!Kill, Lp!Released, Lp!TypeOK, LpLocks, LpNamed
  <2>4. LpBuried'
    BY <1>8 DEF Lp!Kill, Lp!Released, Lp!TypeOK, LpLocks, LpNamed, LpBuried
  <2>5. LpSameFile'
    BY <1>8 DEF Lp!Kill, Lp!Released, Lp!TypeOK, LpLocks, LpNamed, LpSameFile
  <2> QED BY <2>1, <2>2, <2>3, <2>4, <2>5
<1>9. ASSUME NEW l \in Loops, Lp!OrphanEnds(l) PROVE LpInv'
  <2>1. Lp!TypeOK'
    BY <1>9 DEF Lp!OrphanEnds, Lp!Released, Lp!TypeOK, LpLocks
  <2>2. LpLocks'
    BY <1>9 DEF Lp!OrphanEnds, Lp!Released, Lp!TypeOK, LpLocks, LpNamed
  <2>3. LpNamed'
    BY <1>9 DEF Lp!OrphanEnds, Lp!Released, Lp!TypeOK, LpLocks, LpNamed
  <2>4. LpBuried'
    BY <1>9 DEF Lp!OrphanEnds, Lp!Released, Lp!TypeOK, LpLocks, LpNamed, LpBuried
  <2>5. LpSameFile'
    BY <1>9 DEF Lp!OrphanEnds, Lp!Released, Lp!TypeOK, LpLocks, LpNamed, LpSameFile
  <2> QED BY <2>1, <2>2, <2>3, <2>4, <2>5
<1>10. ASSUME NEW l \in Loops, Lp!Recycle(l) PROVE LpInv'
  <2>1. Lp!TypeOK'
    BY <1>10 DEF Lp!Recycle, Lp!TypeOK, LpLocks
  <2>2. LpLocks'
    BY <1>10 DEF Lp!Recycle, Lp!TypeOK, LpLocks, LpNamed
  <2>3. LpNamed'
    BY <1>10 DEF Lp!Recycle, Lp!TypeOK, LpLocks, LpNamed
  <2>4. LpBuried'
    BY <1>10 DEF Lp!Recycle, Lp!TypeOK, LpLocks, LpNamed, LpBuried
  <2>5. LpSameFile'
    BY <1>10 DEF Lp!Recycle, Lp!TypeOK, LpLocks, LpNamed, LpSameFile
  <2> QED BY <2>1, <2>2, <2>3, <2>4, <2>5
<1>11. ASSUME NEW s \in Scripts, Lp!Ensure(s) PROVE LpInv'
  <2>1. Lp!TypeOK'
    BY <1>11 DEF Lp!Ensure, Lp!TypeOK, LpLocks
  <2>2. LpLocks'
    BY <1>11 DEF Lp!Ensure, Lp!TypeOK, LpLocks, LpNamed
  <2>3. LpNamed'
    BY <1>11 DEF Lp!Ensure, Lp!TypeOK, LpLocks, LpNamed
  <2>4. LpBuried'
    BY <1>11 DEF Lp!Ensure, Lp!TypeOK, LpLocks, LpNamed, LpBuried
  <2>5. LpSameFile'
    BY <1>11 DEF Lp!Ensure, Lp!TypeOK, LpLocks, LpNamed, LpSameFile
  <2> QED BY <2>1, <2>2, <2>3, <2>4, <2>5
<1>12. ASSUME NEW s \in Scripts, Lp!Ask(s) PROVE LpInv'
  <2>1. Lp!TypeOK'
    BY <1>12 DEF Lp!Ask, Lp!TypeOK, LpLocks
  <2>2. LpLocks'
    BY <1>12 DEF Lp!Ask, Lp!TypeOK, LpLocks, LpNamed
  <2>3. LpNamed'
    BY <1>12 DEF Lp!Ask, Lp!TypeOK, LpLocks, LpNamed
  <2>4. LpBuried'
    BY <1>12 DEF Lp!Ask, Lp!TypeOK, LpLocks, LpNamed, LpBuried
  <2>5. LpSameFile'
    BY <1>12 DEF Lp!Ask, Lp!TypeOK, LpLocks, LpNamed, LpSameFile
  <2> QED BY <2>1, <2>2, <2>3, <2>4, <2>5
<1>13. ASSUME NEW s \in Scripts, Lp!Remove(s) PROVE LpInv'
  <2>1. Lp!TypeOK'
    BY <1>13 DEF Lp!Remove, Lp!RemovedLock, Lp!TypeOK, LpLocks
  <2>2. LpLocks'
    BY <1>13 DEF Lp!Remove, Lp!RemovedLock, Lp!TypeOK, LpLocks, LpNamed
  <2>3. LpNamed'
    BY <1>13 DEF Lp!Remove, Lp!RemovedLock, Lp!TypeOK, LpLocks, LpNamed
  <2>4. LpBuried'
    BY <1>13 DEF Lp!Remove, Lp!RemovedLock, Lp!TypeOK, LpLocks, LpNamed, LpBuried
  <2>5. LpSameFile'
    BY <1>13 DEF Lp!Remove, Lp!RemovedLock, Lp!TypeOK, LpLocks, LpNamed, LpSameFile
  <2> QED BY <2>1, <2>2, <2>3, <2>4, <2>5
<1>14. ASSUME NEW s \in Scripts, NEW l \in Loops, Lp!Start(s, l) PROVE LpInv'
  <2>1. Lp!TypeOK'
    BY <1>14 DEF Lp!Start, Lp!Unborn, Lp!TypeOK, LpLocks
  <2>2. LpLocks'
    BY <1>14 DEF Lp!Start, Lp!Unborn, Lp!TypeOK, LpLocks, LpNamed
  <2>3. LpNamed'
    BY <1>14 DEF Lp!Start, Lp!Unborn, Lp!TypeOK, LpLocks, LpNamed
  <2>4. LpBuried'
    BY <1>14 DEF Lp!Start, Lp!Unborn, Lp!TypeOK, LpLocks, LpNamed, LpBuried
  <2>5. LpSameFile'
    BY <1>14 DEF Lp!Start, Lp!Unborn, Lp!TypeOK, LpLocks, LpNamed, LpSameFile
  <2> QED BY <2>1, <2>2, <2>3, <2>4, <2>5
<1> QED BY <1>1, <1>2, <1>3, <1>4, <1>5, <1>6, <1>7, <1>8, <1>9, <1>10, <1>11, <1>12, <1>13, <1>14 DEF Lp!Next, Lp!LoopStep, Lp!ScriptStep

\* Until the files of a living loop are removed, no two loops are past the lock.
LEMMA LpOne ==
  ASSUME LpInv
  PROVE  Lp!OneLoopUnlessRemoved
<1>1. removed \in BOOLEAN /\ loop \in [Loops -> {"unborn", "refused", "dead"} \cup Lp!Living]
  BY DEF LpInv, Lp!TypeOK
<1>2. ASSUME ~ removed, NEW k \in Loops, NEW l \in Loops, loop[k] = "running", loop[l] = "running"
      PROVE  k = l
  BY <1>2 DEF LpInv, LpLocks, LpSameFile, Inside
<1>3. CASE ~ removed
  <2>1. Lp!Running = {} \/ \E l \in Loops : Lp!Running = {l}
    BY <1>2, <1>3 DEF Lp!Running
  <2>2. Cardinality(Lp!Running) \in {0, 1}
    <3>1. Cardinality({}) = 0 /\ \A l \in Loops : Cardinality({l}) = 1
      BY FS_EmptySet, FS_Singleton
    <3> QED BY <2>1, <3>1
  <2>3. Lp!Cardinality(Lp!Running) = Cardinality(Lp!Running)
    BY DEF Lp!Cardinality, Cardinality
  <2> QED BY <2>2, <2>3 DEF Lp!OneLoopUnlessRemoved, Lp!OneLoop
<1> QED BY <1>1, <1>3 DEF Lp!OneLoopUnlessRemoved

\* What refuses a loop that a script started.
LEMMA LpRefused ==
  ASSUME LpInv, [Lp!Next]_loopVars, NEW s \in Scripts, NEW l \in Loops,
         starts[s] = l, loop[l] # "refused", loop'[l] = "refused"
  PROVE  \/ \E k \in Loops \ {l} : loop[k] \in Lp!Living
         \/ pidFile \in recycled
         \/ held[opened[l]] \in orphans \ buried[s]
<1>0. None \notin Loops
  BY PartsAssumption DEF Lp!LoopsAssumption
<1>1. Lp!Lock(l) \/ Lp!CheckPid(l)
  BY ZenonT(60) DEF LpInv, Lp!TypeOK, Lp!Next, Lp!LoopStep, Lp!ScriptStep, loopVars, Lp!Launch, Lp!Open,
         Lp!Lock, Lp!CheckPid, Lp!ClearPid, Lp!WritePid, Lp!Kill, Lp!OrphanEnds, Lp!Recycle,
         Lp!Ensure, Lp!Ask, Lp!Remove, Lp!Start
<1>2. CASE Lp!Lock(l)
  <2>1. loop[l] = "locking" /\ opened[l] \in Loops /\ held[opened[l]] \in Loops
    BY <1>0, <1>2 DEF Lp!Lock, Lp!MayLock, LpInv, LpLocks, Lp!TypeOK
  <2>2. CASE loop[held[opened[l]]] \in Inside
    BY <2>1, <2>2 DEF Inside, Lp!Living, Lp!Booting
  <2>3. CASE held[opened[l]] \in orphans
    <3>1. held[opened[l]] \notin buried[s]
      BY <1>0, <2>1 DEF LpInv, LpBuried
    <3> QED BY <2>3, <3>1
  <2> QED BY <1>0, <2>1, <2>2, <2>3 DEF LpInv, LpLocks
<1>3. CASE Lp!CheckPid(l)
  <2>1. loop[l] = "checking" /\ pidFile \in Loops /\ (loop[pidFile] \in Lp!Living \/ pidFile \in recycled)
    BY <1>3 DEF Lp!CheckPid, Lp!PidAlive, LpInv, Lp!TypeOK
  <2>2. pidFile # l
    BY <1>0, <2>1 DEF LpInv, LpNamed
  <2> QED BY <2>1, <2>2
<1> QED BY <1>1, <1>2, <1>3

LEMMA LpInitial == Lp!Init => LpInv
<1> SUFFICES ASSUME Lp!Init PROVE LpInv
  OBVIOUS
<1> USE DEF Lp!Init
<1>1. None \notin Loops
  BY PartsAssumption DEF Lp!LoopsAssumption
<1>2. Lp!TypeOK
  BY <1>1 DEF Lp!TypeOK, Lp!Living, Lp!Booting
<1>3. LpLocks /\ LpNamed
  BY <1>1 DEF LpLocks, LpNamed, Inside
<1>4. LpBuried /\ LpSameFile
  BY <1>1 DEF LpBuried, LpSameFile, Lp!Booting
<1> QED BY <1>2, <1>3, <1>4 DEF LpInv

(***************************************************************************)
(* One loop runs, whatever is killed and whoever starts, until a script     *)
(* removes the files of a living one; and a loop a script started is not    *)
(* refused for a lock that the children of an earlier loop held when the    *)
(* script removed the files: the file it opens has another identity.        *)
(***************************************************************************)
THEOREM OneLoopUntilRemoved == Spec => LoopIsSingle
<1>1. Init => LpInv
  BY LpInitial DEF Init
<1>2. LpInv /\ [Next]_vars => LpInv'
  BY LpStep, PartSteps
<1>3. LpInv => Lp!OneLoopUnlessRemoved
  BY LpOne
<1>4. LpInv /\ [Next]_vars =>
        [\A s \in Scripts, l \in Loops :
           (starts[s] = l /\ loop[l] # "refused" /\ loop'[l] = "refused")
             => \/ \E k \in Loops \ {l} : loop[k] \in Lp!Living
                \/ pidFile \in recycled
                \/ held[opened[l]] \in orphans \ buried[s]]_Lp!vars
  BY LpRefused, PartSteps
<1> QED BY <1>1, <1>2, <1>3, <1>4, PTL DEF Spec, LoopIsSingle, Lp!RefusedByTheLiving

------------------------------------------------------------------------------
(* The copies of the agent's files *)

\* The copy of SESSION.md is what the file gives, unless a sync is due.
TfInv ==
  /\ file \in Nat /\ torn \in BOOLEAN /\ timer \in BOOLEAN /\ excused \in BOOLEAN
  /\ watch \in {"off", "synced", "on", "lost"}
  /\ watch = "lost" => excused
  /\ watch \in {"synced", "on"} /\ ~ excused /\ ~ timer => cache = Tf!Turns

LEMMA TfStep == TfInv /\ [Tf!Next]_fileVars => TfInv'
<1> SUFFICES ASSUME TfInv, [Tf!Next]_fileVars PROVE TfInv'
  OBVIOUS
<1> USE DEF TfInv, Tf!Turns
<1>1. CASE UNCHANGED fileVars
  BY <1>1 DEF fileVars
<1>2. CASE Tf!Truncate
  BY <1>2 DEF Tf!Truncate, Tf!Changed
<1>3. CASE Tf!Write
  <2>1. timer' = (timer \/ watch = "on") /\ excused' = (excused \/ watch = "synced") /\ watch' = watch
    BY <1>3 DEF Tf!Write, Tf!Changed
  <2>2. file' = file + 1 /\ torn' = FALSE
    BY <1>3 DEF Tf!Write
  <2>3. file' \in Nat
    BY <2>2
  <2>4. timer' \in BOOLEAN /\ excused' \in BOOLEAN
    BY <2>1
  <2>5. (watch' \in {"synced", "on"} => excused' \/ timer') /\ (watch' = "lost" => excused')
    BY <2>1
  <2> QED BY <2>1, <2>2, <2>3, <2>4, <2>5
<1>4. CASE Tf!Rename
  <2>1. /\ timer' = (timer \/ watch = "on") /\ excused' = (excused \/ watch \in {"on", "synced"})
        /\ watch' = IF watch = "on" THEN "lost" ELSE watch
    BY <1>4 DEF Tf!Rename
  <2>2. file' = file + 1 /\ torn' = torn
    BY <1>4 DEF Tf!Rename
  <2>3. file' \in Nat
    BY <2>2
  <2>4. timer' \in BOOLEAN /\ excused' \in BOOLEAN
    BY <2>1
  <2>5. (watch' \in {"synced", "on", "lost"} => excused') /\ watch' \in {"off", "synced", "on", "lost"}
    BY <2>1
  <2> QED BY <2>2, <2>3, <2>4, <2>5
<1>5. CASE Tf!StartSync
  BY <1>5 DEF Tf!StartSync, Tf!SyncSession
<1>6. CASE Tf!StartWatch
  <2>1. /\ watch = "synced" /\ watch' = (IF file > 0 THEN "on" ELSE "lost")
        /\ excused' = (excused \/ file = 0)
        /\ UNCHANGED <<file, torn, cache, timer>>
    BY <1>6 DEF Tf!StartWatch
  <2>2. CASE file > 0
    <3>1. watch' = "on" /\ ~ (file = 0)
      BY <2>1, <2>2
    <3>2. watch = "synced" /\ UNCHANGED <<file, torn, cache, timer>>
      BY <2>1
    <3>3. excused \in BOOLEAN /\ excused' = (excused \/ file = 0)
      BY <2>1
    <3>4. excused' = excused
      BY ONLY <3>1, <3>3
    <3> QED BY <3>1, <3>2, <3>4
  <2>3. CASE file = 0
    <3>1. watch' = "lost"
      BY <2>1, <2>3
    <3>2. excused' = TRUE
      BY ONLY <2>1, <2>3
    <3> QED BY <2>1, <3>1, <3>2
  <2> QED BY <2>2, <2>3
<1>7. CASE Tf!Debounced
  BY <1>7 DEF Tf!Debounced, Tf!SyncSession, Tf!WatchAfter
<1>8. CASE Tf!Load
  BY <1>8 DEF Tf!Load, Tf!SyncSession
<1>9. CASE Tf!TurnLog
  BY <1>9 DEF Tf!TurnLog, Tf!AppendLine, Tf!EndLine, Tf!ReadLog, Tf!MergeLog, Tf!sessionVars
<1> QED BY <1>1, <1>2, <1>3, <1>4, <1>5, <1>6, <1>7, <1>8, <1>9 DEF Tf!Next, Tf!Session

LEMMA MsSizes ==
  ASSUME NEW S
  PROVE  Ms!Cardinality(S) = Cardinality(S)
BY DEF Ms!Cardinality, Cardinality

\* The meetings of a set that are later than one of them.
Later(S, m) == {k \in S : k.date > m.date}

LEMMA NewestIs ==
  ASSUME NEW S, NEW n
  PROVE  Ms!Newest(S, n) = {m \in S : Cardinality(Later(S, m)) < n}
BY MsSizes DEF Ms!Newest, Later

\* Cut twice, a list is as if it were cut once, at the lesser limit.
LEMMA NewestOfNewest ==
  ASSUME NEW S, IsFiniteSet(S), \A m \in S : m.date \in Nat,
         NEW n \in Nat, NEW k \in Nat, n <= k
  PROVE  Ms!Newest(Ms!Newest(S, k), n) = Ms!Newest(S, n)
<1> DEFINE N == Ms!Newest(S, k)
<1>1. \A m \in S : IsFiniteSet(Later(S, m)) /\ Cardinality(Later(S, m)) \in Nat
  BY FS_Subset, FS_CardinalityType DEF Later
<1>2. \A m, j \in S : j \in Later(S, m) => Cardinality(Later(S, j)) <= Cardinality(Later(S, m))
  <2> SUFFICES ASSUME NEW m \in S, NEW j \in S, j \in Later(S, m)
               PROVE  Cardinality(Later(S, j)) <= Cardinality(Later(S, m))
    OBVIOUS
  <2>1. Later(S, j) \subseteq Later(S, m)
    BY DEF Later
  <2> QED BY <1>1, <2>1, FS_Subset
<1>3. N = {m \in S : Cardinality(Later(S, m)) < k}
  BY NewestIs
<1> HIDE DEF N
<1>4. ASSUME NEW m \in N PROVE Later(N, m) = Later(S, m)
  <2>1. \A j \in Later(S, m) : j \in N
    <3> SUFFICES ASSUME NEW j \in Later(S, m) PROVE j \in N
      OBVIOUS
    <3>1. j \in S /\ m \in S /\ Cardinality(Later(S, m)) < k
      BY <1>3 DEF Later
    <3>2. Cardinality(Later(S, j)) <= Cardinality(Later(S, m))
      BY <1>2, <3>1
    <3>3. Cardinality(Later(S, j)) < k
      BY <1>1, <3>1, <3>2
    <3> QED BY <1>3, <3>1, <3>3
  <2> QED BY <1>3, <2>1 DEF Later
<1>5. Ms!Newest(N, n) = {m \in N : Cardinality(Later(S, m)) < n}
  BY <1>4, NewestIs
<1>6. \A m \in S : Cardinality(Later(S, m)) < n => Cardinality(Later(S, m)) < k
  BY <1>1
<1>7. Ms!Newest(S, n) = {m \in S : Cardinality(Later(S, m)) < n}
  BY NewestIs
<1> QED BY <1>3, <1>5, <1>6, <1>7 DEF N

\* The rows are the newest of the directory, unless a copy is due.
MsInv ==
  /\ Ms!TypeOK /\ IsFiniteSet(meetings)
  /\ dirWatch # "off" /\ ~ dirTimer /\ ~ missed =>
       meetingRows = Ms!Newest(Ms!listMeetingFiles, SyncLimit)

LEMMA CopyTypes ==
  ASSUME Ms!TypeOK, Ms!SyncMeetings
  PROVE  meetingRows' \subseteq Ms!Meeting /\ Ms!OnePerDate(meetingRows')
<1>1. Ms!listMeetingFiles \subseteq Ms!Meeting /\ Ms!OnePerDate(Ms!listMeetingFiles)
  <2>1. meetings \subseteq Ms!Meeting /\ Ms!OnePerDate(meetings)
    BY DEF Ms!TypeOK
  <2>2. \A m \in meetings : m.date \in Dates /\ m.ended \in BOOLEAN
    BY <2>1 DEF Ms!Meeting
  <2>3. \A f \in Ms!listMeetingFiles : \E m \in meetings :
          f = [date |-> m.date, ended |-> m.ended /\ m.date \notin tornMeetings]
    BY DEF Ms!listMeetingFiles
  <2>4. Ms!listMeetingFiles \subseteq Ms!Meeting
    <3>1. ASSUME NEW d \in Dates, NEW e \in BOOLEAN
          PROVE  [date |-> d, ended |-> e] \in [date : Dates, ended : BOOLEAN]
      OBVIOUS
    <3>2. \A m \in meetings : (m.ended /\ m.date \notin tornMeetings) \in BOOLEAN
      OBVIOUS
    <3>3. ASSUME NEW f \in Ms!listMeetingFiles PROVE f \in Ms!Meeting
      <4>1. PICK m \in meetings :
              f = [date |-> m.date, ended |-> m.ended /\ m.date \notin tornMeetings]
        BY <2>3
      <4>2. m.date \in Dates /\ (m.ended /\ m.date \notin tornMeetings) \in BOOLEAN
        BY <2>2, <3>2
      <4>3. [date |-> m.date, ended |-> m.ended /\ m.date \notin tornMeetings]
              \in [date : Dates, ended : BOOLEAN]
        BY ONLY <3>1, <4>2
      <4> QED BY <4>1, <4>3 DEF Ms!Meeting
    <3> QED BY <3>3
  <2>5. ASSUME NEW f \in Ms!listMeetingFiles, NEW g \in Ms!listMeetingFiles, f.date = g.date
        PROVE  f = g
    <3>1. PICK m \in meetings :
            f = [date |-> m.date, ended |-> m.ended /\ m.date \notin tornMeetings]
      BY <2>3
    <3>2. PICK k \in meetings :
            g = [date |-> k.date, ended |-> k.ended /\ k.date \notin tornMeetings]
      BY <2>3
    <3>3. m.date = k.date
      BY <2>5, <3>1, <3>2
    <3>4. m = k
      BY <2>1, <3>3 DEF Ms!OnePerDate
    <3> QED BY <3>1, <3>2, <3>4
  <2> QED BY <2>4, <2>5 DEF Ms!OnePerDate
<1>2. meetingRows' \subseteq Ms!listMeetingFiles
  BY DEF Ms!SyncMeetings, Ms!Replaced, Ms!Newest
<1> QED BY <1>1, <1>2 DEF Ms!OnePerDate

LEMMA MsStep == MsInv /\ [Ms!Next]_meetingVars => MsInv'
<1> SUFFICES ASSUME MsInv, [Ms!Next]_meetingVars PROVE MsInv'
  OBVIOUS
<1>1. MaxChanges \in Nat
  BY PartsAssumption DEF Ms!LimitsAssumption
<1> USE DEF MsInv
<1>2. CASE UNCHANGED meetingVars
  BY <1>2 DEF meetingVars, Ms!TypeOK, Ms!Newest, Ms!listMeetingFiles
<1>3. ASSUME Ms!Changed
      PROVE  /\ changed' \in 0 .. MaxChanges /\ dirTimer' \in BOOLEAN /\ missed' \in BOOLEAN
             /\ meetingRows' = meetingRows /\ dirWatch' = dirWatch
             /\ dirWatch # "off" => dirTimer' \/ missed'
  <2>1. changed \in 0 .. MaxChanges /\ changed < MaxChanges /\ changed' = changed + 1
    BY <1>3 DEF Ms!Changed, Ms!TypeOK
  <2>2. changed' \in 0 .. MaxChanges
    BY ONLY <1>1, <2>1
  <2>3. /\ dirTimer' = (dirTimer \/ dirWatch = "on") /\ missed' = (missed \/ dirWatch = "copied")
        /\ meetingRows' = meetingRows /\ dirWatch' = dirWatch
        /\ dirWatch \in {"off", "copied", "on"}
    BY <1>3 DEF Ms!Changed, Ms!TypeOK
  <2>4. dirTimer' \in BOOLEAN /\ missed' \in BOOLEAN
    BY <2>3
  <2>5. dirWatch # "off" => dirTimer' \/ missed'
    BY <2>3
  <2> QED BY <2>2, <2>3, <2>4, <2>5
<1>4. ASSUME NEW d \in Dates, Ms!Add(d) PROVE MsInv'
  <2>1. PICK e \in BOOLEAN : meetings' = meetings \cup {[date |-> d, ended |-> e]}
    BY <1>4 DEF Ms!Add
  <2>2. IsFiniteSet(meetings')
    BY <2>1, FS_AddElement
  <2>3. Ms!TypeOK'
    BY <1>3, <1>4, <2>1 DEF Ms!Add, Ms!TypeOK, Ms!Meeting, Ms!OnePerDate
  <2> QED BY <1>3, <1>4, <2>2, <2>3 DEF Ms!Add
<1>5. ASSUME NEW m \in meetings, Ms!Truncate(m) PROVE MsInv'
  <2>1. Ms!TypeOK'
    BY <1>3, <1>5 DEF Ms!Truncate, Ms!TypeOK
  <2> QED BY <1>3, <1>5, <2>1 DEF Ms!Truncate
<1>6. ASSUME NEW m \in meetings, Ms!Rewrite(m) PROVE MsInv'
  <2>1. PICK e \in BOOLEAN : meetings' = (meetings \ {m}) \cup {[date |-> m.date, ended |-> e]}
    BY <1>6 DEF Ms!Rewrite
  <2>2. IsFiniteSet(meetings')
    BY <2>1, FS_AddElement, FS_RemoveElement
  <2>3. Ms!TypeOK'
    BY <1>3, <1>6, <2>1 DEF Ms!Rewrite, Ms!TypeOK, Ms!Meeting, Ms!OnePerDate
  <2> QED BY <1>3, <1>6, <2>2, <2>3 DEF Ms!Rewrite
<1>7. ASSUME NEW m \in meetings, Ms!Delete(m) PROVE MsInv'
  <2>1. IsFiniteSet(meetings')
    BY <1>7, FS_RemoveElement DEF Ms!Delete
  <2>2. Ms!TypeOK'
    BY <1>3, <1>7 DEF Ms!Delete, Ms!TypeOK, Ms!Meeting, Ms!OnePerDate
  <2> QED BY <1>3, <1>7, <2>1, <2>2 DEF Ms!Delete
<1>8. CASE Ms!StartCopy \/ Ms!Debounced \/ Ms!Report
  <2>1. Ms!SyncMeetings /\ UNCHANGED <<meetings, tornMeetings, changed>>
    BY <1>8 DEF Ms!StartCopy, Ms!Debounced, Ms!Report
  <2>2. Ms!TypeOK'
    BY <1>8, <2>1, CopyTypes DEF Ms!StartCopy, Ms!Debounced, Ms!Report, Ms!TypeOK
  <2>3. meetingRows' = Ms!Newest(Ms!listMeetingFiles, SyncLimit)'
    BY <2>1 DEF Ms!SyncMeetings, Ms!Replaced, Ms!Newest, Ms!listMeetingFiles
  <2> QED BY <2>1, <2>2, <2>3
<1>9. CASE Ms!StartWatch \/ Ms!Stop
  <2>1. Ms!TypeOK'
    BY <1>9 DEF Ms!StartWatch, Ms!Stop, Ms!TypeOK
  <2>2. UNCHANGED <<meetings, tornMeetings, meetingRows>>
        /\ (dirWatch' # "off" => dirWatch # "off" /\ UNCHANGED <<dirTimer, missed>>)
    BY <1>9 DEF Ms!StartWatch, Ms!Stop
  <2>3. Ms!Newest(Ms!listMeetingFiles, SyncLimit)' = Ms!Newest(Ms!listMeetingFiles, SyncLimit)
    BY <2>2 DEF Ms!Newest, Ms!listMeetingFiles
  <2> QED BY <2>1, <2>2, <2>3
<1> QED BY <1>2, <1>4, <1>5, <1>6, <1>7, <1>8, <1>9 DEF Ms!Next

\* The list is the directory, when the rows are.
LEMMA ListIsDirectory ==
  ASSUME MsInv
  PROVE  Ms!ListsDirectory
<1> SUFFICES ASSUME dirWatch = "on", ~ dirTimer, ~ missed, tornMeetings = {}
             PROVE  Ms!listMeetings = Ms!Newest(meetings, ListLimit)
  BY DEF Ms!ListsDirectory
<1>1. /\ SyncLimit \in Nat /\ ListLimit \in Nat /\ ListLimit <= SyncLimit /\ Dates \subseteq Nat
  BY PartsAssumption DEF Ms!LimitsAssumption, Ms!DatesAssumption
<1>2. meetings \subseteq Ms!Meeting /\ Ms!OnePerDate(meetings) /\ IsFiniteSet(meetings)
  BY DEF MsInv, Ms!TypeOK
<1>3. \A m \in meetings : /\ m.date \in Nat /\ m.ended \in BOOLEAN
                          /\ m = [date |-> m.date, ended |-> m.ended]
  <2> SUFFICES ASSUME NEW m \in meetings
               PROVE  /\ m.date \in Nat /\ m.ended \in BOOLEAN
                      /\ m = [date |-> m.date, ended |-> m.ended]
    OBVIOUS
  <2>1. m \in [date : Dates, ended : BOOLEAN]
    BY <1>2 DEF Ms!Meeting
  <2>2. m.date \in Dates /\ m.ended \in BOOLEAN
    BY ONLY <2>1
  <2>3. m = [date |-> m.date, ended |-> m.ended]
    BY ONLY <2>1
  <2> QED BY <1>1, <2>2, <2>3
<1>4. Ms!listMeetingFiles = meetings
  <2>1. \A m \in meetings : [date |-> m.date, ended |-> m.ended /\ m.date \notin tornMeetings] = m
    BY <1>3
  <2> QED BY <2>1 DEF Ms!listMeetingFiles
<1> DEFINE N == Ms!Newest(meetings, ListLimit)
<1>5. Ms!Newest(meetingRows, ListLimit) = N
  BY <1>1, <1>2, <1>3, <1>4, NewestOfNewest DEF MsInv
<1>6. Ms!Newest(N, ListLimit) = N
  BY <1>1, <1>2, <1>3, NewestOfNewest
<1>7. N \subseteq meetings
  BY DEF Ms!Newest
<1> HIDE DEF N
<1>8. Ms!mergeMeetings(N, N) = N
  <2>1. \A m \in N : [date |-> m.date, ended |-> m.ended \/ \E r \in N : r.date = m.date /\ r.ended] = m
    BY <1>2, <1>3, <1>7 DEF Ms!OnePerDate
  <2>2. {r \in N : \A m \in N : m.date # r.date} = {}
    OBVIOUS
  <2> QED BY <2>1, <2>2 DEF Ms!mergeMeetings
<1> QED BY <1>4, <1>5, <1>6, <1>8 DEF N, Ms!listMeetings

LEMMA TfInitial == Tf!Init => TfInv
<1> SUFFICES ASSUME Tf!Init PROVE TfInv
  OBVIOUS
<1>1. file \in Nat
  BY DEF Tf!Init
<1> QED BY <1>1 DEF Tf!Init, TfInv

LEMMA MsInitial == Ms!Init => MsInv
<1> SUFFICES ASSUME Ms!Init PROVE MsInv
  OBVIOUS
<1>1. 0 \in 0 .. MaxChanges
  BY PartsAssumption DEF Ms!LimitsAssumption
<1> QED BY <1>1, FS_EmptySet DEF Ms!Init, MsInv, Ms!TypeOK, Ms!OnePerDate

(***************************************************************************)
(* The copies of SESSION.md and of the meetings say what the files say,     *)
(* once the debounce is over: a sync in the middle of a write is followed   *)
(* by another, the lists that are merged are cut at the same meeting, and    *)
(* only the named cases of a watch that does not see leave an old copy.     *)
(***************************************************************************)
THEOREM CopiesAreFresh == Spec => []CopiesFresh
<1>1. Init => TfInv
  BY TfInitial DEF Init
<1>2. Init => MsInv
  BY MsInitial DEF Init
<1>3. TfInv /\ MsInv /\ [Next]_vars => TfInv' /\ MsInv'
  BY TfStep, MsStep, PartSteps
<1>4. TfInv /\ MsInv => CopiesFresh
  <2>1. TfInv => Tf!FreshUnlessExcused
    BY DEF TfInv, Tf!FreshUnlessExcused, Tf!Turns
  <2> QED BY <2>1, ListIsDirectory DEF CopiesFresh
<1> QED BY <1>1, <1>2, <1>3, <1>4, PTL DEF Spec


------------------------------------------------------------------------------
(* The supervisor's brake *)

\* What is left of a sequence cut at its beginning.
LEMMA EndOf ==
  ASSUME NEW S, NEW s \in Seq(S), NEW n \in Nat
  PROVE  LET t == SubSeq(s, IF Len(s) > n THEN Len(s) - n + 1 ELSE 1, Len(s))
             gone == IF Len(s) > n THEN Len(s) - n ELSE 0
         IN  /\ t \in Seq(S) /\ gone \in Nat /\ Len(s) \in Nat
             /\ Len(t) \in Nat /\ Len(t) = Len(s) - gone /\ Len(t) <= n
             /\ \A i \in 1 .. Len(t) : t[i] = s[i + gone]
<1> DEFINE gone == IF Len(s) > n THEN Len(s) - n ELSE 0
           t == SubSeq(s, IF Len(s) > n THEN Len(s) - n + 1 ELSE 1, Len(s))
<1>1. Len(s) \in Nat /\ DOMAIN s = 1 .. Len(s) /\ \A i \in 1 .. Len(s) : s[i] \in S
  BY LenProperties, ElementOfSeq
<1>2. gone \in Nat /\ gone <= Len(s)
  BY <1>1
<1>3. t = SubSeq(s, gone + 1, Len(s))
  <2>1. (IF Len(s) > n THEN Len(s) - n + 1 ELSE 1) = gone + 1
    BY <1>1
  <2> QED BY <2>1
<1>4. Len(s) - gone <= n
  BY <1>1
<1> HIDE DEF t, gone
<1>5. gone + 1 \in Int /\ Len(s) \in Int /\ \A i \in (gone + 1) .. Len(s) : s[i] \in S
  BY <1>1, <1>2
<1>6. /\ SubSeq(s, gone + 1, Len(s)) \in Seq(S)
      /\ Len(SubSeq(s, gone + 1, Len(s))) = IF gone + 1 <= Len(s) THEN Len(s) - (gone + 1) + 1 ELSE 0
      /\ \A i \in 1 .. (Len(s) - (gone + 1) + 1) :
           SubSeq(s, gone + 1, Len(s))[i] = s[(gone + 1) + i - 1]
  BY ONLY <1>5, SubSeqProperties
<1>7. /\ t \in Seq(S)
      /\ Len(t) = IF gone + 1 <= Len(s) THEN Len(s) - (gone + 1) + 1 ELSE 0
      /\ \A i \in 1 .. (Len(s) - (gone + 1) + 1) : t[i] = s[(gone + 1) + i - 1]
  BY <1>3, <1>6
<1>8. Len(t) = Len(s) - gone /\ Len(t) \in Nat
  <2>1. Len(s) \in Nat
    BY <1>1
  <2>2. Len(t) = IF gone + 1 <= Len(s) THEN Len(s) - (gone + 1) + 1 ELSE 0
    BY <1>7
  <2> QED BY ONLY <2>1, <2>2, <1>2
<1>9. \A i \in 1 .. Len(t) : i \in 1 .. (Len(s) - (gone + 1) + 1) /\ (gone + 1) + i - 1 = i + gone
  BY <1>1, <1>2, <1>8
<1> QED BY <1>1, <1>2, <1>4, <1>7, <1>8, <1>9 DEF t, gone

Codes   == {"step_stuck", "send_fail_loop", "enqueue_loop", "no_window"}
Written == [msg : {"sent", "send failed", "no window open", "other"}, step : Steps \cup {None}, age : Nat]

\* Where the supervisor reads the guard's log, the guard finds its alerts.
SvInv ==
  /\ Sv!TypeOK
  /\ logs \in [Sv!Logs -> Seq(Written)]
  /\ orch \in [key : Steps \cup {None}, repeat : 0 .. RepeatAt]
  /\ cycle # "guard" => due = {}
  /\ cycle = "guard" /\ reads = "guard" /\ ~ broken =>
       report # None /\ report.age = 0 /\ due \subseteq report.alerts

\* A log that is written to.
LEMMA TailType ==
  ASSUME NEW s \in Seq(Written), NEW t \in Seq(Written)
  PROVE  /\ Sv!LastOf(s \o t, TailLines) \in Seq(Written)
         /\ Len(Sv!LastOf(s \o t, TailLines)) <= TailLines
<1>1. s \o t \in Seq(Written)
  BY ConcatProperties
<1>2. TailLines \in Nat
  BY PartsAssumption DEF Sv!LimitsAssumption
<1> QED BY <1>1, <1>2, EndOf DEF Sv!LastOf

\* The last line is the one that was written.
LEMMA TailLast ==
  ASSUME NEW s \in Seq(Written), NEW l \in Written
  PROVE  Sv!Last(Sv!LastOf(s \o <<l>>, TailLines)) = l
<1> DEFINE all == s \o <<l>>
           t == Sv!LastOf(all, TailLines)
           gone == IF Len(all) > TailLines THEN Len(all) - TailLines ELSE 0
<1>1. all \in Seq(Written) /\ Len(all) = Len(s) + 1 /\ all[Len(s) + 1] = l /\ Len(s) \in Nat
  <2>1. <<l>> \in Seq(Written) /\ Len(<<l>>) = 1 /\ <<l>>[1] = l
    OBVIOUS
  <2>2. Len(s) \in Nat
    BY LenProperties
  <2> QED BY <2>1, <2>2, ConcatProperties
<1>2. TailLines \in Nat /\ TailLines # 0
  BY PartsAssumption DEF Sv!LimitsAssumption
<1> HIDE DEF all
<1>3. /\ Len(t) = Len(all) - gone /\ gone \in Nat /\ Len(t) \in Nat
      /\ \A i \in 1 .. Len(t) : t[i] = all[i + gone]
  BY <1>1, <1>2, EndOf DEF Sv!LastOf
<1>4. Len(t) # 0
  BY <1>1, <1>2, <1>3
<1> HIDE DEF t, gone
<1>5. Len(t) \in 1 .. Len(t) /\ Len(t) + gone = Len(s) + 1
  BY <1>1, <1>3, <1>4
<1>6. t[Len(t)] = l
  BY <1>1, <1>3, <1>5
<1> QED BY <1>6 DEF Sv!Last, t, all

LEMMA AnalyzeType == ASSUME NEW lines PROVE Sv!analyze(lines) \subseteq Codes
BY DEF Sv!analyze, Codes

LEMMA SvStep == SvInv /\ [Sv!Next]_logVars => SvInv'
<1> SUFFICES ASSUME SvInv, [Sv!Next]_logVars PROVE SvInv'
  OBVIOUS
<1> USE DEF Sv!Logs
<1>0. /\ TailLines \in Nat /\ RepeatAt \in Nat /\ Window \in Nat /\ StaleAge \in Nat /\ StaleAge # 0
  BY PartsAssumption DEF Sv!LimitsAssumption
<1>1. CASE UNCHANGED logVars
  BY <1>1 DEF logVars, SvInv, Sv!TypeOK
<1>2. ASSUME NEW f \in Sv!Logs, NEW l \in Written, logs' = Sv!Logged(f, <<l>>)
      PROVE  /\ logs' \in [Sv!Logs -> Seq(Written)]
             /\ \A g \in Sv!Logs : Len(logs'[g]) <= TailLines
             /\ Sv!Last(logs'[f]) = l
  <2>1. logs[f] \in Seq(Written) /\ <<l>> \in Seq(Written)
    BY DEF SvInv
  <2>2. logs' = [logs EXCEPT ![f] = Sv!LastOf(@ \o <<l>>, TailLines)]
    BY <1>2 DEF Sv!Logged
  <2>3. logs'[f] = Sv!LastOf(logs[f] \o <<l>>, TailLines) /\ \A g \in Sv!Logs \ {f} : logs'[g] = logs[g]
    BY <2>2 DEF SvInv
  <2>4. logs \in [Sv!Logs -> Seq(Written)] /\ \A g \in Sv!Logs : Len(logs[g]) <= TailLines
    BY DEF SvInv, Sv!TypeOK
  <2>5. Sv!LastOf(logs[f] \o <<l>>, TailLines) \in Seq(Written) /\ Len(Sv!LastOf(logs[f] \o <<l>>, TailLines)) <= TailLines
    BY <2>1, TailType
  <2>6. logs' \in [Sv!Logs -> Seq(Written)]
    BY <2>2, <2>4, <2>5
  <2>7. \A g \in Sv!Logs : Len(logs'[g]) <= TailLines
    BY <2>3, <2>4, <2>5
  <2>8. Sv!Last(logs'[f]) = l
    BY <2>1, <2>3, TailLast
  <2> QED BY <2>6, <2>7, <2>8
<1>3. ASSUME NEW msg \in {"sent", "send failed", "no window open", "other"}, NEW st \in Steps \cup {None}
      PROVE  Sv!Line(msg, st) \in Written
  BY DEF Sv!Line, Written
<1>4. CASE Sv!Supervise
  <2>1. /\ cycle' = "guard" /\ UNCHANGED <<reads, broken, orch, next, blocked>>
        /\ due' = Sv!analyze(logs["guard"]) \cap {"step_stuck", "send_fail_loop"}
    BY <1>4 DEF Sv!Supervise
  <2>2. CASE broken
    <3>1. UNCHANGED <<report, logs>>
      BY <1>4, <2>2 DEF Sv!Supervise
    <3> QED BY <2>1, <2>2, <3>1 DEF SvInv, Sv!TypeOK
  <2>3. CASE ~ broken
    <3> DEFINE alerts == Sv!analyze(logs[reads])
               more(f) == [i \in 1..((IF f = reads THEN Sv!Cardinality(alerts) ELSE 0)
                                       + IF f = "guard" /\ alerts # {} THEN 1 ELSE 0)
                              |-> Sv!Line("other", None)]
    <3>1. /\ report' = [age |-> 0, alerts |-> alerts]
          /\ logs' = [f \in Sv!Logs |-> Sv!LastOf(logs[f] \o more(f), TailLines)]
      BY <1>4, <2>3 DEF Sv!Supervise
    <3>2. alerts \subseteq Codes
      BY AnalyzeType
    <3>3. Sv!Cardinality(alerts) \in Nat
      <4>1. IsFiniteSet(Codes)
        <5>1. Codes = (({"step_stuck"} \cup {"send_fail_loop"}) \cup {"enqueue_loop"}) \cup {"no_window"}
          BY DEF Codes
        <5>2. /\ IsFiniteSet({"step_stuck"}) /\ IsFiniteSet({"send_fail_loop"})
              /\ IsFiniteSet({"enqueue_loop"}) /\ IsFiniteSet({"no_window"})
          BY FS_Singleton
        <5> QED BY ONLY <5>1, <5>2, FS_Union
      <4>2. IsFiniteSet(alerts)
        BY <3>2, <4>1, FS_Subset
      <4>3. Cardinality(alerts) \in Nat
        BY <4>2, FS_CardinalityType
      <4> QED BY <4>3 DEF Sv!Cardinality, Cardinality
    <3>4. reads = "guard" => due' \subseteq alerts
      BY <2>1
    <3> HIDE DEF alerts
    <3>5. \A f \in Sv!Logs : more(f) \in Seq(Written)
      <4> SUFFICES ASSUME NEW f \in Sv!Logs PROVE more(f) \in Seq(Written)
        OBVIOUS
      <4> DEFINE n == (IF f = reads THEN Sv!Cardinality(alerts) ELSE 0)
                        + IF f = "guard" /\ alerts # {} THEN 1 ELSE 0
      <4>1. n \in Nat
        BY <3>3
      <4> HIDE DEF n
      <4>2. Sv!Line("other", None) \in Written
        BY <1>3
      <4>3. [i \in 1 .. n |-> Sv!Line("other", None)] \in Seq(Written)
        BY <4>1, <4>2
      <4> QED BY <4>3 DEF n
    <3> HIDE DEF more
    <3>6. \A f \in Sv!Logs : logs[f] \in Seq(Written)
      BY DEF SvInv
    <3>7. \A f \in Sv!Logs : /\ Sv!LastOf(logs[f] \o more(f), TailLines) \in Seq(Written)
                             /\ Len(Sv!LastOf(logs[f] \o more(f), TailLines)) <= TailLines
      BY <3>5, <3>6, TailType
    <3>8. logs' \in [Sv!Logs -> Seq(Written)] /\ \A f \in Sv!Logs : Len(logs'[f]) <= TailLines
      BY <3>1, <3>7
    <3>9. report' \in Sv!Reports /\ report' # None
      <4>1. report' \in Sv!Reports
        BY <1>0, <3>1, <3>2 DEF Sv!Reports, Codes
      <4> QED BY <4>1, PartsAssumption DEF Sv!NoneAssumption
    <3> QED BY <2>1, <3>1, <3>2, <3>4, <3>8, <3>9 DEF SvInv, Sv!TypeOK, Codes
  <2> QED BY <2>2, <2>3
<1>5. CASE Sv!Guard
  <2>1. /\ cycle = "guard" /\ cycle' = "sleep" /\ due' = {} /\ UNCHANGED <<reads, broken, report, next>>
        /\ \E l \in Written : logs' = Sv!Logged("guard", <<l>>)
    <3>1. next \in Steps \cup {None}
      BY DEF SvInv, Sv!TypeOK
    <3> QED BY <1>3, <1>5, <3>1 DEF Sv!Guard, Sv!Passes, Sv!Blocks, Sv!Goes
  <2>2. /\ logs' \in [Sv!Logs -> Seq(Written)]
        /\ \A g \in Sv!Logs : Len(logs'[g]) <= TailLines
    BY <1>2, <2>1
  <2>3. orch' \in [key : Steps \cup {None}, repeat : 0 .. RepeatAt]
    <3>1. orch \in [key : Steps \cup {None}, repeat : 0 .. RepeatAt] /\ next \in Steps
      BY DEF SvInv, Sv!TypeOK
    <3>2. CASE orch' = orch
      BY <3>1, <3>2
    <3>3. CASE orch' = [key |-> next, repeat |-> IF orch.key # next THEN 0
                              ELSE IF orch.repeat < RepeatAt THEN orch.repeat + 1 ELSE RepeatAt]
      BY <1>0, <3>1, <3>3
    <3> QED BY <1>5, <3>2, <3>3 DEF Sv!Guard, Sv!Passes, Sv!Blocks, Sv!Goes
  <2>4. blocked' \subseteq {"step_stuck", "send_fail_loop", "enqueue_loop"}
    BY <1>5 DEF Sv!Guard, Sv!Passes, Sv!Blocks, Sv!Goes, Sv!Blocking, Sv!BlockCodes, SvInv, Sv!TypeOK
  <2> QED BY <2>1, <2>2, <2>3, <2>4 DEF SvInv, Sv!TypeOK
<1>6. CASE Sv!Sleep
  <2>1. report' \in {None} \cup Sv!Reports
    <3>1. CASE report = None
      BY <1>6, <3>1 DEF Sv!Sleep
    <3>2. CASE report # None
      <4>1. report' = [report EXCEPT !.age = Sv!Older(@, StaleAge)] /\ report \in Sv!Reports
        BY <1>6, <3>2 DEF Sv!Sleep, SvInv, Sv!TypeOK
      <4>2. report.age \in 0 .. StaleAge
        BY <4>1 DEF Sv!Reports
      <4>3. Sv!Older(report.age, StaleAge) \in 0 .. StaleAge
        BY <1>0, <4>2 DEF Sv!Older
      <4> QED BY <4>1, <4>3 DEF Sv!Reports
    <3> QED BY <3>1, <3>2
  <2>2. ASSUME NEW f \in Sv!Logs PROVE logs'[f] \in Seq(Written) /\ Len(logs'[f]) <= TailLines
    <3> DEFINE g(i) == [logs[f][i] EXCEPT !.age = IF logs[f][i].msg \in Sv!Timed THEN Sv!Older(@, Window) ELSE @]
    <3>1. logs[f] \in Seq(Written) /\ Len(logs[f]) <= TailLines
      BY DEF SvInv, Sv!TypeOK
    <3>2. DOMAIN logs[f] = 1 .. Len(logs[f]) /\ Len(logs[f]) \in Nat /\ \A i \in 1 .. Len(logs[f]) : logs[f][i] \in Written
      BY <3>1, LenProperties, ElementOfSeq
    <3>3. logs'[f] = [i \in DOMAIN logs[f] |-> g(i)]
      BY <1>6 DEF Sv!Sleep
    <3>4. \A i \in 1 .. Len(logs[f]) : g(i) \in Written
      <4> SUFFICES ASSUME NEW i \in 1 .. Len(logs[f]) PROVE g(i) \in Written
        OBVIOUS
      <4>1. logs[f][i] \in Written /\ logs[f][i].age \in Nat
        BY <3>2 DEF Written
      <4>2. Sv!Older(logs[f][i].age, Window) \in Nat
        BY <1>0, <4>1 DEF Sv!Older
      <4> QED BY <4>1, <4>2 DEF Written
    <3> HIDE DEF g
    <3>5. [i \in 1 .. Len(logs[f]) |-> g(i)] \in Seq(Written)
      BY <3>2, <3>4
    <3>6. Len([i \in 1 .. Len(logs[f]) |-> g(i)]) = Len(logs[f])
      BY <3>2, <3>5, LenProperties
    <3> QED BY <3>1, <3>2, <3>3, <3>5, <3>6
  <2>3. logs' \in [Sv!Logs -> Seq(Written)]
    <3>1. logs' = [f \in Sv!Logs |-> logs'[f]]
      BY <1>6 DEF Sv!Sleep
    <3> QED BY <2>2, <3>1
  <2>4. /\ cycle' = "supervisor" /\ cycle = "sleep" /\ UNCHANGED <<reads, broken, orch, next, blocked, due>>
    BY <1>6 DEF Sv!Sleep
  <2> QED BY <2>1, <2>2, <2>3, <2>4 DEF SvInv, Sv!TypeOK
<1>7. CASE Sv!TrackMoves
  BY <1>7 DEF Sv!TrackMoves, SvInv, Sv!TypeOK
<1>8. CASE Sv!OtherEnqueue
  <2>1. orch' \in [key : Steps \cup {None}, repeat : 0 .. RepeatAt]
    <3>1. 0 \in 0 .. RepeatAt
      BY <1>0
    <3> QED BY <1>8, <3>1 DEF Sv!OtherEnqueue, SvInv
  <2> QED BY <1>8, <2>1 DEF Sv!OtherEnqueue, SvInv, Sv!TypeOK
<1> QED BY <1>1, <1>4, <1>5, <1>6, <1>7, <1>8 DEF Sv!Next, Sv!Cycle

LEMMA SvInitial == Sv!Init => SvInv
<1> SUFFICES ASSUME Sv!Init PROVE SvInv
  OBVIOUS
<1>0. /\ TailLines \in Nat /\ RepeatAt \in Nat /\ StaleAge \in Nat
  BY PartsAssumption DEF Sv!LimitsAssumption
<1>1. logs \in [Sv!Logs -> Seq(Written)] /\ \A f \in Sv!Logs : Len(logs[f]) <= TailLines
  BY <1>0 DEF Sv!Init
<1>2. report \in {None} \cup Sv!Reports
  BY <1>0 DEF Sv!Init, Sv!Reports
<1>3. orch \in [key : Steps \cup {None}, repeat : 0 .. RepeatAt]
  BY <1>0 DEF Sv!Init
<1> QED BY <1>1, <1>2, <1>3 DEF Sv!Init, SvInv, Sv!TypeOK

(***************************************************************************)
(* No send past a due alert: a guard whose log the supervisor reads, in      *)
(* every cycle, does not send while that log, as it was when the supervisor   *)
(* had its turn, calls for a stop - for all thresholds and any tail.           *)
(***************************************************************************)
THEOREM StopsPastNoAlert == Spec => StopsWhenStuckIfRead
<1>0. 0 < StaleAge
  BY PartsAssumption DEF Sv!LimitsAssumption
<1>1. Init => SvInv
  BY SvInitial DEF Init
<1>2. SvInv /\ [Next]_vars => SvInv'
  BY SvStep, PartSteps
<1>3. SvInv /\ [Next]_vars => [Sv!Sends /\ reads = "guard" /\ ~ broken => due = {}]_Sv!vars
  <2> SUFFICES ASSUME SvInv, [Sv!Next]_logVars, Sv!Sends, reads = "guard", ~ broken PROVE due = {}
    BY PartSteps DEF Sv!vars, logVars
  <2>1. cycle = "guard" /\ cycle' = "sleep" /\ Sv!Last(logs'["guard"]).msg = "sent"
    BY DEF Sv!Sends
  <2>2. Sv!Guard
    BY <2>1 DEF logVars, Sv!Next, Sv!Cycle, Sv!Supervise, Sv!Sleep, Sv!TrackMoves, Sv!OtherEnqueue
  <2>3. report # None /\ report.age = 0 /\ due \subseteq report.alerts
        /\ due \subseteq {"step_stuck", "send_fail_loop"}
    BY <2>1 DEF SvInv, Sv!TypeOK
  <2>4. ASSUME NEW msg \in {"other", "no window open"}, logs' = Sv!Logged("guard", <<Sv!Line(msg, None)>>)
        PROVE  FALSE
    <3>1. Sv!Line(msg, None) \in Written /\ Sv!Line(msg, None).msg = msg
      BY DEF Sv!Line, Written
    <3>2. logs \in [Sv!Logs -> Seq(Written)] /\ "guard" \in Sv!Logs
      BY DEF SvInv, Sv!Logs
    <3>3. logs'["guard"] = Sv!LastOf(logs["guard"] \o <<Sv!Line(msg, None)>>, TailLines)
      <4>1. logs' = [logs EXCEPT !["guard"] = Sv!LastOf(logs["guard"] \o <<Sv!Line(msg, None)>>, TailLines)]
        BY <2>4 DEF Sv!Logged
      <4> HIDE DEF Sv!LastOf
      <4> QED BY <3>2, <4>1
    <3>4. Sv!Last(logs'["guard"]) = Sv!Line(msg, None)
      <4>1. logs["guard"] \in Seq(Written)
        BY ONLY <3>2
      <4> QED BY ONLY <3>1, <3>3, <4>1, TailLast
    <3> QED BY <2>1, <3>1, <3>4
  <2>5. PICK msg \in {"other", "send failed", "sent"} : Sv!Goes(msg)
    BY <2>2, <2>4 DEF Sv!Guard, Sv!Passes, Sv!Blocks
  <2>6. Sv!Blocking(Sv!Alerts) = {}
    BY <2>5 DEF Sv!Goes
  <2>7. Sv!Alerts = report.alerts
    <3> QED BY <1>0, <2>3 DEF Sv!Alerts, Sv!Usable
  <2> QED BY <2>3, <2>6, <2>7 DEF Sv!Blocking, Sv!BlockCodes
<1> QED BY <1>1, <1>2, <1>3, PTL DEF Spec, StopsWhenStuckIfRead, Sv!StopsWhenStuckIfRead
==============================================================================
