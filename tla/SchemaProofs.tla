---------------------------- MODULE SchemaProofs ----------------------------
(***************************************************************************)
(* Proof that the recorded schema version is never ahead of the statements *)
(* in force, for any number of connections, any mixture of releases and    *)
(* any schema file.                                                        *)
(***************************************************************************)
EXTENDS Schema, TLAPS

\* A connection has applied its release's statements up to the next one, and
\* all of them once it has left the loop.
Applied(c) ==
    /\ pc[c] = "apply" =>
          \A i \in StatementsOf(release[c]) : i < next[c] => i \in defined
    /\ pc[c] \in {"create", "confirm", "record", "ready"} =>
          StatementsOf(release[c]) \subseteq defined
    /\ pc[c] = "new" => next[c] = 1

\* Only a connection that found or made a record reads it for the last time.
Recorded(c) == pc[c] \in {"confirm", "record"} => version # None

\* The strengthening of VersionIsBacked that every step preserves.
SchemaInv ==
    /\ TypeOK
    /\ VersionIsBacked
    /\ \A c \in Connections : Applied(c) /\ Recorded(c)

\* The initial database is complete for its version.
LEMMA InitBacked == Init => SchemaInv
<1> SUFFICES ASSUME Init PROVE SchemaInv
    OBVIOUS
<1> USE SchemaAssumption
<1>1. version \in Nat \cup {None} /\ newest \in Nat
    BY DEF Init
<1>2. StatementsOf(version) \subseteq DOMAIN Statements
    BY DEF StatementsOf
<1>3. TypeOK
    BY <1>1, <1>2 DEF Init, TypeOK
<1>4. VersionIsBacked
    BY DEF Init, VersionIsBacked
<1>5. \A c \in Connections : Applied(c) /\ Recorded(c)
    BY DEF Init, Applied, Recorded
<1> QED
    BY <1>3, <1>4, <1>5 DEF SchemaInv

\* Statements are never undone, so a step of one connection takes nothing from
\* the others.
LEMMA OthersKeepApplied ==
    ASSUME SchemaInv, NEW c \in Connections, NEW d \in Connections, c # d,
           defined \subseteq defined', version' # None \/ version = None,
           NEW p, pc' = [pc EXCEPT ![c] = p],
           NEW n, next' = [next EXCEPT ![c] = n]
    PROVE  Applied(d)' /\ Recorded(d)'
<1>1. pc'[d] = pc[d] /\ next'[d] = next[d]
    BY DEF SchemaInv, TypeOK
<1>2. StatementsOf(release[d])' = StatementsOf(release[d])
    BY DEF StatementsOf
<1> QED
    BY <1>1, <1>2 DEF SchemaInv, Applied, Recorded

\* Every step of every connection keeps the invariant.
LEMMA StepKeepsBacked == SchemaInv /\ [Next]_vars => SchemaInv'
<1> SUFFICES ASSUME SchemaInv, [Next]_vars PROVE SchemaInv'
    OBVIOUS
<1> USE SchemaAssumption
<1> USE DEF SchemaInv
<1>0. CASE UNCHANGED vars
    BY <1>0 DEF vars, TypeOK, VersionIsBacked, StatementsOf, Applied, Recorded
<1> SUFFICES ASSUME NEW c \in Connections,
                    \/ ReadExisting(c) \/ ApplyStatement(c) \/ ReadCurrent(c)
                    \/ CreateRecord(c) \/ ConfirmRecord(c) \/ RecordVersion(c)
                    \/ Fail(c)
             PROVE  SchemaInv'
    BY <1>0 DEF Next
<1>a. /\ Len(Statements) \in Nat
      /\ DOMAIN Statements = 1 .. Len(Statements)
      /\ release[c] \in Nat /\ release[c] # 0
    OBVIOUS
<1>b. \A v : StatementsOf(v)' = StatementsOf(v)
    BY DEF StatementsOf
<1>c. next[c] \in 1 .. Len(Statements) + 1 /\ pc[c] \in
          {"new", "apply", "create", "confirm", "record", "ready", "raised"}
    BY DEF TypeOK
<1>1. CASE ReadExisting(c)
  <2>1. PICK p \in {"apply", "raised"} : pc' = [pc EXCEPT ![c] = p]
    BY <1>1 DEF ReadExisting, Goto
  <2>2. newest' \in Nat
    BY <1>1, <1>a DEF ReadExisting, Goto, TypeOK
  <2>3. TypeOK'
    BY <1>1, <2>1, <2>2 DEF ReadExisting, TypeOK
  <2>4. VersionIsBacked'
    BY <1>1, <1>b DEF ReadExisting, VersionIsBacked
  <2>5. Applied(c)' /\ Recorded(c)'
    <3>1. pc'[c] = p /\ next'[c] = 1 /\ pc[c] = "new"
        BY <1>1, <2>1 DEF ReadExisting, TypeOK, Applied
    <3>2. StatementsOf(release[c]) \subseteq 1 .. Len(Statements)
        BY <1>a DEF StatementsOf
    <3> QED
        BY <3>1, <3>2, <1>b DEF Applied, Recorded
  <2>6. next' = [next EXCEPT ![c] = next[c]]
    BY <1>1 DEF ReadExisting, TypeOK
  <2>7. defined' = defined /\ version' = version
    BY <1>1 DEF ReadExisting
  <2>8. \A d \in Connections : c # d => Applied(d)' /\ Recorded(d)'
    BY <2>1, <2>6, <2>7, OthersKeepApplied
  <2> QED
    BY <2>3, <2>4, <2>5, <2>8
<1>2. CASE ApplyStatement(c)
  <2>1. /\ pc' = [pc EXCEPT ![c] = "apply"]
        /\ next' = [next EXCEPT ![c] = next[c] + 1]
        /\ version' = version
        /\ pc[c] = "apply"
    BY <1>2 DEF ApplyStatement, TypeOK
  <2>2. defined \subseteq defined' /\ defined' \subseteq DOMAIN Statements
    BY <1>2 DEF ApplyStatement, TypeOK
  <2>3. next[c] + 1 \in 1 .. Len(Statements) + 1
    BY <1>2, <1>a, <1>c DEF ApplyStatement
  <2>4. TypeOK'
    BY <1>2, <2>1, <2>2, <2>3 DEF ApplyStatement, TypeOK
  <2>5. VersionIsBacked'
    BY <2>1, <2>2, <1>b DEF VersionIsBacked
  <2>6. Applied(c)' /\ Recorded(c)'
    <3>1. pc'[c] = "apply" /\ next'[c] = next[c] + 1
        BY <2>1 DEF TypeOK
    <3>2. ASSUME NEW i \in StatementsOf(release[c]), i < next[c] + 1
          PROVE  i \in defined'
      <4>1. i \in 1 .. Len(Statements) /\ Statements[i] <= release[c]
        BY <1>a DEF StatementsOf
      <4>2. i < next[c] \/ i = next[c]
        BY <3>2, <4>1, <1>c
      <4>3. CASE i < next[c]
        BY <4>3, <2>1, <2>2 DEF Applied
      <4>4. CASE i = next[c]
        BY <4>1, <4>4, <1>2 DEF ApplyStatement
      <4> QED
        BY <4>2, <4>3, <4>4
    <3> QED
        BY <3>1, <3>2, <1>b DEF Applied, Recorded
  <2>7. \A d \in Connections : c # d => Applied(d)' /\ Recorded(d)'
    BY <2>1, <2>2, OthersKeepApplied
  <2> QED
    BY <2>4, <2>5, <2>6, <2>7
<1>3. CASE ReadCurrent(c) \/ ConfirmRecord(c)
  <2>1. PICK p \in {"create", "raised", "record", "ready"} :
            /\ pc' = [pc EXCEPT ![c] = p]
            /\ p = "record" => version # None
    BY <1>3, <1>c DEF ReadCurrent, ConfirmRecord, Judge, Goto, Recorded
  <2>2. UNCHANGED <<version, defined, next, began>>
    BY <1>3 DEF ReadCurrent, ConfirmRecord
  <2>3. newest' \in Nat
    BY <1>3, <1>a DEF ReadCurrent, ConfirmRecord, Judge, Goto, TypeOK
  <2>4. TypeOK'
    BY <2>1, <2>2, <2>3 DEF TypeOK
  <2>5. VersionIsBacked'
    BY <2>2, <1>b DEF VersionIsBacked
  <2>6. StatementsOf(release[c]) \subseteq defined
    <3>1. CASE ConfirmRecord(c)
        BY <3>1 DEF ConfirmRecord, Applied
    <3>2. CASE ReadCurrent(c)
      <4>1. pc[c] = "apply" /\ next[c] = Len(Statements) + 1
        BY <3>2, <1>a, <1>c DEF ReadCurrent
      <4>2. \A i \in StatementsOf(release[c]) : i < next[c]
        BY <4>1, <1>a DEF StatementsOf
      <4> QED
        BY <4>1, <4>2 DEF Applied
    <3> QED
        BY <1>3, <3>1, <3>2
  <2>7. Applied(c)' /\ Recorded(c)'
    BY <2>1, <2>2, <2>6, <1>b DEF TypeOK, Applied, Recorded
  <2>8. \A d \in Connections : c # d => Applied(d)' /\ Recorded(d)'
    <3>1. next' = [next EXCEPT ![c] = next[c]]
        BY <2>2 DEF TypeOK
    <3> QED
        BY <2>1, <2>2, <3>1, OthersKeepApplied
  <2> QED
    BY <2>4, <2>5, <2>7, <2>8
<1>4. CASE CreateRecord(c) \/ RecordVersion(c)
  <2>1. PICK p \in {"confirm", "ready"} : pc' = [pc EXCEPT ![c] = p]
    BY <1>4 DEF CreateRecord, RecordVersion, Goto
  <2>2. version' \in Nat /\ version' \in {version, release[c]}
    BY <1>4, <1>a DEF CreateRecord, RecordVersion, TypeOK
  <2>3. newest' \in Nat
    BY <1>4, <1>a DEF CreateRecord, RecordVersion, Goto, TypeOK
  <2>4. UNCHANGED <<defined, next, began>>
    BY <1>4 DEF CreateRecord, RecordVersion
  <2>5. TypeOK'
    BY <2>1, <2>2, <2>3, <2>4 DEF TypeOK
  <2>6. StatementsOf(release[c]) \subseteq defined
    BY <1>4 DEF CreateRecord, RecordVersion, Applied
  <2>7. VersionIsBacked'
    BY <2>2, <2>4, <2>6, <1>b DEF VersionIsBacked
  <2>8. Applied(c)' /\ Recorded(c)'
    BY <2>1, <2>2, <2>4, <2>6, <1>b DEF TypeOK, Applied, Recorded
  <2>9. \A d \in Connections : c # d => Applied(d)' /\ Recorded(d)'
    <3>1. next' = [next EXCEPT ![c] = next[c]]
        BY <2>4 DEF TypeOK
    <3> QED
        BY <2>1, <2>2, <2>4, <3>1, OthersKeepApplied
  <2> QED
    BY <2>5, <2>7, <2>8, <2>9
<1>5. CASE Fail(c)
  <2>1. /\ pc' = [pc EXCEPT ![c] = "new"]
        /\ next' = [next EXCEPT ![c] = 1]
        /\ UNCHANGED <<version, defined, newest>>
    BY <1>5 DEF Fail
  <2>2. TypeOK'
    BY <1>5, <2>1, <1>a DEF Fail, TypeOK
  <2>3. VersionIsBacked'
    BY <2>1, <1>b DEF VersionIsBacked
  <2>4. Applied(c)' /\ Recorded(c)'
    BY <2>1 DEF TypeOK, Applied, Recorded
  <2>5. \A d \in Connections : c # d => Applied(d)' /\ Recorded(d)'
    BY <2>1, OthersKeepApplied
  <2> QED
    BY <2>2, <2>3, <2>4, <2>5
<1> QED
    BY <1>1, <1>2, <1>3, <1>4, <1>5

\* Whatever releases install and upgrade at once, and wherever they fail, every
\* statement of the recorded version is in force (ensure_schema).
THEOREM VersionAlwaysBacked == Spec => []VersionIsBacked
<1>1. SchemaInv => VersionIsBacked
    BY DEF SchemaInv
<1> QED
    BY <1>1, InitBacked, StepKeepsBacked, PTL DEF Spec

\* Every variable of the schema record and the connections keeps its type.
THEOREM SchemaTypeCorrect == Spec => []TypeOK
<1>1. SchemaInv => TypeOK
    BY DEF SchemaInv
<1> QED
    BY <1>1, InitBacked, StepKeepsBacked, PTL DEF Spec

-----------------------------------------------------------------------------
(* Rolling out one release at a time                                       *)

\* The versions the record can come to hold are numbers.
LEMMA KnownAreNumbers ==
    /\ KnownVersions \subseteq Nat
    /\ \A c \in Connections : release[c] \in KnownVersions
    BY SchemaAssumption DEF KnownVersions

\* The initial record is what the last finished release left.
LEMMA InitUpward == Init => UpwardInv
<1> SUFFICES ASSUME Init PROVE UpwardInv
    OBVIOUS
<1>1. version = None \/ version \in KnownVersions
    BY SchemaAssumption DEF Init, KnownVersions
<1>2. newest <= IF version = None THEN 0 ELSE version
    <2>1. version # None => version \in Nat
        BY SchemaAssumption DEF Init
    <2> QED
        BY <2>1 DEF Init
<1>3. \A c \in Connections : RecordsUpward(c) /\ BeganInTime(c)
    BY DEF Init, RecordsUpward, BeganInTime
<1> QED
    BY <1>1, <1>2, <1>3 DEF UpwardInv

\* A step of c that does not touch the record leaves the others as they are.
LEMMA OthersStayUpward ==
    ASSUME SchemaInv, UpwardInv, NEW c \in Connections, NEW d \in Connections,
           c # d, version' = version,
           NEW p, pc' = [pc EXCEPT ![c] = p],
           NEW b, began' = [began EXCEPT ![c] = b]
    PROVE  RecordsUpward(d)' /\ BeganInTime(d)'
<1>1. pc'[d] = pc[d] /\ began'[d] = began[d]
    BY DEF SchemaInv, TypeOK
<1>2. KnownVersions' = KnownVersions
    BY DEF KnownVersions
<1> QED
    BY <1>1, <1>2 DEF UpwardInv, RecordsUpward, BeganInTime

\* When releases are rolled out one at a time, the record only goes upward, so
\* that every step keeps the invariant.
LEMMA StepKeepsUpward ==
    ASSUME OneUpgradeAtATime, SchemaInv, UpwardInv, [Next]_vars
    PROVE  UpwardInv'
<1> USE SchemaAssumption
<1>k. /\ KnownVersions' = KnownVersions /\ KnownVersions \subseteq Nat
      /\ \A d \in Connections : release[d] \in Nat /\ release[d] # 0
                                /\ release[d] \in KnownVersions
    BY KnownAreNumbers DEF KnownVersions
<1>t. newest \in Nat /\ (version # None => version \in Nat)
      /\ \A d \in Connections : began[d] \in Nat
    BY DEF SchemaInv, TypeOK
<1>0. CASE UNCHANGED vars
    BY <1>0, <1>k DEF vars, UpwardInv, RecordsUpward, BeganInTime
<1> SUFFICES ASSUME NEW c \in Connections,
                    \/ ReadExisting(c) \/ ApplyStatement(c) \/ ReadCurrent(c)
                    \/ CreateRecord(c) \/ ConfirmRecord(c) \/ RecordVersion(c)
                    \/ Fail(c)
             PROVE  UpwardInv'
    BY <1>0 DEF Next
<1>1. CASE ReadExisting(c)
  <2>1. PICK p : /\ pc' = [pc EXCEPT ![c] = p] /\ newest' = newest
                 /\ \/ p = "raised"
                    \/ p = "apply" /\ (version # None => VersionSupported(c, version))
    BY <1>1 DEF ReadExisting, Goto
  <2>2. version' = version /\ began' = [began EXCEPT ![c] = newest]
    BY <1>1 DEF ReadExisting
  <2>3. pc'[c] = p /\ began'[c] = newest
    BY <2>1, <2>2 DEF SchemaInv, TypeOK
  <2>4. p = "apply" => newest <= release[c]
    BY <1>k, <1>t, <2>1 DEF UpwardInv, VersionSupported
  <2>5. RecordsUpward(c)' /\ BeganInTime(c)'
    BY <2>1, <2>3, <2>4 DEF RecordsUpward, BeganInTime
  <2>6. \A d \in Connections : c # d => RecordsUpward(d)' /\ BeganInTime(d)'
    BY <2>1, <2>2, OthersStayUpward
  <2> QED
    BY <1>k, <2>1, <2>2, <2>5, <2>6 DEF UpwardInv
<1>2. CASE ApplyStatement(c)
  <2>1. UNCHANGED <<version, pc, newest, began>>
    BY <1>2 DEF ApplyStatement
  <2> QED
    BY <1>k, <2>1 DEF UpwardInv, RecordsUpward, BeganInTime
<1>3. CASE ReadCurrent(c) \/ ConfirmRecord(c)
  <2>1. PICK p :
          /\ pc' = [pc EXCEPT ![c] = p]
          /\ \/ p \in {"create", "raised"} /\ newest' = newest
             \/ /\ p = "record" /\ newest' = newest
                /\ version # None /\ VersionSupported(c, version)
                /\ version < release[c]
             \/ /\ p = "ready"
                /\ newest' = IF release[c] > newest THEN release[c] ELSE newest
                /\ version # None /\ VersionSupported(c, version)
                /\ ~(version < release[c])
    <3>1. pc[c] = "confirm" => version # None
        BY DEF SchemaInv, Recorded
    <3> QED
        BY <1>3, <3>1 DEF ReadCurrent, ConfirmRecord, Judge, Goto
  <2>2. UNCHANGED <<version, began>> /\ pc[c] \in {"apply", "confirm"}
    BY <1>3 DEF ReadCurrent, ConfirmRecord
  <2>3. pc'[c] = p /\ began' = [began EXCEPT ![c] = began[c]]
    BY <2>1, <2>2 DEF SchemaInv, TypeOK
  <2>4. newest' <= IF version = None THEN 0 ELSE version
    BY <1>k, <1>t, <2>1 DEF UpwardInv, VersionSupported
  <2>5. RecordsUpward(c)'
    <3>1. p = "record" =>
            /\ version # None /\ version <= release[c]
            /\ version \in KnownVersions /\ MIN_SCHEMA_VERSION <= version
            /\ version < release[c] /\ version <= version
        BY <1>k, <1>t, <2>1 DEF UpwardInv, VersionSupported, MIN_SCHEMA_VERSION
    <3> QED
        BY <1>k, <2>2, <2>3, <3>1 DEF RecordsUpward
  <2>6. BeganInTime(c)'
    BY <2>2, <2>3 DEF UpwardInv, BeganInTime
  <2>7. \A d \in Connections : c # d => RecordsUpward(d)' /\ BeganInTime(d)'
    BY <2>1, <2>2, <2>3, OthersStayUpward
  <2> QED
    BY <1>k, <2>2, <2>4, <2>5, <2>6, <2>7 DEF UpwardInv
<1>4. CASE CreateRecord(c)
  <2>1. /\ pc' = [pc EXCEPT ![c] = "confirm"] /\ pc[c] = "create"
        /\ newest' = newest /\ UNCHANGED began
        /\ version' = IF version = None THEN release[c] ELSE version
    BY <1>4 DEF CreateRecord, Goto
  <2>2. pc'[c] = "confirm" /\ \A d \in Connections : c # d => pc'[d] = pc[d]
    BY <2>1 DEF SchemaInv, TypeOK
  <2>3. version' \in KnownVersions /\ version' # None
    BY <1>k, <2>1 DEF UpwardInv
  <2>4. newest' <= version'
    BY <1>k, <1>t, <2>1 DEF UpwardInv
  <2>5. ASSUME NEW d \in Connections
        PROVE  RecordsUpward(d)' /\ BeganInTime(d)'
    BY <1>k, <2>1, <2>2 DEF UpwardInv, RecordsUpward, BeganInTime
  <2> QED
    BY <1>k, <2>3, <2>4, <2>5 DEF UpwardInv
<1>5. CASE RecordVersion(c)
  <2>1. /\ pc' = [pc EXCEPT ![c] = "ready"] /\ pc[c] = "record"
        /\ newest' = IF release[c] > newest THEN release[c] ELSE newest
        /\ version' = release[c] /\ UNCHANGED began
    BY <1>5 DEF RecordVersion, Goto
  <2>2. pc'[c] = "ready" /\ \A d \in Connections : c # d => pc'[d] = pc[d]
    BY <2>1 DEF SchemaInv, TypeOK
  <2>3. version # None /\ version <= release[c]
    BY <2>1 DEF UpwardInv, RecordsUpward
  <2>4. newest' <= version' /\ version' # None
    BY <1>k, <1>t, <2>1, <2>3 DEF UpwardInv
  <2>5. ASSUME NEW d \in Connections, pc'[d] = "record"
        PROVE  RecordsUpward(d)'
    <3>1. pc[d] = "record"
        BY <2>2, <2>5
    <3>2. PICK v \in KnownVersions :
              MIN_SCHEMA_VERSION <= v /\ v < release[d] /\ v <= version
        BY <3>1 DEF UpwardInv, RecordsUpward
    <3>3. v \in Nat /\ v <= release[c]
        BY <1>k, <1>t, <2>3, <3>2
    <3>4. release[c] <= release[d]
        <4>1. CASE v = release[c]
            BY <1>k, <3>2, <4>1
        <4>2. CASE v # release[c]
            <5>1. v < release[c]
                BY <1>k, <3>3, <4>2
            <5>2. release[c] = release[d]
                BY <3>2, <5>1 DEF OneUpgradeAtATime
            <5> QED
                BY <1>k, <5>2
        <4> QED
            BY <4>1, <4>2
    <3> QED
        BY <1>k, <2>1, <2>4, <3>2, <3>3, <3>4 DEF RecordsUpward
  <2>6. ASSUME NEW d \in Connections
        PROVE  BeganInTime(d)'
    BY <2>1, <2>2 DEF UpwardInv, BeganInTime
  <2>7. ASSUME NEW d \in Connections
        PROVE  RecordsUpward(d)'
    BY <2>5 DEF RecordsUpward
  <2> QED
    BY <1>k, <2>1, <2>4, <2>6, <2>7 DEF UpwardInv
<1>6. CASE Fail(c)
  <2>1. /\ pc' = [pc EXCEPT ![c] = "new"] /\ began' = [began EXCEPT ![c] = 0]
        /\ UNCHANGED <<version, newest>>
    BY <1>6 DEF Fail
  <2>2. RecordsUpward(c)' /\ BeganInTime(c)'
    BY <2>1 DEF SchemaInv, TypeOK, RecordsUpward, BeganInTime
  <2>3. \A d \in Connections : c # d => RecordsUpward(d)' /\ BeganInTime(d)'
    BY <2>1, OthersStayUpward
  <2> QED
    BY <1>k, <2>1, <2>2, <2>3 DEF UpwardInv
<1> QED
    BY <1>1, <1>2, <1>3, <1>4, <1>5, <1>6

\* While releases are rolled out one at a time, the version record stays at or
\* above every release that finished ensure_schema.
THEOREM RecordGoesUpward == OneUpgradeAtATime => (Spec => []UpwardInv)
<1> SUFFICES ASSUME OneUpgradeAtATime PROVE Spec => []UpwardInv
    OBVIOUS
<1>1. SchemaInv /\ UpwardInv /\ [Next]_vars => UpwardInv'
    BY StepKeepsUpward
<1> QED
    BY <1>1, InitBacked, StepKeepsBacked, InitUpward, PTL DEF Spec

\* While releases are rolled out one at a time, a connection that begins after a
\* newer release has finished ensure_schema never becomes ready, however many
\* connections install, upgrade and fail at once.  Without the condition this
\* is false: two upgrades from one version may record theirs in either order.
THEOREM NewerDatabaseAlwaysRejected ==
    OneUpgradeAtATime => (Spec => []NewerDatabaseIsRejected)
<1> SUFFICES ASSUME OneUpgradeAtATime
             PROVE  Spec => []NewerDatabaseIsRejected
    OBVIOUS
<1>1. UpwardInv => NewerDatabaseIsRejected
    BY DEF UpwardInv, BeganInTime, NewerDatabaseIsRejected
<1>2. Spec => []UpwardInv
    BY RecordGoesUpward
<1> QED
    BY <1>1, <1>2, PTL
=============================================================================
