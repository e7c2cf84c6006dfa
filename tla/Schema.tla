------------------------------- MODULE Schema -------------------------------
(***************************************************************************)
(* Installing and upgrading the provider schema (ensure_schema in          *)
(* connection.py): connections of several processes read the version       *)
(* record, apply the statements of schema.surql one query at a time, and   *)
(* record the version, each without a transaction around it.               *)
(*                                                                         *)
(* The processes may run different releases of the provider, as they do    *)
(* while a deployment is upgraded: a release is its SCHEMA_VERSION and the *)
(* part of schema.surql that existed then.                                 *)
(***************************************************************************)
EXTENDS Integers, Sequences

CONSTANTS Connections,      \* SurrealConnection objects
          release,          \* SCHEMA_VERSION of the process of a connection
          Statements,       \* for each statement, the version that added it
          InitialVersions,  \* the versions a database may have been left at
          None              \* there is no version record

MIN_SCHEMA_VERSION == 1

ASSUME SchemaAssumption ==
    /\ release \in [Connections -> Nat \ {0}]
    /\ Statements \in Seq(Nat \ {0})
    /\ InitialVersions \subseteq Nat \cup {None}
    /\ None \notin Nat

VARIABLES
    version,    \* ag_schema.version
    defined,    \* the statements in force, by their place in the file
    pc,         \* where each connection is in ensure_schema
    next,       \* the place in the file of its next statement
    newest,     \* history: the newest release that finished ensure_schema
    began       \* history: newest, when the connection began

vars == <<version, defined, pc, next, newest, began>>

\* The part of the file that release v has.
StatementsOf(v) == {i \in DOMAIN Statements : Statements[i] <= v}

\* Every variable ranges over the values the code gives it.
TypeOK ==
    /\ version \in Nat \cup {None}
    /\ defined \subseteq DOMAIN Statements
    /\ pc \in [Connections -> {"new", "apply", "create", "confirm", "record",
                               "ready", "raised"}]
    /\ next \in [Connections -> 1 .. Len(Statements) + 1]
    /\ newest \in Nat
    /\ began \in [Connections -> Nat]

\* A database that was never used, or that some release left behind complete.
Init ==
    /\ version \in InitialVersions
    /\ defined = IF version = None THEN {} ELSE StatementsOf(version)
    /\ pc = [c \in Connections |-> "new"]
    /\ next = [c \in Connections |-> 1]
    /\ newest = IF version = None THEN 0 ELSE version
    /\ began = [c \in Connections |-> 0]

-----------------------------------------------------------------------------

\* Variant: a newer version is not refused.
VersionSupported_Newer(c, v) == v >= MIN_SCHEMA_VERSION

\* _assert_schema_version
VersionSupported(c, v) == v >= MIN_SCHEMA_VERSION /\ v <= release[c]

Goto(c, p) ==
    /\ pc' = [pc EXCEPT ![c] = p]
    /\ newest' = IF p = "ready" /\ release[c] > newest THEN release[c]
                                                       ELSE newest

\* Variant: a database that has a version record is taken to be complete.
ReadExisting_SkipsStatements(c) ==
    /\ pc[c] = "new"
    /\ began' = [began EXCEPT ![c] = newest]
    /\ IF version = None \/ VersionSupported(c, version)
       THEN Goto(c, "apply")
       ELSE Goto(c, "raised")
    /\ next' = [next EXCEPT ![c] = IF version = None THEN 1
                                   ELSE Len(Statements) + 1]
    /\ UNCHANGED <<version, defined>>

\* The first look at the version record: a version that is not supported is
\* refused before any statement is applied.
ReadExisting(c) ==
    /\ pc[c] = "new"
    /\ began' = [began EXCEPT ![c] = newest]
    /\ IF version = None \/ VersionSupported(c, version)
       THEN Goto(c, "apply")
       ELSE Goto(c, "raised")
    /\ UNCHANGED <<version, defined, next>>

\* Variant: the loop runs past the end of the file.
ApplyStatement_PastEnd(c) ==
    /\ pc[c] = "apply"
    /\ next[c] <= Len(Statements) + 1
    /\ next' = [next EXCEPT ![c] = @ + 1]
    /\ UNCHANGED <<version, defined, pc, newest, began>>

\* One statement of the file, IF NOT EXISTS.
ApplyStatement(c) ==
    /\ pc[c] = "apply"
    /\ next[c] \in DOMAIN Statements
    /\ defined' = IF Statements[next[c]] <= release[c]
                  THEN defined \cup {next[c]}
                  ELSE defined
    /\ next' = [next EXCEPT ![c] = @ + 1]
    /\ UNCHANGED <<version, pc, newest, began>>

\* What follows from the version record once the statements are applied.
Judge(c) ==
    CASE ~VersionSupported(c, version) -> Goto(c, "raised")
      [] VersionSupported(c, version) /\ version < release[c] ->
             Goto(c, "record")
      [] OTHER -> Goto(c, "ready")

\* The second look.
ReadCurrent(c) ==
    /\ pc[c] = "apply"
    /\ next[c] \notin DOMAIN Statements
    /\ IF version = None THEN Goto(c, "create") ELSE Judge(c)
    /\ UNCHANGED <<version, defined, next, began>>

\* CREATE fails when a connection constructed at the same time was faster;
\* either way the record is read once more.
CreateRecord(c) ==
    /\ pc[c] = "create"
    /\ version' = IF version = None THEN release[c] ELSE version
    /\ Goto(c, "confirm")
    /\ UNCHANGED <<defined, next, began>>

ConfirmRecord(c) ==
    /\ pc[c] = "confirm"
    /\ Judge(c)
    /\ UNCHANGED <<version, defined, next, began>>

\* UPDATE ... SET version, whatever the record says by now.
RecordVersion(c) ==
    /\ pc[c] = "record"
    /\ version' = release[c]
    /\ Goto(c, "ready")
    /\ UNCHANGED <<defined, next, began>>

\* A query fails or the process dies; another connection starts over.
Fail(c) ==
    /\ pc[c] # "new"
    /\ pc' = [pc EXCEPT ![c] = "new"]
    /\ next' = [next EXCEPT ![c] = 1]
    /\ began' = [began EXCEPT ![c] = 0]
    /\ UNCHANGED <<version, defined, newest>>

Next ==
    \E c \in Connections :
        \/ ReadExisting(c) \/ ApplyStatement(c) \/ ReadCurrent(c)
        \/ CreateRecord(c) \/ ConfirmRecord(c) \/ RecordVersion(c)
        \/ Fail(c)

Spec == Init /\ [][Next]_vars

-----------------------------------------------------------------------------

\* Whatever installs, upgrades and failures interleave, the recorded version is
\* never ahead of the statements in force: "Record the higher version only
\* after that DDL has succeeded" (ensure_schema).
VersionIsBacked == version # None => StatementsOf(version) \subseteq defined

\* "A database written by a newer provider is rejected": a connection that
\* began after a newer release had finished ensure_schema does not become ready
\* (_assert_schema_version).
NewerDatabaseIsRejected ==
    \A c \in Connections : pc[c] = "ready" => began[c] <= release[c]

-----------------------------------------------------------------------------
(* When a newer database is rejected: a condition on the deployment, and   *)
(* the inductive invariant it makes possible.                              *)

\* The versions the record can come to hold.
KnownVersions ==
    (InitialVersions \ {None}) \cup {release[c] : c \in Connections}

\* From no version do connections of two different releases upgrade: releases
\* are rolled out one at a time.
OneUpgradeAtATime ==
    \A v \in KnownVersions : \A c, d \in Connections :
        /\ MIN_SCHEMA_VERSION <= v
        /\ v < release[c]
        /\ v < release[d]
        => release[c] = release[d]

\* A connection about to record its release read an older version, and the
\* record is not ahead of its release.
RecordsUpward(c) ==
    pc[c] = "record" =>
        /\ version # None
        /\ version <= release[c]
        /\ \E v \in KnownVersions :
              MIN_SCHEMA_VERSION <= v /\ v < release[c] /\ v <= version

\* A connection that was not refused began when no newer release had finished.
BeganInTime(c) == pc[c] \notin {"new", "raised"} => began[c] <= release[c]

\* The record never falls behind a release that finished.
UpwardInv ==
    /\ version = None \/ version \in KnownVersions
    /\ newest <= IF version = None THEN 0 ELSE version
    /\ \A c \in Connections : RecordsUpward(c) /\ BeganInTime(c)

=============================================================================
