------------------------------ MODULE EventLog ------------------------------
(***************************************************************************)
(* What an event store promises its callers: every run is one sequence of  *)
(* events, changed only by creating the run empty, appending one event at  *)
(* the end, cutting the sequence back to a prefix, or copying a prefix of  *)
(* another run into a run that did not exist.                              *)
(*                                                                         *)
(* EventStore implements this specification with database rows, a head     *)
(* record per run and optimistic transactions.                             *)
(***************************************************************************)
EXTENDS Integers, Sequences

CONSTANTS Runs,         \* logical run identifiers of one scope
          EventIds,     \* logical event identifiers
          EventTypes    \* event types; a compacted log starts with SnapshotType

VARIABLES created,      \* the runs that exist
          log           \* the events of each run, in order

vars == <<created, log>>

SnapshotType == "runtime.snapshot"

Event == [id : EventIds, type : EventTypes]

Init ==
    /\ created = {}
    /\ log = [r \in Runs |-> <<>>]

CreateRun(r) ==
    /\ r \notin created
    /\ created' = created \cup {r}
    /\ UNCHANGED log

\* An event identifier occurs at most once in a run.
AppendEvent(r, e) ==
    /\ r \in created
    /\ \A i \in DOMAIN log[r] : log[r][i].id # e.id
    /\ log' = [log EXCEPT ![r] = Append(@, e)]
    /\ UNCHANGED created

\* Keep the events up to and including position n.
TruncateAfter(r, n) ==
    /\ r \in created
    /\ log' = [log EXCEPT ![r] = SubSeq(@, 1, n)]
    /\ UNCHANGED created

\* Copy the first n events of an uncompacted run into a fresh run.
ForkPrefix(parent, child, n) ==
    /\ parent \in created
    /\ child \notin created
    /\ log[parent][1].type # SnapshotType
    /\ created' = created \cup {child}
    /\ log' = [log EXCEPT ![child] = SubSeq(log[parent], 1, n)]

Next ==
    \E r \in Runs :
        \/ CreateRun(r)
        \/ \E e \in Event : AppendEvent(r, e)
        \/ \E n \in DOMAIN log[r] :
              \/ TruncateAfter(r, n)
              \/ \E child \in Runs : ForkPrefix(r, child, n)

Spec == Init /\ [][Next]_vars
=============================================================================
