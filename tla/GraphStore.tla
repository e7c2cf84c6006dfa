----------------------------- MODULE GraphStore -----------------------------
(***************************************************************************)
(* The SurrealDB graph projection of one run (graph_store.py): the tables  *)
(* ag_projection, ag_vertex, ag_relation and ag_patch restricted to that   *)
(* run, and the SurrealGraphStore objects that read and write them, each   *)
(* on a connection of its own.                                             *)
(*                                                                         *)
(* A call first asks for the projection status and only then, in another   *)
(* query, touches the tables; the steps of different stores interleave     *)
(* between the queries.  Any query may fail, with or without having taken  *)
(* effect.  put_relation is a transaction and is one step here, which is   *)
(* exact only while no other store writes: the transaction merely reads an *)
(* endpoint that exists, so a vertex another store deletes before the      *)
(* commit would not conflict with it.  The modules that extend this one    *)
(* have a single store write.                                              *)
(*                                                                         *)
(* What calls a store is given by the modules that extend this one.        *)
(***************************************************************************)
EXTENDS Integers, Sequences

CONSTANTS Stores,       \* SurrealGraphStore objects (any process)
          Objects,      \* logical object identifiers
          Relations,    \* logical relation identifiers
          Patches,      \* logical patch identifiers
          Contents,     \* what an object or a patch may hold
          None          \* SurrealDB's NONE

Placeholder == "placeholder"

Statuses == {"ready", "rebuilding", "failed"}

Ends == [source : Objects, target : Objects]

ASSUME ContentsAssumption ==
    /\ None \notin Contents \cup Ends \cup Statuses \cup {Placeholder}
    /\ Placeholder \notin Contents

\* The calls that change the tables, with their arguments.
Write == [op : {"put_object"}, id : Objects, value : Contents]
    \cup [op : {"remove_object"}, id : Objects]
    \cup [op : {"put_relation"}, id : Relations, value : Ends]
    \cup [op : {"remove_relation"}, id : Relations]
    \cup [op : {"put_patch"}, id : Patches, value : Contents]
    \cup [op : {"remove_patch"}, id : Patches]

VARIABLES
    status,             \* ag_projection.status, None when there is no record
    vertex,             \* ag_vertex: None, a placeholder, or an object
    relation,           \* ag_relation: None or the endpoints
    patch,              \* ag_patch: None or the patch
    pc,                 \* where each store is in its current call
    job,                \* what the call is part of
    todo,               \* the writes still to be made
    rebuilding_here,    \* _rebuilding_here
    outcome             \* how the store's last call ended

tables == <<vertex, relation, patch>>
storeVars == <<status, vertex, relation, patch, pc, job, todo,
               rebuilding_here, outcome>>

PCs == {"closed", "create", "idle", "read", "check", "write", "upsert",
        "rebuild", "del_relation", "del_patch", "del_vertex", "events",
        "ready", "failing"}

StoreTypeOK ==
    /\ status \in Statuses \cup {None}
    /\ vertex \in [Objects -> Contents \cup {Placeholder, None}]
    /\ relation \in [Relations -> Ends \cup {None}]
    /\ patch \in [Patches -> Contents \cup {None}]
    /\ pc \in [Stores -> PCs]
    /\ job \in [Stores -> {"none", "read", "direct", "emit", "replay"}]
    /\ todo \in [Stores -> Seq(Write)]
    /\ rebuilding_here \in [Stores -> BOOLEAN]
    /\ outcome \in [Stores -> {"none", "ok", "raised", "unrecorded"}]

StoreInit ==
    /\ status = None
    /\ vertex = [o \in Objects |-> None]
    /\ relation = [k \in Relations |-> None]
    /\ patch = [p \in Patches |-> None]
    /\ pc = [s \in Stores |-> "closed"]
    /\ job = [s \in Stores |-> "none"]
    /\ todo = [s \in Stores |-> <<>>]
    /\ rebuilding_here = [s \in Stores |-> FALSE]
    /\ outcome = [s \in Stores |-> "none"]

\* The graph as readers see it: a placeholder is no object.
Visible ==
    [object |-> [o \in Objects |->
                    IF vertex[o] = Placeholder THEN None ELSE vertex[o]],
     relation |-> relation,
     patch |-> patch]

-----------------------------------------------------------------------------
(* Control of a store                                                      *)

\* The call goes on at the query named by p.
Goto(s, p) ==
    /\ pc' = [pc EXCEPT ![s] = p]
    /\ outcome' = [outcome EXCEPT ![s] = "none"]
    /\ UNCHANGED <<job, todo>>

Returns(s, o) ==
    /\ pc' = [pc EXCEPT ![s] = "idle"]
    /\ job' = [job EXCEPT ![s] = "none"]
    /\ todo' = [todo EXCEPT ![s] = <<>>]
    /\ outcome' = [outcome EXCEPT ![s] = o]

\* Variant: a failed replay does not reach mark_failed.
Raises_Unmarked(s) == Returns(s, "raised")

\* An exception leaves the call; replay_graph catches it to mark the
\* projection failed.
Raises(s) ==
    IF job[s] = "replay" THEN Goto(s, "failing") ELSE Returns(s, "raised")

\* The first write of todo is done.
Advance(s) ==
    IF Len(todo[s]) = 1 /\ job[s] # "replay"
    THEN Returns(s, "ok")
    ELSE /\ pc' = [pc EXCEPT ![s] =
                      IF Len(todo[s]) = 1 THEN "ready" ELSE "check"]
         /\ todo' = [todo EXCEPT ![s] = Tail(todo[s])]
         /\ outcome' = [outcome EXCEPT ![s] = "none"]
         /\ UNCHANGED job

\* A query that took effect is acknowledged, or the caller gets an error.
Done(s) == Advance(s) \/ Raises(s)

\* A query fails without effect.
QueryFails(s) ==
    /\ pc[s] \in {"create", "read", "check", "write", "upsert", "rebuild",
                  "del_relation", "del_patch", "del_vertex", "events", "ready"}
    /\ IF pc[s] = "create"
       THEN /\ pc' = [pc EXCEPT ![s] = "closed"]
            /\ outcome' = [outcome EXCEPT ![s] = "raised"]
            /\ UNCHANGED <<job, todo>>
       ELSE Raises(s)
    /\ UNCHANGED <<status, tables, rebuilding_here>>

\* close(), or the death of the process.
Close(s) ==
    /\ pc[s] # "closed"
    /\ pc' = [pc EXCEPT ![s] = "closed"]
    /\ job' = [job EXCEPT ![s] = "none"]
    /\ todo' = [todo EXCEPT ![s] = <<>>]
    /\ rebuilding_here' = [rebuilding_here EXCEPT ![s] = FALSE]
    /\ outcome' = [outcome EXCEPT ![s] = "none"]
    /\ UNCHANGED <<status, tables>>

-----------------------------------------------------------------------------
(* The constructor: _ensure_projection_record                              *)

OpenStore(s) ==
    /\ pc[s] = "closed"
    /\ Goto(s, IF status = None THEN "create" ELSE "idle")
    /\ UNCHANGED <<status, tables, rebuilding_here>>

\* Variant: the record is written whether or not it exists.
EnsureProjectionRecord_Upserts(s) ==
    /\ pc[s] = "create"
    /\ Goto(s, "idle")
    /\ status' = "ready"
    /\ UNCHANGED <<tables, rebuilding_here>>

\* CREATE fails on a record that another constructor or a rebuild wrote since
\* the read; the re-read then finds it and the constructor goes on.
EnsureProjectionRecord(s) ==
    /\ pc[s] = "create"
    /\ Goto(s, "idle")
    /\ status' = IF status = None THEN "ready" ELSE status
    /\ UNCHANGED <<tables, rebuilding_here>>

-----------------------------------------------------------------------------
(* The guard of every read and write: _assert_readable                     *)

Readable(s) == status = "ready" \/ (status = "rebuilding" /\ rebuilding_here[s])

StartRead(s) ==
    /\ pc[s] = "idle"
    /\ IF Readable(s)
       THEN /\ pc' = [pc EXCEPT ![s] = "read"]
            /\ job' = [job EXCEPT ![s] = "read"]
            /\ outcome' = [outcome EXCEPT ![s] = "none"]
            /\ UNCHANGED todo
       ELSE Returns(s, "raised")
    /\ UNCHANGED <<status, tables, rebuilding_here>>

\* The query behind the guard returns what is in the tables.
ServeRead(s) ==
    /\ pc[s] = "read"
    /\ Returns(s, "ok")
    /\ UNCHANGED <<status, tables, rebuilding_here>>

AssertWritable(s) ==
    /\ pc[s] = "check"
    /\ \/ Readable(s) /\ Goto(s, "write")
       \/ ~Readable(s) /\ Raises(s)
    /\ UNCHANGED <<status, tables, rebuilding_here>>

-----------------------------------------------------------------------------
(* Writes                                                                  *)

\* The write at hand is an op.
Writing(s, op) == pc[s] = "write" /\ Head(todo[s]).op = op

PutObject(s) ==
    /\ Writing(s, "put_object")
    /\ vertex' = [vertex EXCEPT ![Head(todo[s]).id] = Head(todo[s]).value]
    /\ Done(s)
    /\ UNCHANGED <<status, relation, patch, rebuilding_here>>

\* remove_object looks whether there is a record ...
RemoveObject(s) ==
    /\ Writing(s, "remove_object")
    /\ IF vertex[Head(todo[s]).id] = None THEN Advance(s) ELSE Goto(s, "upsert")
    /\ UNCHANGED <<status, tables, rebuilding_here>>

\* Variant: the record is deleted, and the database deletes its edges.
PutPlaceholder_Deletes(s) ==
    /\ pc[s] = "upsert"
    /\ LET o == Head(todo[s]).id
       IN  /\ vertex' = [vertex EXCEPT ![o] = None]
           /\ relation' = [k \in Relations |->
                 IF relation[k] = None THEN None
                 ELSE IF o \in {relation[k].source, relation[k].target}
                      THEN None
                      ELSE relation[k]]
    /\ Done(s)
    /\ UNCHANGED <<status, patch, rebuilding_here>>

\* ... and turns it into a placeholder.
PutPlaceholder(s) ==
    /\ pc[s] = "upsert"
    /\ vertex' = [vertex EXCEPT ![Head(todo[s]).id] = Placeholder]
    /\ Done(s)
    /\ UNCHANGED <<status, relation, patch, rebuilding_here>>

\* Variant: only the source is given a record.
EnsurePlaceholders_Source(ends) ==
    [vertex EXCEPT ![ends.source] = IF @ = None THEN Placeholder ELSE @]

\* _ensure_placeholder_in_transaction, for both endpoints.
EnsurePlaceholders(ends) ==
    [o \in Objects |->
        IF o \in {ends.source, ends.target} /\ vertex[o] = None
        THEN Placeholder
        ELSE vertex[o]]

\* The transaction that looks at the endpoints and writes the edge.
PutRelation(s) ==
    /\ Writing(s, "put_relation")
    /\ vertex' = EnsurePlaceholders(Head(todo[s]).value)
    /\ relation' = [relation EXCEPT ![Head(todo[s]).id] = Head(todo[s]).value]
    /\ Done(s)
    /\ UNCHANGED <<status, patch, rebuilding_here>>

RemoveRelation(s) ==
    /\ Writing(s, "remove_relation")
    /\ relation' = [relation EXCEPT ![Head(todo[s]).id] = None]
    /\ Done(s)
    /\ UNCHANGED <<status, vertex, patch, rebuilding_here>>

PutPatch(s) ==
    /\ Writing(s, "put_patch")
    /\ patch' = [patch EXCEPT ![Head(todo[s]).id] = Head(todo[s]).value]
    /\ Done(s)
    /\ UNCHANGED <<status, vertex, relation, rebuilding_here>>

RemovePatch(s) ==
    /\ Writing(s, "remove_patch")
    /\ patch' = [patch EXCEPT ![Head(todo[s]).id] = None]
    /\ Done(s)
    /\ UNCHANGED <<status, vertex, relation, rebuilding_here>>

-----------------------------------------------------------------------------
(* Projection lifecycle                                                    *)

\* begin_rebuild records the status first and then remembers that this store
\* is the one rebuilding; clear() follows.
BeginRebuild(s) ==
    /\ pc[s] = "rebuild"
    /\ status' = "rebuilding"
    /\ \/ /\ Goto(s, "del_relation")
          /\ rebuilding_here' = [rebuilding_here EXCEPT ![s] = TRUE]
       \/ Raises(s) /\ UNCHANGED rebuilding_here
    /\ UNCHANGED tables

ClearRelations(s) ==
    /\ pc[s] = "del_relation"
    /\ relation' = [k \in Relations |-> None]
    /\ Goto(s, "del_patch") \/ Raises(s)
    /\ UNCHANGED <<status, vertex, patch, rebuilding_here>>

ClearPatches(s) ==
    /\ pc[s] = "del_patch"
    /\ patch' = [p \in Patches |-> None]
    /\ Goto(s, "del_vertex") \/ Raises(s)
    /\ UNCHANGED <<status, vertex, relation, rebuilding_here>>

\* Where clear() returns to.
Cleared(s) == IF job[s] = "replay" THEN Goto(s, "events") ELSE Returns(s, "ok")

\* Variant: the vertices are left in place.
ClearVertices_Forgotten(s) ==
    /\ pc[s] = "del_vertex"
    /\ Cleared(s) \/ Raises(s)
    /\ UNCHANGED <<status, tables, rebuilding_here>>

\* Deleting a vertex makes the database delete the edges that meet it: every
\* edge of the run, all of whose vertices go.
ClearVertices(s) ==
    /\ pc[s] = "del_vertex"
    /\ vertex' = [o \in Objects |-> None]
    /\ relation' = [k \in Relations |-> None]
    /\ Cleared(s) \/ Raises(s)
    /\ UNCHANGED <<status, patch, rebuilding_here>>

MarkReady(s) ==
    /\ pc[s] = "ready"
    /\ status' = "ready"
    /\ \/ /\ Returns(s, "ok")
          /\ rebuilding_here' = [rebuilding_here EXCEPT ![s] = FALSE]
       \/ Raises(s) /\ UNCHANGED rebuilding_here
    /\ UNCHANGED tables

\* Variant: the diagnostic is stored as the status.
MarkFailed_Swapped(s) ==
    /\ pc[s] = "failing"
    /\ status' = "projection rebuild failed"
    /\ rebuilding_here' = [rebuilding_here EXCEPT ![s] = FALSE]
    /\ Returns(s, "raised")
    /\ UNCHANGED tables

\* mark_failed; replay_graph suppresses an error of its own, after which the
\* flag is as it was and the status may be as well.
MarkFailed(s) ==
    /\ pc[s] = "failing"
    /\ \/ /\ status' = "failed"
          /\ rebuilding_here' = [rebuilding_here EXCEPT ![s] = FALSE]
          /\ Returns(s, "raised")
       \/ /\ status' \in {status, "failed"}
          /\ UNCHANGED rebuilding_here
          /\ Returns(s, "unrecorded")
    /\ UNCHANGED tables

-----------------------------------------------------------------------------
(* Calls                                                                   *)

\* The store is handed the writes ws.
StartWrites(s, j, ws) ==
    /\ pc[s] = "idle"
    /\ pc' = [pc EXCEPT ![s] = IF ws = <<>> THEN "idle" ELSE "check"]
    /\ job' = [job EXCEPT ![s] = IF ws = <<>> THEN "none" ELSE j]
    /\ todo' = [todo EXCEPT ![s] = ws]
    /\ outcome' = [outcome EXCEPT ![s] = "none"]
    /\ UNCHANGED <<status, tables, rebuilding_here>>

StartJob(s, j, p) ==
    /\ pc[s] = "idle"
    /\ pc' = [pc EXCEPT ![s] = p]
    /\ job' = [job EXCEPT ![s] = j]
    /\ outcome' = [outcome EXCEPT ![s] = "none"]
    /\ UNCHANGED <<status, tables, todo, rebuilding_here>>

\* The steps that take a call in progress one query further.
StoreStep(s) ==
    \/ EnsureProjectionRecord(s) \/ ServeRead(s) \/ AssertWritable(s)
    \/ PutObject(s) \/ RemoveObject(s) \/ PutPlaceholder(s)
    \/ PutRelation(s) \/ RemoveRelation(s) \/ PutPatch(s) \/ RemovePatch(s)
    \/ BeginRebuild(s) \/ ClearRelations(s) \/ ClearPatches(s)
    \/ ClearVertices(s) \/ MarkReady(s) \/ MarkFailed(s)

=============================================================================
