------------------------------- MODULE Replay -------------------------------
(***************************************************************************)
(* The projection of a run beside its event log: the live path, on which   *)
(* the framework appends an event and then hands its writes to the graph   *)
(* store, and replay_graph (runtime.py), which rebuilds the projection     *)
(* from the whole log.                                                     *)
(*                                                                         *)
(* The log is the one of module EventStore, seen through a store handle of *)
(* the process: appends and truncations are atomic, succeed only on a      *)
(* handle that has observed the log as it is, and may succeed without the  *)
(* handle hearing of it; iter_events returns one committed log             *)
(* (EventStoreProofs!VerifiedReadsAreAtomic).                              *)
(*                                                                         *)
(* Writers is the graph store of the run's one logical writer, or empty;   *)
(* any number of other stores open the projection and read it.             *)
(***************************************************************************)
EXTENDS GraphStore

CONSTANTS Writers,      \* the stores that write and rebuild
          Events,       \* the events of the framework
          DirectWrites, \* the writes callers make without an event
          LogBound      \* bound: the number of events a log may have

\* What an event makes the framework write is external; the log only records
\* the event.  The first event of a compacted log is a snapshot.
Event == [type : {"graph", "runtime.snapshot"}, writes : Seq(Write)]

ASSUME ReplayAssumption ==
    /\ Writers \subseteq Stores
    /\ Events \subseteq Event
    /\ DirectWrites \subseteq Write
    /\ LogBound \in Nat

\* The run has one logical writer, as its documentation demands.
OneWriter == \A s, t \in Writers : s = t

\* GraphStore!PutRelation is one step on the strength of this.
ASSUME OneWriterAssumption == OneWriter

VARIABLES
    log,        \* the events of the run
    current,    \* the event store handle beside a store has observed this log
    settled     \* history: since the last completed replay, every event was
                \* projected without an error, and nothing else was written

vars == <<status, vertex, relation, patch, pc, job, todo, rebuilding_here,
          outcome, log, current, settled>>

\* Every variable ranges over the values the code gives it.
TypeOK ==
    /\ StoreTypeOK
    /\ log \in Seq(Events)
    /\ current \in [Writers -> BOOLEAN]
    /\ settled \in BOOLEAN

-----------------------------------------------------------------------------
(* Reference: the graph a history of writes means, without placeholders    *)

EmptyGraph == [object |-> [o \in Objects |-> None],
               relation |-> [k \in Relations |-> None],
               patch |-> [p \in Patches |-> None]]

Effect(g, w) ==
    CASE w.op = "put_object"      -> [g EXCEPT !.object[w.id] = w.value]
      [] w.op = "remove_object"   -> [g EXCEPT !.object[w.id] = None]
      [] w.op = "put_relation"    -> [g EXCEPT !.relation[w.id] = w.value]
      [] w.op = "remove_relation" -> [g EXCEPT !.relation[w.id] = None]
      [] w.op = "put_patch"       -> [g EXCEPT !.patch[w.id] = w.value]
      [] w.op = "remove_patch"    -> [g EXCEPT !.patch[w.id] = None]

\* The writes of the events, in the order of the log.
WritesOf(es) ==
    LET W[n \in 0 .. Len(es)] ==
            IF n = 0 THEN <<>> ELSE W[n - 1] \o es[n].writes
    IN  W[Len(es)]

\* The graph after the writes ws.
GraphOf(ws) ==
    LET G[n \in 0 .. Len(ws)] ==
            IF n = 0 THEN EmptyGraph ELSE Effect(G[n - 1], ws[n])
    IN  G[Len(ws)]

-----------------------------------------------------------------------------
(* Actions                                                                 *)

\* A run may have events, a fork's prefix for one, before it has a projection.
Init ==
    /\ StoreInit
    /\ \E n \in 0 .. LogBound : log \in [1 .. n -> Events]
    /\ current = [s \in Writers |-> FALSE]
    /\ settled = (log = <<>>)

\* The log changes; of all handles only that of s hears of it, and that only
\* when told is TRUE.
Commit(s, told) == current' = [t \in Writers |-> t = s /\ told]

\* Graph.emit: the append is accepted, and the projection follows.
Emit(s, e) ==
    /\ current[s]
    /\ Len(log) < LogBound
    /\ StartWrites(s, "emit", e.writes)
    /\ log' = Append(log, e)
    /\ Commit(s, TRUE)
    /\ UNCHANGED settled

\* The append is accepted and its answer lost: the framework sees an error and
\* projects nothing.
EmitUnheard(s, e) ==
    /\ pc[s] = "idle" /\ current[s]
    /\ Len(log) < LogBound
    /\ log' = Append(log, e)
    /\ Commit(s, FALSE)
    /\ Returns(s, "raised")
    /\ settled' = FALSE
    /\ UNCHANGED <<status, tables, rebuilding_here>>

\* ConcurrentWriterError: the handle has not observed the log as it is.
EmitRejected(s) ==
    /\ pc[s] = "idle" /\ ~current[s]
    /\ Returns(s, "raised")
    /\ UNCHANGED <<status, tables, rebuilding_here, log, current, settled>>

\* A write or a clear() that no event stands behind.
DirectWrite(s, w) ==
    /\ StartWrites(s, "direct", <<w>>)
    /\ settled' = FALSE
    /\ UNCHANGED <<log, current>>

DirectClear(s) ==
    /\ StartJob(s, "direct", "del_relation")
    /\ settled' = FALSE
    /\ UNCHANGED <<log, current>>

\* truncate_after rewrites the log and leaves the projection alone.
Truncate(s) ==
    /\ pc[s] = "idle" /\ current[s]
    /\ \E n \in 1 .. Len(log) - 1 : log' = SubSeq(log, 1, n)
    /\ \E told \in BOOLEAN : Commit(s, told)
    /\ settled' = FALSE
    /\ UNCHANGED storeVars

StartReplay(s) ==
    /\ StartJob(s, "replay", "rebuild")
    /\ UNCHANGED <<log, current, settled>>

Compacted(es) == es # <<>> /\ es[1].type = "runtime.snapshot"

\* list(event_store.iter_events()): the history to apply.
ReadEvents(s) ==
    /\ pc[s] = "events"
    /\ \/ Compacted(log) /\ Raises(s)
       \/ /\ ~Compacted(log)
          /\ todo' = [todo EXCEPT ![s] = WritesOf(log)]
          /\ pc' = [pc EXCEPT ![s] =
                       IF WritesOf(log) = <<>> THEN "ready" ELSE "check"]
          /\ outcome' = [outcome EXCEPT ![s] = "none"]
          /\ UNCHANGED job
    /\ UNCHANGED <<status, tables, rebuilding_here, log, current, settled>>

\* What a step of the store means for the history variable.
Settles(s) ==
    settled' = \/ job[s] = "replay" /\ job'[s] = "none" /\ outcome'[s] = "ok"
               \/ settled /\ (job[s] = "emit" => job'[s] = "emit"
                                                 \/ outcome'[s] = "ok")

\* One more step of the call s is in.
Continue(s) ==
    \/ ReadEvents(s)
    \/ StoreStep(s) /\ Settles(s) /\ UNCHANGED <<log, current>>

Interrupt(s) ==
    /\ QueryFails(s) \/ Close(s)
    /\ Settles(s)
    /\ current' = [t \in Writers |-> current[t] /\ pc'[t] # "closed"]
    /\ UNCHANGED log

\* A process opens its two stores; the event store's constructor observes the
\* log.
Open(s) ==
    /\ OpenStore(s)
    /\ current' = [t \in Writers |-> t = s \/ current[t]]
    /\ UNCHANGED <<log, settled>>

Next ==
    \/ \E s \in Stores :
          \/ Continue(s)
          \/ Interrupt(s)
          \/ Open(s)
          \/ StartRead(s) /\ UNCHANGED <<log, current, settled>>
    \/ \E s \in Writers :
          \/ \E e \in Events : Emit(s, e) \/ EmitUnheard(s, e)
          \/ EmitRejected(s)
          \/ \E w \in DirectWrites : DirectWrite(s, w)
          \/ DirectClear(s)
          \/ Truncate(s)
          \/ StartReplay(s)

Spec == Init /\ [][Next]_vars

\* A call in progress goes on as long as its thread and the server run.
FairSpec == Spec /\ \A s \in Stores : WF_vars(Continue(s))

-----------------------------------------------------------------------------
(* Properties                                                              *)

Quiet == \A s \in Writers : job[s] \in {"none", "read"}

\* Whenever the status is ready and no write is under way, the graph that
\* readers see is the one the log means, unless an event's projection failed
\* or the projection was written without an event since the last replay
\* (replay_graph, put_*, remove_*, clear).
ReadyMeansReplayed ==
    status = "ready" /\ Quiet /\ settled => Visible = GraphOf(WritesOf(log))

\* A relation that the run's one writer made never outlives the vertex records
\* of its endpoints, removed objects and dangling endpoints included
\* (put_relation, remove_object, clear).
EndpointsHaveVertices ==
    \A k \in Relations :
        relation[k] # None =>
            /\ vertex[relation[k].source] # None
            /\ vertex[relation[k].target] # None

\* A projection that is being rebuilt, or whose rebuild failed, becomes ready
\* only by the last step of a replay, with the graph that the log means and
\* never over a compacted log: no constructor that raced with the rebuild, no
\* failed query and no earlier content shows through (begin_rebuild, clear,
\* replay_graph, _ensure_projection_record).
RevivedOnlyByReplay ==
    [][(status \in {"rebuilding", "failed"} /\ status' = "ready") =>
          /\ \E s \in Writers : job[s] = "replay" /\ pc[s] = "ready"
          /\ Visible' = GraphOf(WritesOf(log))
          /\ log # <<>> => log[1].type # "runtime.snapshot"]_vars

\* Every replay_graph ends, and ends with the status ready or failed unless
\* even mark_failed could not be recorded or the store was closed.
ReplayEndsDecided ==
    \A s \in Writers :
        job[s] = "replay" ~>
            /\ job[s] # "replay"
            /\ \/ status \in {"ready", "failed"}
               \/ outcome[s] = "unrecorded"
               \/ pc[s] = "closed"

\* "A failed replay remains failed/incomplete, and normal reads must fail
\* closed rather than serve a half-built graph": a read outside replay_graph
\* is served from a ready projection only (_assert_readable).
ReadsFailClosed ==
    [][\A s \in Stores : ServeRead(s) => status = "ready"]_vars


-----------------------------------------------------------------------------
(* Inductive invariants                                                    *)

\* What a store is doing says which call it is in and what it has left to do.
ControlOK(s) ==
    /\ pc[s] \in {"closed", "create", "idle"} => job[s] = "none"
    /\ pc[s] = "read" => job[s] = "read"
    /\ pc[s] \in {"check", "write", "upsert"} =>
          job[s] \in {"direct", "emit", "replay"} /\ todo[s] # <<>>
    /\ pc[s] = "upsert" => Head(todo[s]).op = "remove_object"
    /\ pc[s] \in {"del_relation", "del_patch", "del_vertex"} =>
          job[s] \in {"direct", "replay"}
    /\ pc[s] \in {"rebuild", "events", "ready", "failing"} => job[s] = "replay"
    /\ pc[s] \notin {"check", "write", "upsert", "failing"} => todo[s] = <<>>
    /\ job[s] \in {"direct", "emit", "replay"} => s \in Writers

\* Store by store the control is consistent, and no relation of the tables
\* lacks the vertex record of an endpoint (put_relation, remove_object,
\* clear).
StoresInv ==
    /\ TypeOK
    /\ \A s \in Stores : ControlOK(s)
    /\ EndpointsHaveVertices

\* The tables hold the first writes of the log, and s is left with the others.
HoldsPrefix(s) ==
    LET H == WritesOf(log)
    IN  \E n \in 0 .. Len(H) :
            /\ Visible = GraphOf(SubSeq(H, 1, n))
            /\ todo[s] = SubSeq(H, n + 1, Len(H))

\* How far a replay has come: what it cleared, and then what it applied.
ReplayOK(s) ==
    job[s] = "replay" =>
        /\ pc[s] \notin {"rebuild", "failing"} => status = "rebuilding"
        /\ pc[s] \in {"del_patch", "del_vertex"} =>
              relation = EmptyGraph.relation
        /\ pc[s] = "del_vertex" => patch = EmptyGraph.patch
        /\ pc[s] = "events" => Visible = EmptyGraph
        /\ pc[s] \in {"check", "write", "upsert", "ready"} =>
              HoldsPrefix(s) /\ ~Compacted(log)

\* A ready projection whose history is settled holds the log, or a prefix of
\* it that an emit is extending; and a replay has applied a prefix of the log
\* and is left with the rest (emit, replay_graph, begin_rebuild, clear,
\* mark_ready, mark_failed).
ProjectionInv ==
    /\ StoresInv
    /\ status = None =>
          /\ Visible = EmptyGraph
          /\ settled => log = <<>>
          /\ \A s \in Stores : pc[s] \in {"closed", "create"}
    /\ \A s \in Writers : ReplayOK(s)
    /\ \A s \in Writers : job[s] = "direct" => ~settled
    /\ \A s \in Writers :
          status = "ready" /\ settled /\ job[s] = "emit" => HoldsPrefix(s)
    /\ status = "ready" /\ settled /\ (\A s \in Writers : job[s] # "emit") =>
          Visible = GraphOf(WritesOf(log))
=============================================================================
