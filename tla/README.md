# Verification of the ActiveGraph SurrealDB provider

TLA+ models, model-checking runs and machine-checked proofs for
`src/src/activegraph_surrealdb`: an event store and a graph projection kept in
SurrealDB tables and used by several processes at once.

## The system

| Part | State it keeps | Operations | How it interacts |
|---|---|---|---|
| `SurrealEventStore` (`event_store.py`) | `ag_run` (head: `next_seq`, `head_hash`; lineage and labels), `ag_event` (rows chained by hash); per handle the head it last observed | constructor, `append`, `truncate_after`, `fork_prefix`, `upsert_run`, `verify_integrity`, `iter_events`, reads, `close` | handles share nothing but the database; a lock serialises the threads of one handle |
| `SurrealGraphStore` (`graph_store.py`) | `ag_projection.status`, `ag_vertex`, `ag_relation`, `ag_patch`; per store `_rebuilding_here` | `put_*`, `remove_*`, reads and query hooks, `begin_rebuild`, `clear`, `mark_ready`, `mark_failed` | called by the framework after each accepted event, and by `replay_graph` |
| `replay_graph` (`runtime.py`) | none | rebuilds a projection from the log | reads an event store, drives a graph store |
| `SurrealConnection` (`connection.py`, `schema.surql`) | the schema version record | `ensure_schema`, queries, transactions | one connection and session per store |
| `serde.py`, `keys.py` | none | event hash, conversions, record keys | pure functions |
| query hooks of `SurrealGraphStore` (`graph_store.py`) | none | `query_objects`, `neighborhood`, filtered selects | several queries per answer, with others writing between them; the framework finishes what `query_objects` leaves over |
| `harness.py`, polls of `runtime.py` | `sys.path`, `sys.modules`, the two stores of a runtime | `build_runtime`, `close`, `import_pack`, `wait_until_ready`, `wait_until_unavailable` | opens and closes both stores; probes the server |
| `config.py`, `errors.py` | none | validation, exception types | - |

What is hard here:

- the optimistic protocol: a handle writes only on the head it last observed,
  and the conflict on the run record is all that orders competing writers;
- reads that take two queries, with other handles committing between them;
- a commit whose answer is lost, and what the handle does next;
- forks that copy rows read before their transaction began;
- the projection: status check and access are two queries, `clear` is three, a
  replay is many, and each of them may fail or be cut off by a crash;
- the log and the projection are written by separate transactions: an append
  may be accepted and never projected;
- a graph walk of one query per level, while the graph changes;
- construction and teardown of several connections, each step of which may
  raise, and imports that depend on the imports before.

What makes each part correct: the event store keeps one verifiable log per run
and behaves like an atomic log; the projection, when it is ready and nothing
failed or bypassed it since its last replay, shows the graph that the log means,
and once it is not ready it becomes so only through a completed replay; a query answers as the in-memory store does; no call leaves a socket
behind, and a runtime's packs come from one checkout.

## Modules

| Module | Contents |
|---|---|
| `EventLog` | abstract specification: a log per run that is created, extended by one event, cut to a prefix, or forked |
| `EventStore` | the tables, the handles and every operation that writes, query by query; the properties; the refinement of `EventLog` |
| `EventStoreInv` | the inductive invariants `IInv` and `RInv` |
| `EventStoreProofs` | the ledger, the optimistic protocol and the verified read, proved |
| `EventStoreRefinement` | the proof that `EventStore` implements `EventLog`; forks, metadata and cuts |
| `MCEventStore` | instances for TLC |
| `GraphStore` | the projection tables and the stores, query by query |
| `Replay` | the event log beside the projection: live writes, `replay_graph`, crashes; the properties |
| `ReplayProofs` | proofs about the projection and its replay |
| `MCReplay` | instances for TLC |
| `Queries` | `query_objects` and `neighborhood` on tables that other stores write; the in-memory store as the reference |
| `QueriesProofs` | proofs about the walk and the object queries |
| `SetInduction` | a lemma: induction over the natural numbers for sets |
| `MCQueries` | an instance for TLC |
| `Harness` | `build_runtime`, `close`, `import_pack` and the polls for a server, step by step |
| `HarnessProofs` | proofs about sockets and packs |
| `MCHarness` | an instance for TLC |
| `Schema` | `ensure_schema` of connections that run different releases |
| `SchemaProofs` | proofs about the statements in force and the version record |
| `MCSchema` | instances for TLC |

Definitions named `X_Something` directly above a definition `X` are variants of
it with a plausible mistake; no specification uses them. Each shows that some
property would notice the mistake.

### EventStore

`ag_run` and `ag_event` are the tables of one scope. A handle is bound to a run
(`run`), remembers `_expected_next_seq` and `_expected_head_hash` (`expected`)
and is at one query of one call (`pc`, `call`, `rows`). A transaction is what it
will write (`tx`), computed at its beginning, and `doomed`, which a competing
commit sets.

| Code | Actions |
|---|---|
| `__init__`, `_ensure_run` | `OpenHandle`, `EnsureRunCreate`, `ReadRows`, `OpenDone` / `VerifyFails` |
| `verify_integrity`, `iter_events` | `StartVerify`, `ReadRows`, `VerifyDone` / `VerifyFails` |
| `append`, `truncate_after` | `AppendBegin`, `TruncateBegin`, then the end of the transaction |
| `fork_prefix` | `StartFork`, `ReadRows`, `ForkCheckParent`, `ForkCheckDestination`, `ForkBegin`, then the end of the transaction |
| `transaction.commit()` and its `except` | `CommitAcknowledged`, `CommitUnacknowledged`, `TransactionFails`, `Raise` |
| `upsert_run` | `UpsertRun` (the read), `MergeRun` (`UPDATE ... MERGE`) |
| `close` | `Close` (also a crash) |

`IterEvents` is what `iter_events(after, until)` makes of verified rows, with
`BoundarySeq` for the boundaries and `None` for the `EventNotFoundError` that a
boundary outside the run (not `Known`) raises; it is compared with the cuts of
`truncate_after` and `fork_prefix` in every state (`CutsAgree`). A run record is
never deleted, so that the branch of `upsert_run` which creates one is not
reached by an open handle.

Abstractions. A hash is the list of everything hashed into it: SHA-256 is taken
to be collision-free. An event is its id and its type. `label` stands for every
free-text field of a run. The database is external: a transaction reads one
snapshot, commits atomically, and fails when a record it writes was committed by
another in the meantime. Every transaction that writes events of a run writes the run record too, so
conflicts are tracked on run records. A transaction's reads and its staged
writes are one step, since nothing it does before its commit is visible to
others. `fork_prefix` finally opens a handle on the child; in the model that is
an `OpenHandle` of a further handle. In `_raise_if_concurrent` the words of the
error are abstracted to whether the failure was a conflict.

### GraphStore and Replay

`status`, `vertex`, `relation` and `patch` are the rows of one run; a vertex is
absent, a placeholder or an object. A store works through the writes it was
given (`todo`), each preceded by its own status query (`AssertWritable`). Every
query may fail without effect (`QueryFails`) or take effect and still raise (the
second disjunct of `Done` and of the lifecycle actions). `put_relation` is a
transaction and one step. That is exact for one writer only: the transaction
reads endpoints that exist and writes the others, so that a second writer's
`DELETE ag_vertex` could commit in between without a conflict. `DELETE ag_vertex` deletes the edges that meet the
vertices, which is why `remove_object` leaves a placeholder.

`Replay` adds the log and, for each writing process, whether its event store
handle has observed the log as it is (`current`). On the live path the framework
appends the event and then hands its writes to the store (`Emit`); what an event
writes is the framework's business, so an event carries its list of writes. The
append may also take effect without an answer, and nothing is projected
(`EmitUnheard`); a handle that has not observed the log is refused
(`EmitRejected`) until its process opens its stores again (`Open`).
`replay_graph` is `StartReplay`, `BeginRebuild`, the three `Clear` actions,
`ReadEvents`, the writes, `MarkReady`, and on any exception `MarkFailed`, whose
own failure is suppressed. `DirectWrite`, `DirectClear` and `Truncate` put the
projection out of step with its log, as a caller may. The log actions are atomic
and conditional on `current` because the event store refines `EventLog`
(`ImplementsEventLog`) and by `WritesAreOnObservedLog`; `ReadEvents` is atomic by
`VerifiedReadsAreAtomic`. `GraphOf` is the reference: a fold of the writes over
plain maps, without placeholders.

`Writers` are the stores of the run's one logical writer, the discipline the
documentation states ("`ConcurrentWriterError` enforces one logical writer per
run"). Module `Replay` assumes that there is at most one (`OneWriterAssumption`);
it may crash and come back, beside any number of readers and constructors.

### Queries

The vertex and relation tables are written by whole statements (`CreateObject`,
`RemoveObject`, `PutRelation`, `RemoveRelation`, `ClearVertices`); the status
checks of the calls are `GraphStore`'s subject. `neighborhood` is one action per
query: `Neighborhood` (`get_object` on the start), `Level` for each level,
`ObjectsByLogicalIds`, `RelationsByLogicalIds`, and `Return`, which is also
where a failed query ends the call. `history` records which edges and objects
were there at some time and which all the time of the walk. `QueryObjects` and
`Finish` are operators: the database's part of a query and the framework's. `Finish` answers `exists` before it applies the limit, and a limit may be zero. An
identifier is its type, its counter and its place in the order of strings, so
that creation order and string order differ; counters grow with creation, as the
framework's do, and at most the first object has an identifier without one.
Outside are identifiers with the same counter, and one that is put again after
its object was removed (the framework uses an identifier once; a replay, which
clears the tables first, is inside). A predicate is the set of objects it holds
of. Relations come back in no order: that query has no `ORDER BY`.

### Harness

One thread runs the calls of a process. `Connect`, `SignIn` and `Construct` are
the steps of opening a store, each with its failing outcome and the cleanup it
does; `Assemble` is the construction of the `Graph` and the `Runtime`, which may raise;
`stack` is the `ExitStack`, `Unwind` its callbacks, `CloseHandle` the
`try/finally` of `close`. Closing a connection always releases the socket and may
raise, since `close_session` comes before it in a `try`. `Import` is
`import_pack`: `EnsureImportable`, `EvictForeignPacks`, and the import system as
the code relies on it (`ImportModule`, external). A wait is a loop of polls whose
probe is opened, asked and closed; the clock is left out, so that the deadline
may fall at any poll. While a handle is held, packs may be imported from any
checkout; a second `build_runtime` or a wait meanwhile is left out, since it would
open and close sockets of its own.

### Schema

A connection reads the version record (`ReadExisting`), applies the statements
of `schema.surql` one query each (`ApplyStatement`), reads the record again
(`ReadCurrent`), creates it when it is absent (`CreateRecord`, `ConfirmRecord`)
and records its own version when that is higher (`RecordVersion`). A statement
is known by the version that added it, and a release has the statements up to
its `SCHEMA_VERSION`: the algorithm of this commit is assumed for the other
releases too. `newest` and `began` are history variables for the property.

## Runs

| Run | Instance | Shows |
|---|---|---|
| `event_store_fork` | 2 handles, 2 runs, 2 events | `LedgerIntact`: every stored run verifies at every instant; `WritesOnObservedLog`; `ForkCopiesInclusivePrefix`; `ImplementsEventLog`: every commit is one abstract step; `RInv`, the invariant of its proof |
| `event_store_rewrite` | 2 handles, 1 run, 2 events of 2 types, a label | the tail is replaced by different events of the same number: `WritesOnObservedLog`, `VerifiedReadIsAtomic` and `IInv`, with the run relabelled meanwhile; `CutsAgree`: reading, truncating and forking cut a log at the same place |
| `event_store_meta` | 2 handles, 2 runs, 1 event of 2 types, a label, fairness | `MetadataNeverCleared` for forks that are reloaded and relabelled; compacted logs are never forked (`ImplementsEventLog`); `CallsTerminate` |
| `replay` | a writer and a reader, 2 objects, a relation, a patch, 5 kinds of events, logs of up to 2, fairness | `ReadyMeansReplayed`, `EndpointsHaveVertices`, `RevivedOnlyByReplay`, `ReplayEndsDecided`, and the invariant `ProjectionInv` |
| `schema_mixed` | 3 connections of releases 2, 2 and 3; databases that are fresh, at version 2, 3, 4 or 0 | `VersionIsBacked`, `NewerDatabaseIsRejected`, and the invariant `UpwardInv` |
| `queries` | 3 objects of 2 types, 2 relations over 5 pairs of endpoints (both directions, a cycle, a loop), depths -1, 1 and 2, 2 writes during a walk | `NeighborhoodIsBracketed`: the walk returns nothing that was never there and misses nothing that always was; `QueriesMatchMemory` for every plan; the invariant `WalkInv` |
| `harness` | 3 checkouts, 2 of which lack a pack, 3 lists of modules, 3 polls, fairness | `NoSocketLeaks`, `PacksOfOneCheckout`, `CallsEnd`, and the invariant `HInv` |

Bounds. A conflict, a lost update or a stale read needs two handles; a third one
only repeats the role of the second. Two event ids are enough for a head to move
away and to come back at the same length with other contents, and for a prefix
that is proper. Two runs are a parent and a child. Logs are bounded by the
number of event ids (an id occurs once in a run) and, in `Replay`, by
`LogBound`; an event there has up to two writes, so that two events create an
object, relate it to one that does not exist, and remove or change it, and a
truncation makes room for others. What an earlier log and direct writes left in
the tables is there for the next replay. Three vertices allow a cycle and a
shortest path that a write cuts or shortens; two writes during a walk can take
an edge away behind the frontier and put it back elsewhere. Three checkouts
allow one to be asked for, pushed back by a second and skipped by a third.
The theorems below have no bounds.

Symmetry (handles, runs, event ids) is used in `event_store_fork` and
`event_store_rewrite`, which check no liveness.

Fairness. `FairSpec` asks that a call in progress keeps going (`WF` of
`Continue`): operations are straight-line code, without retries or waiting for
other handles, in a thread that the operating system schedules, and a query is
answered or raises. In `Harness` it is the one thread of the process that goes
on; that a wait polls only `Polls` times before its deadline is the deadline's
doing. Nothing is assumed about which outcome a step has, about
callers, or about crashes not happening.

### Where the code and its documentation differ

| Run | What TLC shows |
|---|---|
| `event_store_integrity_error` | `LedgerIntegrityError` ("The persisted event sequence or hash chain is inconsistent.") is raised over an intact ledger: a reader gets the rows, another handle appends, the reader gets the new head. The read is safe to retry; the error does not say so. |
| `replay_half_built` | A replay fails and recording the failure fails too. `_rebuilding_here` stays set and the status stays `rebuilding`, so the same store then serves the half-built graph, against "normal reads must fail closed". The run has one store. With a second one, a reader that checked the status just before a rebuild began is another way. |
| `schema_downgrade` | A version 1 database is upgraded by two releases at once: the older reads version 1, the newer records 3, the older records 2. A later connection of the older release then accepts it, against "a database written by a newer provider is rejected". |
| `harness_imports` | Importing from checkout A, then B, then A again returns B's module: A is still in `sys.path`, behind B, and is not moved ("so the requested root wins"). |
| `harness_wait` | A server stops between a poll's connection and its query. Closing the broken connection raises in the `finally` clause and ends the wait with that error, before the deadline, although `close` is a "best-effort" teardown. |

## Proofs

Every invariant and every safety action property that a passing run checks is
also a theorem: it holds for every value of the constants, with no bound on
handles, logs, objects or writes. The inductive invariants are checked by a run
as well. The assumptions are the `ASSUME`s of the modules (`None` is none of the
other values, records have their fields, a number of polls is a number, counters grow with creation, a projection has one
writer); one group of theorems has a hypothesis of its own, named below.

| Theorem | States | Hypothesis |
|---|---|---|
| `InvariantHolds`, `TypeCorrect`, `LedgerAlwaysIntact` | `IInv`, `TypeOK`, `LedgerIntact` | |
| `VerifiedReadsAreAtomic`, `WritesAreOnObservedLog` | the action properties | |
| `MeaningHolds`, `EventStoreImplementsEventLog` | `RInv`, `ImplementsEventLog` | |
| `ForksCopyInclusivePrefix`, `MetadataIsNeverCleared`, `CutsAlwaysAgree` | the properties of forks, `upsert_run` and cuts | |
| `StoresInvariant`, `ReplayTypeCorrect`, `EndpointsAlwaysHaveVertices` | `StoresInv`, `TypeOK`, `EndpointsHaveVertices` | (`OneWriterAssumption`) |
| `ProjectionInvariant`, `ReadyIsReplayed`, `RevivalIsReplay` | `ProjectionInv`, `ReadyMeansReplayed`, `RevivedOnlyByReplay` | (`OneWriterAssumption`) |
| `WalkInvariant`, `QueriesTypeCorrect`, `NeighborhoodAlwaysBracketed`, `QueriesAlwaysMatchMemory` | `WalkInv`, `TypeOK`, `NeighborhoodIsBracketed`, `QueriesMatchMemory` | |
| `HarnessInvariant`, `HarnessTypeCorrect`, `SocketsNeverLeak`, `PacksAreOfOneCheckout` | `HInv`, `TypeOK`, `NoSocketLeaks`, `PacksOfOneCheckout` | |
| `SchemaTypeCorrect`, `VersionAlwaysBacked` | `TypeOK`, `VersionIsBacked` | |
| `RecordGoesUpward`, `NewerDatabaseAlwaysRejected` | `UpwardInv`, `NewerDatabaseIsRejected` | `OneUpgradeAtATime` |

### The ledger (`EventStoreProofs`)

`LedgerIntact` is not inductive: it says what is stored, and a commit is only as
good as what was staged. `IInv` adds three things. First, it describes a run
constructively: the rows are exactly those that the links of the head hash spell
out (`IsRun`), from which the checks of `_verified_rows_and_run` follow
(`RunVerifies`). Second, rows read by a call in progress are the rows of some
chain, and after verification those of the expected head (`RowsOK`). Third, a
staged transaction that nobody doomed still finds the head it was computed from,
and turns a sound run into a sound run (`TxOK`). The lemmas `AppendChain`,
`TruncateChain` and `ForkChain` are the three ways of making a chain;
`StepKeepsInv` says that a step which writes the run records `W` need only be
examined for its own handle and for `W`, because it dooms everyone else who
writes there. `VerifiedReadIsAtomic` then follows from `VerifiedIsRun`: rows
that form a chain and pass the check of a head are that head's rows.

### The abstract log (`EventStoreRefinement`)

`IInv` says that a commit leaves a sound run, not which one. `RInv` adds what a
staged transaction means, read against the head its handle expects: one fresh
event more, a prefix, or the prefix of an uncompacted log that ends with the fork
point (`TxMeans`); and that a fork past its checks has an uncompacted log. A
step then commits, creates a run, relabels one, or leaves the run records alone.
A commit finds the expected head in the table (`TxOK`), so that its meaning is a
step of `EventLog` (`CommitIsLogStep`); a creation is `CreateRun`; the others
change no log.

### The projection (`ReplayProofs`)

`StoresInv` is about each store by itself: a store's position tells which
call it is in and what it has left (`ControlOK`), and no relation lacks a vertex
record, because `put_relation` creates both in its transaction, `remove_object`
leaves a placeholder, and deleting vertices deletes their edges.

`ReadyMeansReplayed` needs the tables of a rebuild in progress related to the
writes still to come. `ProjectionInv` says so: a replay has cleared what its
position tells, and from `ReadEvents` on there is an `n` such that the tables
hold the first `n` writes of the log and the store is left with the others
(`HoldsPrefix`); the same for an emit on a settled, ready projection. The lemmas
`WritesOf...` and `GraphOf...` say how the two folds grow by one write.

`ReadyMeansReplayed` speaks of a settled projection: since the last completed
replay every event was projected without an error and nothing else was written.
A projection that was created for a run with events, that missed an event whose
append was not acknowledged, or whose log was truncated is ready and stale; what
is shown of those is that the next replay repairs them (`RevivedOnlyByReplay`).

`OneWriterAssumption` is the discipline the documentation asks for ("one logical
writer per run"), and is needed. Nothing owns the status, so that a second writer
could mark the first one's half-built projection ready; and it could delete a
vertex that a `put_relation` in progress has only read, so that
`EndpointsHaveVertices` depends on it too. The writer may crash, lose
answers, be refused, bypass its log and come back; readers and constructors are
not restricted.

### Queries (`QueriesProofs`)

`NeighborhoodIsBracketed` speaks of a finished walk. `WalkInv` says it of a walk
under way, level by level: what was seen is within as many steps of the edges
that ever were (`WalkSound`), and everything within as many steps of the edges
that stayed was seen, with nothing left to follow behind the frontier
(`WalkComplete`). A write in between only enlarges the one set of edges and
shrinks the other (`WalkMonotone`); `LevelSound` and `LevelComplete` are the step
of a level, from `BallGrows` and `BallStep`. A walk that ends early has an empty
frontier, so that what it saw is closed under the edges that stayed
(`BallClosed`).

`QueriesMatchMemory` rests on `MemoryOK`, the first part of `WalkInv`: the
in-memory store lists the objects of the vertex table in the order of the query.
A set of objects has exactly one such list (`SortedFacts`, `ListsUnique`), and
filters and limits keep lists lists (`FilterLists`, `UptoLists`).

### Harness (`HarnessProofs`)

`HInv` says for every position which sockets are open and what the `ExitStack`
holds (`SocketsOK`), and that loaded packs and cached modules belong to the
cached package, which a further import from the same checkout finds again while
packs are being loaded (`PacksOK`).

### Schema (`SchemaProofs`)

`VersionIsBacked` follows from an invariant which adds that a connection in the
loop has applied its release's statements up to the next one, and all of them
once it has left the loop (`Applied`), which is what makes recording its version
sound; statements are never undone, so no step of another connection can disturb
that (`OthersKeepApplied`).

`NewerDatabaseIsRejected` is false in general (`schema_downgrade`).
`OneUpgradeAtATime` says where it is true: from no version that a database can be
at do connections of two different releases upgrade. Then a connection about to
record its release finds no higher one (`RecordsUpward`), and the record never
falls behind a release that finished (`UpwardInv`). Installing a fresh database
with two releases at once is within the hypothesis.

### How the folds are proved

`WritesOf`, `GraphOf` and `Filter` are recursive functions, and lists have any
length. `SetInduction` proves induction for sets of numbers from the library's
`WFMin`; the existence and the equations of a recursive function are then proved
for an explicit predicate on functions (`IsWrites`, `IsGraphs`, `IsFilter`).

### Only model-checked

The liveness properties `CallsTerminate`, `ReplayEndsDecided` and `CallsEnd`:
fairness and `ENABLED` are beyond the prover. The five properties that the code
violates are, of course, not theorems.

## Not modelled

- Reads of one query: `get_event`, `count`, `get_run`, `run_exists`,
  `most_recent_run_id`, `inspect_run_artifacts`, `find_relations`,
  `find_objects_in_types`. They change nothing and cannot be interleaved.
- `match_chain` is the framework's; `raw_query` passes any statement on.
- Field-by-field serialisation and record keys: pure, covered by unit tests;
  the models assume that hashes and keys do not collide.
- Configuration and its validation, packaging, tools.
- `begin_rebuild`, `mark_ready` and `mark_failed` called by anyone but
  `replay_graph`.
- Two writers of one projection. The log refuses the second one, the projection
  does not; the documentation asks for one logical writer per run
  (`docs/upgrade-plan.md`).
- Checkouts whose `packs` is a namespace package, and several threads of a
  process importing at once, for which `import_pack` is not written.
- The copy of `goal` and `frame_id` from a parent that is relabelled during a
  fork: free text that nothing depends on.

## Plan

1. Done: `EventLog`, `EventStore`, `Schema`, `GraphStore`, `Replay`, `Queries`
   and `Harness`, model-checked; all their safety properties proved.
2. Left: what holds without the assumption of one writer and the hypothesis of
   one upgrade at a time. With several writers, a later
   replay by the only writer left repairs the projection; with several releases
   upgrading at once, what a finished connection may still rely on beyond
   `VersionIsBacked`. For `GraphStore`, when a read that passed its status check
   is served from a complete graph, the positive side of `replay_half_built`.
