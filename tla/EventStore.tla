----------------------------- MODULE EventStore -----------------------------
(***************************************************************************)
(* The SurrealDB event store (event_store.py): the ag_run and ag_event     *)
(* tables of one scope, and the SurrealEventStore handles, each bound to   *)
(* one run, that read and write them from separate connections.            *)
(*                                                                         *)
(* A handle remembers the run head it last observed and refuses to write   *)
(* when the stored head differs.  Writes are one transaction; everything   *)
(* else a handle does is a sequence of single-query reads and writes, and  *)
(* the steps of different handles interleave between the queries.          *)
(*                                                                         *)
(* The database is external: a transaction reads the state at its begin,   *)
(* and commits unless a record it writes was committed by someone else     *)
(* in the meantime.  Every transaction that writes event rows of a run     *)
(* also writes the run's record, so conflicts are tracked on run records.  *)
(***************************************************************************)
EXTENDS Integers, Sequences, FiniteSets

CONSTANTS Handles,      \* SurrealEventStore objects (any process)
          Runs,         \* run identifiers of the scope
          EventIds,     \* logical event identifiers
          EventTypes,   \* event types
          Labels,       \* run labels; they stand for every free-text field
          Patches,      \* the metadata patches callers hand to upsert_run
          None          \* SurrealDB's NONE

SnapshotType == "runtime.snapshot"

Event == [id : EventIds, type : EventTypes]

\* SHA-256 over scope, run, sequence number, event and previous hash is taken
\* to be free of collisions, so a hash is the list of all it was computed from.
Link == [run_id : Runs, seq : Nat, event : Event]
Hash == Seq(Link)
NoHash == <<>>

event_hash(r, seq, e, previous) ==
    Append(previous, [run_id |-> r, seq |-> seq, event |-> e])

\* Rows of ag_event.  The record id is a function of (run_id, event.id).
EventRow == [run_id : Runs, seq : Nat, event : Event,
             previous_hash : Hash, hash : Hash]

\* Rows of ag_run: the head that transactions compare, and the metadata.
RunHead == [next_seq : Nat, head_hash : Hash]
EmptyHead == [next_seq |-> 0, head_hash |-> NoHash]

Meta == [parent_run_id : Runs \cup {None},
         forked_at_event_id : EventIds \cup {None},
         label : Labels \cup {None}]
NoMeta == [parent_run_id |-> None, forked_at_event_id |-> None, label |-> None]

RunRow == [head : RunHead, meta : Meta]

ASSUME NoneAssumption ==
    /\ None \notin Runs \cup EventIds \cup Labels
    /\ None \notin RunRow

ASSUME PatchesAssumption == Patches \subseteq Meta

VARIABLES
    ag_run,     \* the run record of each run, None when absent
    ag_event,   \* the set of event rows
    pc,         \* where each handle is in its current call
    run,        \* the run a handle is bound to
    expected,   \* _expected_next_seq and _expected_head_hash
    rows,       \* the event rows read so far by the call
    call,       \* the call in progress and its arguments
    tx,         \* the writes staged in the handle's open transaction
    doomed,     \* a record the transaction writes was committed by another
    outcome     \* how the handle's last call ended

db == <<ag_run, ag_event>>
handle == <<run, expected>>
vars == <<ag_run, ag_event, pc, run, expected, rows, call, tx, doomed, outcome>>

-----------------------------------------------------------------------------
(* State                                                                   *)

PCs == {"closed", "create", "rows", "run", "idle", "dest", "begin", "staged",
        "raise", "merge"}

\* child, at and label are the arguments of fork_prefix; upsert_run passes its
\* parent_run_id, forked_at_event_id and label in the same places.
Call == [op : {"none", "open", "verify", "append", "truncate", "fork", "upsert"},
         child : Runs \cup {None}, at : EventIds \cup {None},
         label : Labels \cup {None}]
NoCall == [op |-> "none", child |-> None, at |-> None, label |-> None]

\* head: the new head of the handle's own run; create, delete: event rows;
\* child_head: the head of the child run a fork creates.
Tx == [head : RunHead, create : SUBSET EventRow, delete : SUBSET EventRow,
       child_head : RunHead]
NoTx == [head |-> EmptyHead, create |-> {}, delete |-> {},
         child_head |-> EmptyHead]

Outcomes == {"none", "ok", "Error", "LedgerIntegrityError",
             "ConcurrentWriterError", "DuplicateEventError",
             "EventNotFoundError", "UnsupportedCompactedRunError",
             "ForkPointNotFoundError", "RunAlreadyExistsError"}

\* Every variable ranges over the values the code gives it.
TypeOK ==
    /\ ag_run \in [Runs -> RunRow \cup {None}]
    /\ ag_event \in SUBSET EventRow
    /\ pc \in [Handles -> PCs]
    /\ run \in [Handles -> Runs \cup {None}]
    /\ expected \in [Handles -> RunHead]
    /\ rows \in [Handles -> SUBSET EventRow]
    /\ call \in [Handles -> Call]
    /\ tx \in [Handles -> Tx]
    /\ doomed \in [Handles -> BOOLEAN]
    /\ outcome \in [Handles -> Outcomes]

Init ==
    /\ ag_run = [r \in Runs |-> None]
    /\ ag_event = {}
    /\ pc = [h \in Handles |-> "closed"]
    /\ run = [h \in Handles |-> None]
    /\ expected = [h \in Handles |-> EmptyHead]
    /\ rows = [h \in Handles |-> {}]
    /\ call = [h \in Handles |-> NoCall]
    /\ tx = [h \in Handles |-> NoTx]
    /\ doomed = [h \in Handles |-> FALSE]
    /\ outcome = [h \in Handles |-> "none"]

Exists(r) == ag_run[r] # None

RowsOf(r) == {x \in ag_event : x.run_id = r}

\* The row whose record id is (r, id), as a set of at most one row.
RowsNamed(r, id) == {x \in RowsOf(r) : x.event.id = id}

-----------------------------------------------------------------------------
(* Verification of a run: _verified_rows_and_run                           *)

\* hash is what a record that follows the first n rows must link to.
LinksTo(rs, n, hash) ==
    IF n = 0 THEN hash = NoHash
    ELSE \E y \in rs : y.seq = n - 1 /\ y.hash = hash

\* The loop over the rows, ordered by seq: numbered from zero without a gap,
\* each linked to the one before it and hashed from its own content.
RowsVerify(r, rs) ==
    /\ \A x \in rs :
          /\ x.run_id = r
          /\ LinksTo(rs, x.seq, x.previous_hash)
          /\ x.hash = event_hash(r, x.seq, x.event, x.previous_hash)
    /\ \A x, y \in rs : x.seq = y.seq => x = y

\* Variant: the head hash is not compared.
HeadVerifies_CountOnly(rs, head) ==
    {x.seq : x \in rs} = 0 .. (head.next_seq - 1)

\* The two checks of the run record that follow the loop.
HeadVerifies(rs, head) ==
    /\ {x.seq : x \in rs} = 0 .. (head.next_seq - 1)
    /\ LinksTo(rs, head.next_seq, head.head_hash)

ChainVerifies(r, rs, head) == RowsVerify(r, rs) /\ HeadVerifies(rs, head)

\* Variant: only the sequence number is compared.
HeadAsExpected_SeqOnly(h) ==
    ag_run[run[h]].head.next_seq = expected[h].next_seq

\* _assert_expected_head: nobody moved the head since h observed it.
HeadAsExpected(h) == ag_run[run[h]].head = expected[h]

-----------------------------------------------------------------------------
(* Transactions (external: SurrealDB)                                      *)

\* Variant: a fork does not touch its parent.
WriteSet_NoTouch(h) ==
    IF call[h].op = "fork" THEN {call[h].child} ELSE {run[h]}

\* The run records h's open transaction writes.
WriteSet(h) ==
    {run[h]} \cup (IF call[h].op = "fork" THEN {call[h].child} ELSE {})

\* Committing writes to the run records W dooms the transactions of others
\* that write one of them.
Dooms(h, W) ==
    [g \in Handles |->
        doomed[g] \/ (g # h /\ pc[g] = "staged" /\ WriteSet(g) \cap W # {})]

\* The staged writes become visible together.
Apply(h) ==
    /\ ~doomed[h]
    /\ ag_event' = (ag_event \ tx[h].delete) \cup tx[h].create
    /\ ag_run' = [r \in Runs |->
          CASE r = run[h] -> [ag_run[r] EXCEPT !.head = tx[h].head]
            [] call[h].op = "fork" /\ r = call[h].child ->
                  [head |-> tx[h].child_head,
                   meta |-> [parent_run_id |-> run[h],
                             forked_at_event_id |-> call[h].at,
                             label |-> call[h].label]]
            [] OTHER -> ag_run[r]]

-----------------------------------------------------------------------------
(* Control of a handle                                                     *)

\* The call goes on at the query named by p.
Goto(h, p) ==
    /\ pc' = [pc EXCEPT ![h] = p]
    /\ outcome' = [outcome EXCEPT ![h] = "none"]

\* The call ends, by returning or by raising o.
Ends(h, o) ==
    /\ pc' = [pc EXCEPT ![h] = "idle"]
    /\ outcome' = [outcome EXCEPT ![h] = o]
    /\ rows' = [rows EXCEPT ![h] = {}]
    /\ call' = [call EXCEPT ![h] = NoCall]
    /\ tx' = [tx EXCEPT ![h] = NoTx]

\* The handle is gone: close(), a constructor that raised, or a process that
\* died.  The server drops its open transaction.
Gone(h, o) ==
    /\ pc' = [pc EXCEPT ![h] = "closed"]
    /\ outcome' = [outcome EXCEPT ![h] = o]
    /\ run' = [run EXCEPT ![h] = None]
    /\ expected' = [expected EXCEPT ![h] = EmptyHead]
    /\ rows' = [rows EXCEPT ![h] = {}]
    /\ call' = [call EXCEPT ![h] = NoCall]
    /\ tx' = [tx EXCEPT ![h] = NoTx]
    /\ doomed' = [doomed EXCEPT ![h] = FALSE]
    /\ UNCHANGED db

\* A call that ends without having written anything.
Rejects(h, o) ==
    /\ Ends(h, o)
    /\ UNCHANGED <<ag_run, ag_event, run, expected, doomed>>

Stage(h, c, t) ==
    /\ Goto(h, "staged")
    /\ call' = [call EXCEPT ![h] = c]
    /\ tx' = [tx EXCEPT ![h] = t]
    /\ rows' = [rows EXCEPT ![h] = {}]
    /\ UNCHANGED <<ag_run, ag_event, run, expected, doomed>>

-----------------------------------------------------------------------------
(* Opening a handle: __init__ and _ensure_run                              *)

OpenHandle(h, r) ==
    /\ pc[h] = "closed"
    /\ Goto(h, IF Exists(r) THEN "rows" ELSE "create")
    /\ run' = [run EXCEPT ![h] = r]
    /\ call' = [call EXCEPT ![h] = [NoCall EXCEPT !.op = "open"]]
    /\ UNCHANGED <<ag_run, ag_event, expected, rows, tx, doomed>>

\* Variant: the record is written whether or not it exists.
EnsureRunCreate_Overwrites(h) ==
    /\ pc[h] = "create"
    /\ Goto(h, "rows")
    /\ ag_run' = [ag_run EXCEPT ![run[h]] =
                      [head |-> EmptyHead, meta |-> NoMeta]]
    /\ doomed' = Dooms(h, {run[h]})
    /\ UNCHANGED <<ag_event, run, expected, rows, call, tx>>

\* CREATE fails on a record that a competing constructor or a fork created
\* since the read; the re-read then finds it and the constructor goes on.
EnsureRunCreate(h) ==
    /\ pc[h] = "create"
    /\ Goto(h, "rows")
    /\ \/ /\ ~Exists(run[h])
          /\ ag_run' = [ag_run EXCEPT ![run[h]] =
                            [head |-> EmptyHead, meta |-> NoMeta]]
          /\ doomed' = Dooms(h, {run[h]})
       \/ /\ Exists(run[h])
          /\ UNCHANGED <<ag_run, doomed>>
    /\ UNCHANGED <<ag_event, run, expected, rows, call, tx>>

-----------------------------------------------------------------------------
(* Reading a verified run: __init__, verify_integrity, iter_events and     *)
(* fork_prefix all read the rows in one query and the run in the next.     *)

StartVerify(h) ==
    /\ pc[h] = "idle"
    /\ Goto(h, "rows")
    /\ call' = [call EXCEPT ![h] = [NoCall EXCEPT !.op = "verify"]]
    /\ UNCHANGED <<ag_run, ag_event, run, expected, rows, tx, doomed>>

StartFork(h, child, at, label) ==
    /\ pc[h] = "idle"
    /\ Goto(h, "rows")
    /\ call' = [call EXCEPT ![h] =
                   [op |-> "fork", child |-> child, at |-> at, label |-> label]]
    /\ UNCHANGED <<ag_run, ag_event, run, expected, rows, tx, doomed>>

ReadRows(h) ==
    /\ pc[h] = "rows"
    /\ Goto(h, "run")
    /\ rows' = [rows EXCEPT ![h] = RowsOf(run[h])]
    /\ UNCHANGED <<ag_run, ag_event, run, expected, call, tx, doomed>>

\* What the second query returns does not match the rows of the first.
VerifyFails(h) ==
    /\ pc[h] = "run"
    /\ ~ChainVerifies(run[h], rows[h], ag_run[run[h]].head)
    /\ IF call[h].op = "open"
       THEN Gone(h, "LedgerIntegrityError")
       ELSE Rejects(h, "LedgerIntegrityError")

Verified(h, op) ==
    /\ pc[h] = "run"
    /\ call[h].op = op
    /\ ChainVerifies(run[h], rows[h], ag_run[run[h]].head)

\* The constructor adopts the verified head as the head it will write on.
OpenDone(h) ==
    /\ Verified(h, "open")
    /\ Ends(h, "ok")
    /\ expected' = [expected EXCEPT ![h] = ag_run[run[h]].head]
    /\ UNCHANGED <<ag_run, ag_event, run, doomed>>

\* verify_integrity and iter_events report; they adopt nothing.
VerifyDone(h) ==
    /\ Verified(h, "verify")
    /\ Rejects(h, "ok")

\* A query of the call in progress fails; the caller gets the driver's error.
QueryFails(h) ==
    /\ pc[h] \in {"create", "rows", "run", "dest", "begin", "merge"}
    /\ IF call[h].op = "open" THEN Gone(h, "Error") ELSE Rejects(h, "Error")

\* A boundary that iter_events is given names an event of the run.
Known(rs, id) == id = None \/ \E x \in rs : x.event.id = id

\* The sequence number of an event a caller named.
BoundarySeq(rs, id) == (CHOOSE x \in rs : x.event.id = id).seq

\* Variant: the event a reader resumes after is returned once more.
IterEvents_Again(rs, after, until) ==
    IF Known(rs, after) /\ Known(rs, until)
    THEN {x \in rs : /\ after # None => x.seq >= BoundarySeq(rs, after)
                     /\ until # None => x.seq <= BoundarySeq(rs, until)}
    ELSE None

\* The slice that iter_events returns of verified rows: after is exclusive,
\* until inclusive.  It is None when a boundary names no event of the run,
\* which raises EventNotFoundError.
IterEvents(rs, after, until) ==
    IF Known(rs, after) /\ Known(rs, until)
    THEN {x \in rs : /\ after # None => x.seq > BoundarySeq(rs, after)
                     /\ until # None => x.seq <= BoundarySeq(rs, until)}
    ELSE None

-----------------------------------------------------------------------------
(* append                                                                  *)

AppendBegin(h, e) ==
    /\ pc[h] = "idle"
    /\ LET r == run[h]
           head == ag_run[r].head
           new_hash == event_hash(r, head.next_seq, e, head.head_hash)
           row == [run_id |-> r, seq |-> head.next_seq, event |-> e,
                   previous_hash |-> head.head_hash, hash |-> new_hash]
       IN  \/ /\ ~HeadAsExpected(h)
              /\ Rejects(h, "ConcurrentWriterError")
           \/ /\ HeadAsExpected(h)
              /\ RowsNamed(r, e.id) # {}
              /\ Rejects(h, "DuplicateEventError")
           \/ /\ HeadAsExpected(h)
              /\ RowsNamed(r, e.id) = {}
              /\ Stage(h, [NoCall EXCEPT !.op = "append"],
                       [head |-> [next_seq |-> head.next_seq + 1,
                                  head_hash |-> new_hash],
                        create |-> {row}, delete |-> {},
                        child_head |-> EmptyHead])

-----------------------------------------------------------------------------
(* truncate_after                                                          *)

\* Variant: the cutoff row is deleted as well.
RowsAfter_Inclusive(r, cutoff) == {x \in RowsOf(r) : x.seq >= cutoff.seq}

\* The rows the DELETE statement selects.
RowsAfter(r, cutoff) == {x \in RowsOf(r) : x.seq > cutoff.seq}

TruncateBegin(h, id) ==
    /\ pc[h] = "idle"
    /\ LET r == run[h]
       IN  \/ /\ ~HeadAsExpected(h)
              /\ Rejects(h, "ConcurrentWriterError")
           \/ /\ HeadAsExpected(h)
              /\ RowsNamed(r, id) = {}
              /\ Rejects(h, "EventNotFoundError")
           \/ /\ HeadAsExpected(h)
              /\ \E cutoff \in RowsNamed(r, id) :
                    Stage(h, [NoCall EXCEPT !.op = "truncate"],
                          [head |-> [next_seq |-> cutoff.seq + 1,
                                     head_hash |-> cutoff.hash],
                           create |-> {},
                           delete |-> RowsAfter(r, cutoff),
                           child_head |-> EmptyHead])

-----------------------------------------------------------------------------
(* fork_prefix                                                             *)

\* Variant: a compacted log is not recognised.
Compacted_Ignored(rs) == FALSE

\* The log starts with a snapshot.
Compacted(rs) == \E x \in rs : x.seq = 0 /\ x.event.type = SnapshotType

\* The checks between the verified read and the first look at the destination.
ForkCheckParent(h) ==
    /\ Verified(h, "fork")
    /\ LET found == \E x \in rows[h] : x.event.id = call[h].at
       IN  \/ /\ ~HeadAsExpected(h)
              /\ Rejects(h, "ConcurrentWriterError")
           \/ /\ HeadAsExpected(h) /\ Compacted(rows[h])
              /\ Rejects(h, "UnsupportedCompactedRunError")
           \/ /\ HeadAsExpected(h) /\ ~Compacted(rows[h]) /\ ~found
              /\ Rejects(h, "ForkPointNotFoundError")
           \/ /\ HeadAsExpected(h) /\ ~Compacted(rows[h]) /\ found
              /\ Goto(h, "dest")
              /\ UNCHANGED <<ag_run, ag_event, run, expected, rows, call, tx,
                             doomed>>

ForkCheckDestination(h) ==
    /\ pc[h] = "dest"
    /\ \/ /\ Exists(call[h].child)
          /\ Rejects(h, "RunAlreadyExistsError")
       \/ /\ ~Exists(call[h].child)
          /\ Goto(h, "begin")
          /\ UNCHANGED <<ag_run, ag_event, run, expected, rows, call, tx, doomed>>

\* The hash of the child's j-th event: the loop re-hashes the prefix under the
\* child's identity, each event on top of the one before it.
ChildHash(child, rs, j) ==
    [i \in 1 .. j |->
        [run_id |-> child, seq |-> i - 1,
         event |-> (CHOOSE x \in rs : x.seq = i - 1).event]]

ChildRows(child, rs, n) ==
    {[run_id |-> child, seq |-> j - 1,
      event |-> (CHOOSE x \in rs : x.seq = j - 1).event,
      previous_hash |-> ChildHash(child, rs, j - 1),
      hash |-> ChildHash(child, rs, j)] : j \in 1 .. n}

\* Variant: the fork point itself is left out.
PrefixLength_Exclusive(rs, at) == (CHOOSE x \in rs : x.event.id = at).seq

\* How many events the fork copies: the fork point is included.
PrefixLength(rs, at) == (CHOOSE x \in rs : x.event.id = at).seq + 1

\* The transaction re-reads both run records, and rewrites the parent's head
\* unchanged so that a concurrent append or truncation conflicts with it.
ForkBegin(h) ==
    /\ pc[h] = "begin"
    /\ LET child == call[h].child
           n == PrefixLength(rows[h], call[h].at)
       IN  \/ /\ ~HeadAsExpected(h)
              /\ Rejects(h, "ConcurrentWriterError")
           \/ /\ HeadAsExpected(h)
              /\ Exists(child)
              /\ Rejects(h, "RunAlreadyExistsError")
           \/ /\ HeadAsExpected(h)
              /\ ~Exists(child)
              /\ Stage(h, call[h],
                       [head |-> expected[h],
                        create |-> ChildRows(child, rows[h], n),
                        delete |-> {},
                        child_head |->
                            [next_seq |-> n,
                             head_hash |-> ChildHash(child, rows[h], n)]])

-----------------------------------------------------------------------------
(* Ends of a transaction                                                   *)

\* append and truncate_after adopt the head they wrote; fork_prefix leaves the
\* parent's head as it is, and opens a further handle on the child.
CommitAcknowledged(h) ==
    /\ pc[h] = "staged"
    /\ Apply(h)
    /\ doomed' = Dooms(h, WriteSet(h))
    /\ expected' = [expected EXCEPT ![h] = tx[h].head]
    /\ Ends(h, "ok")
    /\ UNCHANGED run

\* The commit took effect but its answer was lost.
CommitUnacknowledged(h) ==
    /\ pc[h] = "staged"
    /\ Apply(h)
    /\ doomed' = Dooms(h, WriteSet(h))
    /\ Goto(h, "raise")
    /\ UNCHANGED <<run, expected, rows, call, tx>>

\* The transaction is rolled back: a conflict, which doomed[h] then records for
\* the error handler, or any other failure of a query or of the commit.
TransactionFails(h) ==
    /\ pc[h] \in {"begin", "staged"}
    /\ \E conflict \in {doomed[h], FALSE} :
          doomed' = [doomed EXCEPT ![h] = conflict]
    /\ Goto(h, "raise")
    /\ UNCHANGED <<ag_run, ag_event, run, expected, rows, call, tx>>

\* The except blocks and _raise_if_concurrent.  Their reads may fail as well;
\* a conflict is recognised by the words of the error.
RaisedError(h, readable) ==
    LET op == call[h].op
        changed == readable /\ ~HeadAsExpected(h)
    IN  CASE op = "fork" /\ ~readable -> "Error"
          [] op = "fork" /\ readable /\ Exists(call[h].child) ->
                "RunAlreadyExistsError"
          [] OTHER -> IF changed \/ doomed[h] THEN "ConcurrentWriterError"
                                              ELSE "Error"

\* Variant: a conflicting transaction is committed again instead of reported.
Raise_Retries(h) ==
    /\ pc[h] = "raise"
    /\ \/ /\ doomed[h]
          /\ Goto(h, "staged")
          /\ UNCHANGED <<rows, call, tx, doomed>>
       \/ /\ ~doomed[h]
          /\ \E readable \in BOOLEAN : Ends(h, RaisedError(h, readable))
          /\ doomed' = [doomed EXCEPT ![h] = FALSE]
    /\ UNCHANGED <<ag_run, ag_event, run, expected>>

Raise(h) ==
    /\ pc[h] = "raise"
    /\ \E readable \in BOOLEAN : Ends(h, RaisedError(h, readable))
    /\ doomed' = [doomed EXCEPT ![h] = FALSE]
    /\ UNCHANGED <<ag_run, ag_event, run, expected>>

-----------------------------------------------------------------------------
(* upsert_run and close                                                    *)

\* Variant: an argument that was not given clears the stored value.
Coalesce_Overwrites(new, old) == new

\* Variant: a value that is missing on both sides is stored as empty text.
Coalesce_EmptyText(new, old) ==
    IF new # None THEN new ELSE IF old # None THEN old ELSE ""

Coalesce(new, old) == IF new # None THEN new ELSE old

\* The read of the run record.  The record of an open handle exists and is
\* never deleted, so the branch that creates it is not reached; an empty patch
\* writes nothing; the read itself may fail.
UpsertRun(h, patch) ==
    /\ pc[h] = "idle"
    /\ \/ /\ patch # NoMeta
          /\ Goto(h, "merge")
          /\ call' = [call EXCEPT ![h] =
                         [op |-> "upsert", child |-> patch.parent_run_id,
                          at |-> patch.forked_at_event_id,
                          label |-> patch.label]]
          /\ UNCHANGED <<ag_run, ag_event, run, expected, rows, tx, doomed>>
       \/ /\ patch = NoMeta
          /\ Rejects(h, "ok")
       \/ Rejects(h, "Error")

\* The fields of a run's metadata after the arguments of upsert_run are merged
\* into them.
Merged(c, old) ==
    [parent_run_id |-> Coalesce(c.child, old.parent_run_id),
     forked_at_event_id |-> Coalesce(c.at, old.forked_at_event_id),
     label |-> Coalesce(c.label, old.label)]

\* UPDATE ... MERGE is one query of its own, outside a transaction: it merges
\* into the record as it is by then, and its answer may be lost.
MergeRun(h) ==
    /\ pc[h] = "merge"
    /\ ag_run' = [ag_run EXCEPT ![run[h]].meta = Merged(call[h], @)]
    /\ doomed' = Dooms(h, {run[h]})
    /\ \E o \in {"ok", "Error"} : Ends(h, o)
    /\ UNCHANGED <<ag_event, run, expected>>

Close(h) ==
    /\ pc[h] # "closed"
    /\ Gone(h, "none")

-----------------------------------------------------------------------------

\* The step that comes next in the call h is executing, failures included.
Continue(h) ==
    \/ EnsureRunCreate(h)
    \/ ReadRows(h)
    \/ VerifyFails(h)
    \/ OpenDone(h)
    \/ VerifyDone(h)
    \/ ForkCheckParent(h)
    \/ ForkCheckDestination(h)
    \/ ForkBegin(h)
    \/ CommitAcknowledged(h)
    \/ CommitUnacknowledged(h)
    \/ TransactionFails(h)
    \/ Raise(h)
    \/ MergeRun(h)
    \/ QueryFails(h)

\* A caller starts something on an idle or closed handle.
Start(h) ==
    \/ \E r \in Runs : OpenHandle(h, r)
    \/ StartVerify(h)
    \/ \E e \in Event : AppendBegin(h, e)
    \/ \E id \in EventIds : TruncateBegin(h, id)
    \/ \E child \in Runs, at \in EventIds, label \in Labels \cup {None} :
           StartFork(h, child, at, label)
    \/ \E patch \in Patches : UpsertRun(h, patch)

Next == \E h \in Handles : Start(h) \/ Continue(h) \/ Close(h)

Spec == Init /\ [][Next]_vars

\* No operation loops, retries or waits for another handle, so a call that is
\* scheduled comes to its end.
FairSpec == Spec /\ \A h \in Handles : WF_vars(Continue(h))

-----------------------------------------------------------------------------
(* What makes the store correct                                            *)

\* The events of a run, in the order of the rows' sequence numbers.
Log(r) ==
    IF Exists(r)
    THEN [i \in 1 .. ag_run[r].head.next_seq |->
             (CHOOSE x \in RowsOf(r) : x.seq = i - 1).event]
    ELSE <<>>

\* The events that the head a handle expects was computed from.
ObservedLog(h) ==
    [i \in 1 .. Len(expected[h].head_hash) |-> expected[h].head_hash[i].event]

\* Whatever transactions, forks, constructors and failures interleave, each
\* run's rows and run record pass _verified_rows_and_run at every instant, no
\* event id occurs twice in a run, and no event row exists without its run.
LedgerIntact ==
    \A r \in Runs :
        IF Exists(r)
        THEN /\ ChainVerifies(r, RowsOf(r), ag_run[r].head)
             /\ \A x, y \in RowsOf(r) : x.event.id = y.event.id => x = y
        ELSE RowsOf(r) = {}

\* append, truncate_after and fork_prefix only ever commit on top of exactly
\* the log their handle last observed, even when the head moved away and back.
WritesOnObservedLog ==
    [][\A h \in Handles :
          pc[h] = "staged" /\ pc'[h] # "staged" /\ ag_run' # ag_run
          => Log(run[h]) = ObservedLog(h)]_vars

\* The verified read takes two queries, yet rows it accepts are the rows the
\* run has at the second query, whatever was committed between the two.
VerifiedReadIsAtomic ==
    [][\A h \in Handles :
          /\ pc[h] = "run" /\ pc'[h] \in {"idle", "dest"}
          /\ outcome'[h] \notin {"LedgerIntegrityError", "Error"}
          => rows[h] = RowsOf(run[h])]_vars

\* A forked run comes into existence with a copy of its parent's log that ends
\* with the fork point its run record names.
ForkCopiesInclusivePrefix ==
    [][\A c \in Runs :
          ~Exists(c) /\ Exists(c)' /\ ag_run'[c].meta.parent_run_id # None
          => LET meta == ag_run'[c].meta
                 parent == Log(meta.parent_run_id)
             IN  \E n \in DOMAIN parent :
                    /\ Log(c)' = SubSeq(parent, 1, n)
                    /\ parent[n].id = meta.forked_at_event_id]_vars

\* The places that cut a log at an event agree: what iter_events returns until
\* an event is what truncate_after leaves and what fork_prefix copies, and
\* together with what it returns after the event it is the whole log; two
\* boundaries the wrong way round give nothing; and iter_events refuses the
\* boundaries that truncate_after refuses (iter_events, truncate_after,
\* fork_prefix).
CutsAgree ==
    \A r \in Runs : LET rs == RowsOf(r) IN
        /\ \A x, y \in rs :
              LET head == IterEvents(rs, None, x.event.id)
              IN  /\ head = rs \ RowsAfter(r, x)
                  /\ {z.seq : z \in head} = 0 .. PrefixLength(rs, x.event.id) - 1
                  /\ IterEvents(rs, x.event.id, None) = rs \ head
                  /\ IterEvents(rs, x.event.id, y.event.id) =
                         IF y.seq <= x.seq THEN {}
                         ELSE IterEvents(rs, None, y.event.id) \ head
        /\ \A id \in EventIds : RowsNamed(r, id) = {} =>
              /\ IterEvents(rs, id, None) = None
              /\ IterEvents(rs, None, id) = None

\* A run record never disappears, and no constructor, reload or upsert_run
\* clears a lineage field or label that was once stored.
MetadataNeverCleared ==
    [][\A r \in Runs :
          Exists(r) => /\ Exists(r)'
                       /\ \A f \in DOMAIN NoMeta :
                             ag_run[r].meta[f] # None
                             => ag_run'[r].meta[f] # None]_vars

\* Every call ends: no handle waits for another one, whoever wins the races.
CallsTerminate ==
    \A h \in Handles : []<>(pc[h] \in {"idle", "closed"})

\* The rows and heads of the tables are one log per run (see EventLog).
EL == INSTANCE EventLog WITH created <- {r \in Runs : Exists(r)},
                             log <- [r \in Runs |-> Log(r)]

\* Every committed operation is one step of the abstract log: an append, a cut
\* to a prefix, or a fork that appears with all of its events at once.
ImplementsEventLog == EL!Spec

-----------------------------------------------------------------------------
(* What the error types say, which the code does not keep                  *)

\* errors.py on LedgerIntegrityError: "The persisted event sequence or hash
\* chain is inconsistent."
IntegrityErrorMeansDamage ==
    (\E h \in Handles : outcome[h] = "LedgerIntegrityError") => ~LedgerIntact

=============================================================================
