--------------------------- MODULE EventStoreInv ----------------------------
(***************************************************************************)
(* The inductive invariant behind EventStore's safety properties.          *)
(*                                                                         *)
(* The ledger is described constructively: the rows of a run are exactly   *)
(* the rows that the links of its head hash spell out.  A transaction that *)
(* nobody doomed was computed from the head that is still stored, and      *)
(* turns a chain into a chain.                                             *)
(***************************************************************************)
EXTENDS EventStore

\* H is a hash of run r: its links are numbered from zero, and no event id
\* occurs twice.
IsChain(r, H) ==
    /\ H \in Hash
    /\ \A i \in 1 .. Len(H) : H[i].run_id = r /\ H[i].seq = i - 1
    /\ \A i, j \in 1 .. Len(H) : H[i].event.id = H[j].event.id => i = j

\* The hash after the first n events of a chain.
Prefix(H, n) == [k \in 1 .. n |-> H[k]]

ChainRow(r, H, i) ==
    [run_id |-> r, seq |-> i - 1, event |-> H[i].event,
     previous_hash |-> Prefix(H, i - 1), hash |-> Prefix(H, i)]

ChainRows(r, H) == {ChainRow(r, H, i) : i \in 1 .. Len(H)}

\* head and rs are what a run with the hash H consists of.
IsRun(r, head, rs) ==
    /\ IsChain(r, head.head_hash)
    /\ head.next_seq = Len(head.head_hash)
    /\ rs = ChainRows(r, head.head_hash)

RunOK(r) ==
    IF Exists(r) THEN IsRun(r, ag_run[r].head, RowsOf(r)) ELSE RowsOf(r) = {}

\* A handle past its constructor's first steps is bound to an existing run.
HandleOK(h) ==
    /\ pc[h] # "closed" => run[h] \in Runs
    /\ pc[h] \notin {"closed", "create"} => Exists(run[h])
    /\ pc[h] = "create" => call[h].op = "open"
    /\ call[h].op = "fork" => call[h].child \in Runs
    /\ pc[h] \in {"dest", "begin"} => call[h].op = "fork"

\* Rows read by a call were the rows of the run at some time; once verified,
\* they are the rows of the head the handle expects.
RowsOK(h) ==
    /\ pc[h] = "run" =>
          \E H \in {NoHash} \cup {x.hash : x \in rows[h]} :
              IsChain(run[h], H) /\ rows[h] = ChainRows(run[h], H)
    /\ pc[h] \in {"dest", "begin"} =>
          /\ IsRun(run[h], expected[h], rows[h])
          /\ \E x \in rows[h] : x.event.id = call[h].at

\* The staged writes, applied to the tables as they are, give sound runs.
TxSound(h) ==
    /\ HeadAsExpected(h)
    /\ \/ /\ call[h].op # "fork"
          /\ \A x \in tx[h].create : x.run_id = run[h]
          /\ IsRun(run[h], tx[h].head,
                   (RowsOf(run[h]) \ tx[h].delete) \cup tx[h].create)
       \/ /\ call[h].op = "fork"
          /\ ~Exists(call[h].child)
          /\ tx[h].head = expected[h]
          /\ IsRun(call[h].child, tx[h].child_head, tx[h].create)
    /\ \A x \in tx[h].delete : x.run_id = run[h] /\ call[h].op # "fork"

\* A transaction that nobody doomed still sees the head it started from.
TxOK(h) == pc[h] = "staged" /\ ~doomed[h] => TxSound(h)

\* The strengthening of LedgerIntact that every step of Next preserves.
IInv ==
    /\ TypeOK
    /\ \A r \in Runs : RunOK(r)
    /\ \A h \in Handles : HandleOK(h) /\ RowsOK(h) /\ TxOK(h)
-----------------------------------------------------------------------------
(* What a transaction means for the log of its run.                        *)

\* The events a hash was computed from.
Events(H) == [i \in 1 .. Len(H) |-> H[i].event]

\* The staged heads, read against the head the handle expects: one event more,
\* a prefix, or a prefix of an uncompacted log that ends with the fork point.
TxMeans(h) ==
    LET H == expected[h].head_hash
        now == Events(tx[h].head.head_hash)
        child == Events(tx[h].child_head.head_hash)
    IN  \/ /\ call[h].op = "append"
           /\ \E e \in Event : /\ \A i \in 1 .. Len(H) : H[i].event.id # e.id
                               /\ now = Append(Events(H), e)
        \/ /\ call[h].op = "truncate"
           /\ \E n \in 1 .. Len(H) : now = SubSeq(Events(H), 1, n)
        \/ /\ call[h].op = "fork"
           /\ \E n \in 1 .. Len(H) : /\ child = SubSeq(Events(H), 1, n)
                                     /\ H[n].event.id = call[h].at
           /\ H[1].event.type # SnapshotType

\* A fork gets past its checks only on an uncompacted log.
Means(h) ==
    /\ pc[h] \in {"dest", "begin"} =>
          \A x \in rows[h] : x.seq = 0 => x.event.type # SnapshotType
    /\ pc[h] = "staged" => TxMeans(h)

\* IInv, and every transaction is an operation of the abstract event log: the
\* strengthening that ImplementsEventLog and ForkCopiesInclusivePrefix need.
RInv == IInv /\ \A h \in Handles : Means(h)
=============================================================================
