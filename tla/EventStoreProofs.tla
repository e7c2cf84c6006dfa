-------------------------- MODULE EventStoreProofs --------------------------
(***************************************************************************)
(* Proofs about EventStore for every number of handles, runs, event ids,   *)
(* types and labels.                                                       *)
(***************************************************************************)
EXTENDS EventStoreInv, SequenceTheorems, TLAPS

-----------------------------------------------------------------------------
(* Chains                                                                  *)

\* What being a chain says of one of its links.
LEMMA ChainLinks ==
    ASSUME NEW r, NEW H, IsChain(r, H)
    PROVE  /\ Len(H) \in Nat
           /\ H \in [1 .. Len(H) -> Link]
           /\ DOMAIN H = 1 .. Len(H)
           /\ \A i \in 1 .. Len(H) : H[i].event \in Event
<1>1. H \in Seq(Link)
    BY DEF IsChain, Hash
<1>2. H \in [1 .. Len(H) -> Link] /\ Len(H) \in Nat /\ DOMAIN H = 1 .. Len(H)
    BY <1>1, LenProperties
<1> QED
    BY <1>2 DEF Link

\* A prefix of a chain is a hash.
LEMMA PrefixIsHash ==
    ASSUME NEW r, NEW H, IsChain(r, H), NEW n \in 0 .. Len(H)
    PROVE  Prefix(H, n) \in Hash /\ Len(Prefix(H, n)) = n
<1>1. n \in Nat /\ \A k \in 1 .. n : H[k] \in Link
    BY ChainLinks
<1>2. Prefix(H, n) \in [1 .. n -> Link]
    BY <1>1 DEF Prefix
<1>3. DOMAIN Prefix(H, n) = 1 .. n
    BY DEF Prefix
<1> QED
    BY <1>1, <1>2, <1>3, SeqDef, LenProperties DEF Hash

\* The rows of a chain are event rows.
LEMMA ChainRowsType ==
    ASSUME NEW r \in Runs, NEW H, IsChain(r, H)
    PROVE  ChainRows(r, H) \subseteq EventRow
<1>1. SUFFICES ASSUME NEW i \in 1 .. Len(H)
               PROVE  ChainRow(r, H, i) \in EventRow
    BY DEF ChainRows
<1>2. Len(H) \in Nat /\ H[i].event \in Event
    BY ChainLinks
<1>3. i - 1 \in 0 .. Len(H) /\ i \in 0 .. Len(H) /\ i - 1 \in Nat
    BY <1>2
<1>4. Prefix(H, i - 1) \in Hash /\ Prefix(H, i) \in Hash
    BY <1>3, PrefixIsHash
<1> QED
    BY <1>2, <1>3, <1>4 DEF ChainRow, EventRow

\* Two chains with the same length and the same links are equal.
LEMMA ChainEqual ==
    ASSUME NEW G \in Hash, NEW H \in Hash, Len(G) = Len(H),
           \A i \in 1 .. Len(G) : G[i] = H[i]
    PROVE  G = H
    BY SeqEqual DEF Hash

\* Hashing one more event onto a chain that lacks its id gives a chain whose
\* rows are the old ones and the row append writes.
LEMMA AppendChain ==
    ASSUME NEW r \in Runs, NEW H, IsChain(r, H), NEW e \in Event,
           \A i \in 1 .. Len(H) : H[i].event.id # e.id
    PROVE  LET G == event_hash(r, Len(H), e, H)
               row == [run_id |-> r, seq |-> Len(H), event |-> e,
                       previous_hash |-> H, hash |-> G]
           IN  /\ IsChain(r, G)
               /\ Len(G) = Len(H) + 1
               /\ row \in EventRow
               /\ ChainRows(r, G) = ChainRows(r, H) \cup {row}
<1> DEFINE link == [run_id |-> r, seq |-> Len(H), event |-> e]
           G == event_hash(r, Len(H), e, H)
           n == Len(H)
           row == [run_id |-> r, seq |-> n, event |-> e,
                   previous_hash |-> H, hash |-> G]
<1>1. n \in Nat /\ H \in Seq(Link) /\ link \in Link
    BY ChainLinks DEF IsChain, Hash, Link
<1>2. /\ G \in Seq(Link)
      /\ Len(G) = n + 1
      /\ \A i \in 1 .. n : G[i] = H[i]
      /\ G[n + 1] = link
    BY <1>1, AppendProperties DEF event_hash
<1>3. IsChain(r, G)
    <2>1. \A i \in 1 .. Len(G) : G[i].run_id = r /\ G[i].seq = i - 1
        BY <1>1, <1>2 DEF IsChain
    <2>2. ASSUME NEW i \in 1 .. Len(G), NEW j \in 1 .. Len(G),
                 G[i].event.id = G[j].event.id
          PROVE  i = j
        <3>1. CASE i \in 1 .. n /\ j \in 1 .. n
            BY <2>2, <3>1, <1>2 DEF IsChain
        <3>2. CASE i = n + 1 \/ j = n + 1
            BY <2>2, <3>2, <1>1, <1>2
        <3> QED
            BY <3>1, <3>2, <1>1, <1>2
    <2> QED
        BY <1>2, <2>1, <2>2 DEF IsChain, Hash
<1>4. \A k \in 0 .. n : Prefix(G, k) = Prefix(H, k)
    BY <1>1, <1>2 DEF Prefix
<1>5. \A i \in 1 .. n : ChainRow(r, G, i) = ChainRow(r, H, i)
    <2>1. TAKE i \in 1 .. n
    <2>2. i - 1 \in 0 .. n /\ i \in 0 .. n
        BY <1>1
    <2> QED
        BY <2>2, <1>2, <1>4 DEF ChainRow
<1>6. Prefix(H, n) = H /\ Prefix(G, n + 1) = G
    BY <1>1, <1>2, PrefixIsHash, <1>3, ChainEqual, ChainLinks DEF Prefix, IsChain
<1>7. ChainRow(r, G, n + 1) = row
    BY <1>1, <1>2, <1>4, <1>6 DEF ChainRow
<1>8. ChainRows(r, G) = ChainRows(r, H) \cup {row}
    BY <1>1, <1>2, <1>5, <1>7 DEF ChainRows
<1>9. row \in EventRow
    BY <1>3, <1>8, ChainRowsType
<1> QED
    BY <1>2, <1>3, <1>8, <1>9

\* Cutting a chain back to its first n events leaves a chain, whose rows are
\* those that truncate_after does not delete.
LEMMA TruncateChain ==
    ASSUME NEW r \in Runs, NEW H, IsChain(r, H), NEW n \in 1 .. Len(H)
    PROVE  /\ IsChain(r, Prefix(H, n))
           /\ Len(Prefix(H, n)) = n
           /\ ChainRows(r, Prefix(H, n))
                  = ChainRows(r, H) \ {x \in ChainRows(r, H) : x.seq > n - 1}
<1> DEFINE G == Prefix(H, n)
<1>1. Len(H) \in Nat /\ n \in 0 .. Len(H) /\ n \in Nat
    BY ChainLinks
<1>2. G \in Hash /\ Len(G) = n /\ \A i \in 1 .. n : G[i] = H[i]
    BY <1>1, PrefixIsHash DEF Prefix
<1>3. IsChain(r, G)
    <2>1. \A i \in 1 .. n : i \in 1 .. Len(H)
        BY <1>1
    <2>2. \A i \in 1 .. n : G[i].run_id = r /\ G[i].seq = i - 1
        BY <2>1, <1>2 DEF IsChain
    <2>3. \A i, j \in 1 .. n : G[i].event.id = G[j].event.id => i = j
        BY <2>1, <1>2 DEF IsChain
    <2> HIDE DEF G
    <2> QED
        BY <1>2, <2>2, <2>3 DEF IsChain
<1>4. \A k \in 0 .. n : Prefix(G, k) = Prefix(H, k)
    BY <1>1, <1>2 DEF Prefix
<1>5. \A i \in 1 .. n : ChainRow(r, G, i) = ChainRow(r, H, i)
    <2>1. TAKE i \in 1 .. n
    <2>2. i - 1 \in 0 .. n /\ i \in 0 .. n
        BY <1>1
    <2> QED
        BY <2>2, <1>2, <1>4 DEF ChainRow
<1>6. \A i \in 1 .. Len(H) : ChainRow(r, H, i).seq = i - 1
    BY DEF ChainRow
<1>7. \A i \in 1 .. Len(H) : ~(ChainRow(r, H, i).seq > n - 1) <=> i \in 1 .. n
    BY <1>1, <1>6
<1> QED
    BY <1>1, <1>2, <1>3, <1>5, <1>7 DEF ChainRows

\* The rows of a chain are told apart by their position and by their event id.
LEMMA ChainRowsDistinct ==
    ASSUME NEW r, NEW H, IsChain(r, H)
    PROVE  /\ \A x \in ChainRows(r, H) : x.run_id = r
           /\ \A x, y \in ChainRows(r, H) : x.seq = y.seq => x = y
           /\ \A x, y \in ChainRows(r, H) : x.event.id = y.event.id => x = y
           /\ \A i \in 1 .. Len(H) :
                 (CHOOSE x \in ChainRows(r, H) : x.seq = i - 1)
                     = ChainRow(r, H, i)
<1>1. Len(H) \in Nat
    BY ChainLinks
<1>2. \A i \in 1 .. Len(H) : /\ ChainRow(r, H, i).run_id = r
                             /\ ChainRow(r, H, i).seq = i - 1
                             /\ ChainRow(r, H, i).event = H[i].event
    BY DEF ChainRow
<1>3. \A x, y \in ChainRows(r, H) : x.seq = y.seq => x = y
    <2>1. SUFFICES ASSUME NEW i \in 1 .. Len(H), NEW j \in 1 .. Len(H),
                          i - 1 = j - 1
                   PROVE  i = j
        BY <1>2 DEF ChainRows
    <2> QED
        BY <1>1, <2>1
<1>4. \A x, y \in ChainRows(r, H) : x.event.id = y.event.id => x = y
    BY <1>2 DEF ChainRows, IsChain
<1>5. \A i \in 1 .. Len(H) :
         (CHOOSE x \in ChainRows(r, H) : x.seq = i - 1) = ChainRow(r, H, i)
    <2>1. TAKE i \in 1 .. Len(H)
    <2>2. ChainRow(r, H, i) \in ChainRows(r, H) /\ ChainRow(r, H, i).seq = i - 1
        BY <1>2 DEF ChainRows
    <2> QED
        BY <2>2, <1>3
<1> QED
    BY <1>2, <1>3, <1>4, <1>5 DEF ChainRows

\* The rows of a chain are numbered from zero without a gap.
LEMMA ChainSeqs ==
    ASSUME NEW r, NEW H, IsChain(r, H)
    PROVE  {x.seq : x \in ChainRows(r, H)} = 0 .. (Len(H) - 1)
<1>1. Len(H) \in Nat
    BY ChainLinks
<1>2. \A i \in 1 .. Len(H) : /\ ChainRow(r, H, i) \in ChainRows(r, H)
                             /\ ChainRow(r, H, i).seq = i - 1
    BY DEF ChainRow, ChainRows
<1>3. \A x \in ChainRows(r, H) : x.seq \in 0 .. (Len(H) - 1)
    <2>1. \A i \in 1 .. Len(H) : i - 1 \in 0 .. (Len(H) - 1)
        BY <1>1
    <2> QED
        BY <1>2, <2>1 DEF ChainRows
<1>4. \A k \in 0 .. (Len(H) - 1) : \E x \in ChainRows(r, H) : x.seq = k
    <2>1. TAKE k \in 0 .. (Len(H) - 1)
    <2>2. k + 1 \in 1 .. Len(H) /\ (k + 1) - 1 = k
        BY <1>1
    <2> QED
        BY <1>2, <2>2
<1> QED
    BY <1>3, <1>4

\* The child's rows, re-hashed from the first n rows of the parent, and its
\* head make up a run.
LEMMA ForkChain ==
    ASSUME NEW r \in Runs, NEW c \in Runs, NEW H, IsChain(r, H),
           NEW n \in 1 .. Len(H), NEW rs, rs = ChainRows(r, H)
    PROVE  /\ ChildHash(c, rs, n) \in Hash
           /\ IsRun(c, [next_seq |-> n, head_hash |-> ChildHash(c, rs, n)],
                    ChildRows(c, rs, n))
<1> DEFINE C(j) == [i \in 1 .. j |-> [run_id |-> c, seq |-> i - 1,
                                     event |-> H[i].event]]
<1>1. Len(H) \in Nat /\ n \in Nat /\ n \in 0 .. Len(H)
    BY ChainLinks
<1>2. \A i \in 1 .. n : i \in 1 .. Len(H)
    BY <1>1
<1>3. \A i \in 1 .. n : (CHOOSE x \in rs : x.seq = i - 1).event = H[i].event
    <2>1. TAKE i \in 1 .. n
    <2>2. (CHOOSE x \in rs : x.seq = i - 1) = ChainRow(r, H, i)
        BY <1>2, ChainRowsDistinct
    <2>3. ChainRow(r, H, i).event = H[i].event
        BY DEF ChainRow
    <2> QED
        BY <2>2, <2>3
<1>4. \A j \in 0 .. n : ChildHash(c, rs, j) = C(j)
    <2>1. TAKE j \in 0 .. n
    <2>2. \A i \in 1 .. j : i \in 1 .. n
        BY <1>1
    <2> QED
        BY <2>2, <1>3 DEF ChildHash
<1>5. \A i \in 1 .. n : [run_id |-> c, seq |-> i - 1, event |-> H[i].event] \in Link
    BY <1>1, <1>2, ChainLinks DEF Link
<1>6. C(n) \in Hash /\ Len(C(n)) = n
    <2>1. C(n) \in [1 .. n -> Link] /\ DOMAIN C(n) = 1 .. n
        BY <1>5
    <2> QED
        BY <2>1, <1>1, SeqDef, LenProperties DEF Hash
<1>7. \A i \in 1 .. n : C(n)[i] = [run_id |-> c, seq |-> i - 1,
                                   event |-> H[i].event]
    OBVIOUS
<1>8. IsChain(c, C(n))
    <2>1. \A i \in 1 .. n : /\ C(n)[i].run_id = c
                            /\ C(n)[i].seq = i - 1
                            /\ C(n)[i].event = H[i].event
        BY <1>7
    <2>2. \A i, j \in 1 .. n : H[i].event.id = H[j].event.id => i = j
        BY <1>2 DEF IsChain
    <2> HIDE DEF C
    <2> QED
        BY <1>6, <2>1, <2>2 DEF IsChain
<1>9. \A j \in 0 .. n : Prefix(C(n), j) = C(j)
    <2>1. TAKE j \in 0 .. n
    <2>2. \A i \in 1 .. j : i \in 1 .. n
        BY <1>1
    <2> QED
        BY <2>2, <1>7 DEF Prefix
<1>10. ASSUME NEW j \in 1 .. n
       PROVE  [run_id |-> c, seq |-> j - 1,
               event |-> (CHOOSE x \in rs : x.seq = j - 1).event,
               previous_hash |-> ChildHash(c, rs, j - 1),
               hash |-> ChildHash(c, rs, j)] = ChainRow(c, C(n), j)
    <2>1. j \in 0 .. n /\ j - 1 \in 0 .. n
        BY <1>1
    <2>2. C(n)[j].event = H[j].event
        BY <1>7
    <2> HIDE DEF C
    <2> QED
        BY <2>1, <2>2, <1>3, <1>4, <1>9 DEF ChainRow
<1>11. ChildRows(c, rs, n) = ChainRows(c, C(n))
    <2> HIDE DEF C
    <2> QED
        BY <1>6, <1>10 DEF ChildRows, ChainRows
<1>12. ChildHash(c, rs, n) = C(n)
    BY <1>1, <1>4
<1> HIDE DEF C
<1> QED
    BY <1>6, <1>8, <1>11, <1>12 DEF IsRun

\* Rows that are a chain and pass the checks of the head are that head's rows.
LEMMA VerifiedIsRun ==
    ASSUME NEW r, NEW H, IsChain(r, H), NEW head \in RunHead,
           HeadVerifies(ChainRows(r, H), head)
    PROVE  IsRun(r, head, ChainRows(r, H))
<1>1. Len(H) \in Nat /\ head.next_seq \in Nat /\ head.head_hash \in Hash
    BY ChainLinks DEF RunHead
<1>2. \A i \in 1 .. Len(H) : ChainRow(r, H, i).seq = i - 1
                            /\ ChainRow(r, H, i).hash = Prefix(H, i)
    BY DEF ChainRow
<1>3. {x.seq : x \in ChainRows(r, H)} = 0 .. (Len(H) - 1)
    BY ChainSeqs
<1>4. head.next_seq = Len(H)
    <2>1. 0 .. (Len(H) - 1) = 0 .. (head.next_seq - 1)
        BY <1>3 DEF HeadVerifies
    <2>2. ~(Len(H) < head.next_seq)
        BY <1>1, <2>1
    <2>3. ~(Len(H) > head.next_seq)
        BY <1>1, <2>1
    <2> QED
        BY <1>1, <2>2, <2>3
<1>5. Prefix(H, Len(H)) = H
    BY ChainLinks DEF Prefix
<1>6. head.head_hash = H
    <2>1. CASE Len(H) = 0
        <3>1. head.head_hash = NoHash
            BY <1>4, <2>1 DEF HeadVerifies, LinksTo
        <3> QED
            BY <3>1, <2>1, ChainEqual DEF IsChain, NoHash, Hash
    <2>2. CASE Len(H) # 0
        <3>1. PICK y \in ChainRows(r, H) :
                  y.seq = Len(H) - 1 /\ y.hash = head.head_hash
            BY <1>4, <2>2 DEF HeadVerifies, LinksTo
        <3>2. PICK i \in 1 .. Len(H) : y = ChainRow(r, H, i)
            BY DEF ChainRows
        <3>3. i = Len(H)
            BY <3>1, <3>2, <1>1, <1>2
        <3> QED
            BY <3>1, <3>2, <3>3, <1>2, <1>5
    <2> QED
        BY <2>1, <2>2
<1> QED
    BY <1>4, <1>6 DEF IsRun

\* A run passes _verified_rows_and_run.
LEMMA RunVerifies ==
    ASSUME NEW r \in Runs, NEW head, NEW rs, IsRun(r, head, rs)
    PROVE  ChainVerifies(r, rs, head)
<1> DEFINE H == head.head_hash
<1>1. IsChain(r, H) /\ head.next_seq = Len(H) /\ rs = ChainRows(r, H)
    BY DEF IsRun
<1>2. Len(H) \in Nat
    BY <1>1, ChainLinks
<1> HIDE DEF H
<1>3. \A i \in 1 .. Len(H) : /\ ChainRow(r, H, i) \in rs
                             /\ ChainRow(r, H, i).seq = i - 1
                             /\ ChainRow(r, H, i).run_id = r
                             /\ ChainRow(r, H, i).event = H[i].event
                             /\ ChainRow(r, H, i).hash = Prefix(H, i)
                             /\ ChainRow(r, H, i).previous_hash = Prefix(H, i - 1)
    BY <1>1 DEF ChainRow, ChainRows
<1>4. ASSUME NEW n \in 0 .. Len(H)
      PROVE  LinksTo(rs, n, Prefix(H, n))
    <2>1. CASE n = 0
        BY <2>1 DEF LinksTo, Prefix, NoHash
    <2>2. CASE n # 0
        <3>1. n \in 1 .. Len(H)
            BY <2>2, <1>2
        <3> QED
            BY <2>2, <3>1, <1>3 DEF LinksTo
    <2> QED
        BY <2>1, <2>2
<1>5. ASSUME NEW i \in 1 .. Len(H)
      PROVE  Prefix(H, i) = event_hash(r, i - 1, H[i].event, Prefix(H, i - 1))
    <2>1. i \in 0 .. Len(H) /\ i - 1 \in 0 .. Len(H) /\ i \in Nat
        BY <1>2
    <2>2. /\ Prefix(H, i - 1) \in Seq(Link) /\ Len(Prefix(H, i - 1)) = i - 1
          /\ Prefix(H, i) \in Hash /\ Len(Prefix(H, i)) = i
        BY <2>1, <1>1, PrefixIsHash DEF Hash
    <2>3. H[i] \in Link /\ H[i].run_id = r /\ H[i].seq = i - 1
        BY <1>1, ChainLinks DEF IsChain
    <2>4. H[i] = [run_id |-> r, seq |-> i - 1, event |-> H[i].event]
        BY <2>3 DEF Link
    <2> DEFINE G == Append(Prefix(H, i - 1), H[i])
    <2>5. /\ G \in Hash /\ Len(G) = i
          /\ \A k \in 1 .. i - 1 : G[k] = Prefix(H, i - 1)[k]
          /\ G[i] = H[i]
        BY <2>1, <2>2, <2>3, AppendProperties DEF Hash
    <2>6. \A k \in 1 .. i : G[k] = Prefix(H, i)[k]
        BY <2>1, <2>5 DEF Prefix
    <2> HIDE DEF G
    <2>7. G = Prefix(H, i)
        BY <2>2, <2>5, <2>6, ChainEqual
    <2> QED
        BY <2>4, <2>7 DEF event_hash, G
<1>6. RowsVerify(r, rs)
    <2>1. ASSUME NEW i \in 1 .. Len(H)
          PROVE  LET x == ChainRow(r, H, i)
                 IN  /\ x.run_id = r
                     /\ LinksTo(rs, x.seq, x.previous_hash)
                     /\ x.hash = event_hash(r, x.seq, x.event, x.previous_hash)
        <3>1. i - 1 \in 0 .. Len(H)
            BY <1>2
        <3> QED
            BY <3>1, <1>3, <1>4, <1>5
    <2>2. \A x, y \in rs : x.seq = y.seq => x = y
        BY <1>1, ChainRowsDistinct
    <2> QED
        BY <1>1, <2>1, <2>2 DEF RowsVerify, ChainRows
<1>7. HeadVerifies(rs, head)
    <2>1. {x.seq : x \in rs} = 0 .. (Len(H) - 1)
        BY <1>1, ChainSeqs
    <2>2. Prefix(H, Len(H)) = H
        BY <1>1, ChainLinks DEF Prefix
    <2>3. LinksTo(rs, Len(H), H)
        BY <1>2, <1>4, <2>2
    <2> QED
        BY <1>1, <2>1, <2>3 DEF HeadVerifies, H
<1> QED
    BY <1>6, <1>7 DEF ChainVerifies

-----------------------------------------------------------------------------
(* Steps                                                                   *)

\* g neither moved nor lost its transaction, unless the run records W that the
\* step wrote are among those its transaction writes.
Untouched(g, W) ==
    /\ pc'[g] = pc[g] /\ run'[g] = run[g] /\ expected'[g] = expected[g]
    /\ rows'[g] = rows[g] /\ call'[g] = call[g] /\ tx'[g] = tx[g]
    /\ pc[g] = "staged" /\ ~doomed'[g] => ~doomed[g] /\ WriteSet(g) \cap W = {}

\* A step of h that writes the run records W keeps the invariant when it keeps
\* it for h and for W: conflicts shield every other handle.
LEMMA StepKeepsInv ==
    ASSUME IInv, NEW h \in Handles, NEW W \in SUBSET Runs, TypeOK',
           \A g \in Handles : g # h => Untouched(g, W),
           \A r \in Runs : Exists(r) => Exists(r)',
           \A r \in Runs : r \notin W =>
               ag_run'[r] = ag_run[r] /\ RowsOf(r)' = RowsOf(r),
           \A r \in W : RunOK(r)',
           HandleOK(h)', RowsOK(h)', TxOK(h)'
    PROVE  IInv'
<1>1. ASSUME NEW r \in Runs
      PROVE  RunOK(r)'
    <2>1. CASE r \in W
        BY <2>1
    <2>2. CASE r \notin W
        BY <2>2 DEF IInv, RunOK, Exists
    <2> QED
        BY <2>1, <2>2
<1>2. ASSUME NEW g \in Handles, g # h
      PROVE  HandleOK(g)' /\ RowsOK(g)' /\ TxOK(g)'
    <2>1. Untouched(g, W) /\ HandleOK(g) /\ RowsOK(g) /\ TxOK(g)
        BY <1>2 DEF IInv
    <2>2. HandleOK(g)'
        BY <2>1 DEF Untouched, HandleOK
    <2>3. RowsOK(g)'
        BY <2>1 DEF Untouched, RowsOK
    <2>4. ASSUME pc'[g] = "staged", ~doomed'[g]
          PROVE  TxSound(g)'
        <3>1. TxSound(g) /\ pc[g] = "staged" /\ WriteSet(g) \cap W = {}
            BY <2>1, <2>4 DEF Untouched, TxOK
        <3>2. run[g] \in Runs /\ run[g] \notin W
            BY <2>1, <3>1 DEF HandleOK, WriteSet
        <3>3. ag_run'[run[g]] = ag_run[run[g]] /\ RowsOf(run[g])' = RowsOf(run[g])
            BY <2>1, <3>2 DEF Untouched
        <3>4. call[g].op = "fork" => ag_run'[call[g].child] = ag_run[call[g].child]
            BY <2>1, <3>1 DEF HandleOK, WriteSet
        <3> QED
            BY <2>1, <3>1, <3>3, <3>4
            DEF TxSound, HeadAsExpected, Exists, Untouched
    <2> QED
        BY <2>2, <2>3, <2>4 DEF TxOK
<1> QED
    BY <1>1, <1>2 DEF IInv

\* The same for a step that writes no table.
LEMMA LocalStepKeepsInv ==
    ASSUME IInv, NEW h \in Handles, TypeOK', UNCHANGED <<ag_run, ag_event>>,
           \A g \in Handles : g # h => Untouched(g, {}),
           HandleOK(h)', RowsOK(h)', TxOK(h)'
    PROVE  IInv'
<1>1. \A r \in Runs : ag_run'[r] = ag_run[r] /\ RowsOf(r)' = RowsOf(r)
    BY DEF RowsOf
<1>2. \A r \in Runs : Exists(r) => Exists(r)'
    BY <1>1 DEF Exists
<1>3. {} \in SUBSET Runs
    OBVIOUS
<1> HIDE DEF IInv
<1> QED
    BY <1>1, <1>2, <1>3, StepKeepsInv

\* The values the variables start from have their types.
LEMMA StartTypes ==
    /\ NoHash \in Hash /\ Len(NoHash) = 0
    /\ EmptyHead \in RunHead
    /\ NoMeta \in Meta
    /\ NoTx \in Tx
    /\ NoCall \in Call
    /\ NoCall.op = "none"
    /\ \A op \in {"open", "verify", "append", "truncate"} :
          /\ [NoCall EXCEPT !.op = op] \in Call
          /\ [NoCall EXCEPT !.op = op].op = op
<1>1. NoHash \in Hash /\ Len(NoHash) = 0
    BY DEF NoHash, Hash
<1>2. EmptyHead \in RunHead
    BY <1>1 DEF EmptyHead, RunHead
<1> QED
    BY <1>1, <1>2 DEF NoMeta, Meta, NoTx, Tx, NoCall, Call

\* The run record of an existing run has a head.
LEMMA RunRecord ==
    ASSUME TypeOK, NEW r \in Runs, Exists(r)
    PROVE  /\ ag_run[r] \in RunRow /\ ag_run[r].head \in RunHead
           /\ ag_run[r].head.next_seq \in Nat
           /\ ag_run[r].head.head_hash \in Hash
    BY DEF TypeOK, Exists, RunRow, RunHead

\* A run without events is sound.
LEMMA EmptyRun ==
    ASSUME NEW r
    PROVE  IsRun(r, EmptyHead, {})
    BY StartTypes DEF IsRun, IsChain, ChainRows, EmptyHead

\* A call that ends without writing keeps the invariant.
LEMMA RejectsKeepsInv ==
    ASSUME IInv, NEW h \in Handles, NEW o \in Outcomes, Rejects(h, o),
           pc[h] \notin {"closed", "create"}
    PROVE  IInv'
<1>1. TypeOK'
    BY StartTypes DEF IInv, TypeOK, Rejects, Ends, PCs
<1>2. \A g \in Handles : g # h => Untouched(g, {})
    BY DEF IInv, TypeOK, Rejects, Ends, Untouched
<1>3. pc'[h] = "idle" /\ call'[h] = NoCall
    BY DEF IInv, TypeOK, Rejects, Ends
<1>4. HandleOK(h)'
    BY <1>3, StartTypes DEF IInv, HandleOK, Exists, Rejects
<1>5. RowsOK(h)' /\ TxOK(h)'
    BY <1>3 DEF RowsOK, TxOK
<1> QED
    BY <1>1, <1>2, <1>4, <1>5, LocalStepKeepsInv DEF Rejects

\* Losing a handle keeps the invariant.
LEMMA GoneKeepsInv ==
    ASSUME IInv, NEW h \in Handles, NEW o \in Outcomes, Gone(h, o)
    PROVE  IInv'
<1>1. TypeOK'
    BY StartTypes DEF IInv, TypeOK, Gone, PCs, db
<1>2. \A g \in Handles : g # h => Untouched(g, {})
    BY DEF IInv, TypeOK, Gone, Untouched
<1>3. pc'[h] = "closed" /\ call'[h] = NoCall
    BY DEF IInv, TypeOK, Gone
<1>4. HandleOK(h)' /\ RowsOK(h)' /\ TxOK(h)'
    BY <1>3, StartTypes DEF HandleOK, RowsOK, TxOK
<1> QED
    BY <1>1, <1>2, <1>4, LocalStepKeepsInv DEF Gone, db

\* A call that goes on with its next read keeps the invariant.
LEMMA GotoKeepsInv ==
    ASSUME IInv, NEW h \in Handles, NEW p \in PCs \ {"closed", "staged"},
           Goto(h, p), TypeOK',
           UNCHANGED <<ag_run, ag_event, expected, tx, doomed>>,
           \A g \in Handles : g # h =>
               run'[g] = run[g] /\ rows'[g] = rows[g] /\ call'[g] = call[g],
           HandleOK(h)', RowsOK(h)'
    PROVE  IInv'
<1>1. \A g \in Handles : g # h => Untouched(g, {})
    BY DEF IInv, TypeOK, Goto, Untouched
<1>2. TxOK(h)'
    BY DEF IInv, TypeOK, Goto, TxOK
<1> QED
    BY <1>1, <1>2, LocalStepKeepsInv

\* Staging a sound transaction keeps the invariant.
LEMMA StageKeepsInv ==
    ASSUME IInv, NEW h \in Handles, NEW c \in Call, NEW t \in Tx, Stage(h, c, t),
           pc[h] \notin {"closed", "create"},
           c.op = "fork" => c.child \in Runs,
           TxSound(h)'
    PROVE  IInv'
<1>1. TypeOK'
    BY StartTypes DEF IInv, TypeOK, Stage, Goto, PCs, Outcomes
<1>2. \A g \in Handles : g # h => Untouched(g, {})
    BY DEF IInv, TypeOK, Stage, Goto, Untouched
<1>3. pc'[h] = "staged" /\ call'[h] = c
    BY DEF IInv, TypeOK, Stage, Goto
<1>4. HandleOK(h)'
    BY <1>3 DEF IInv, HandleOK, Exists, Stage
<1>5. RowsOK(h)' /\ TxOK(h)'
    BY <1>3 DEF RowsOK, TxOK
<1> QED
    BY <1>1, <1>2, <1>4, <1>5, LocalStepKeepsInv DEF Stage

-----------------------------------------------------------------------------
(* Opening and reading                                                     *)

\* The constructor's first look at the run keeps the invariant.
LEMMA OpenHandleKeepsInv ==
    ASSUME IInv, NEW h \in Handles, NEW r \in Runs, OpenHandle(h, r)
    PROVE  IInv'
<1> DEFINE p == IF Exists(r) THEN "rows" ELSE "create"
<1>1. p \in PCs \ {"closed", "staged"}
    BY DEF PCs
<1>2. TypeOK'
    BY StartTypes DEF IInv, TypeOK, OpenHandle, Goto, PCs, Outcomes
<1>3. pc'[h] = p /\ run'[h] = r /\ call'[h].op = "open" /\ UNCHANGED ag_run
    BY StartTypes DEF IInv, TypeOK, OpenHandle, Goto
<1>4. HandleOK(h)'
    BY <1>3 DEF HandleOK, Exists
<1>5. RowsOK(h)'
    BY <1>3 DEF RowsOK
<1>6. \A g \in Handles : g # h =>
          run'[g] = run[g] /\ rows'[g] = rows[g] /\ call'[g] = call[g]
    BY DEF IInv, TypeOK, OpenHandle
<1> QED
    BY <1>1, <1>2, <1>4, <1>5, <1>6, GotoKeepsInv DEF OpenHandle

\* Starting verify_integrity or iter_events keeps the invariant.
LEMMA StartVerifyKeepsInv ==
    ASSUME IInv, NEW h \in Handles, StartVerify(h)
    PROVE  IInv'
<1>1. TypeOK'
    BY StartTypes DEF IInv, TypeOK, StartVerify, Goto, PCs, Outcomes
<1>2. pc'[h] = "rows" /\ call'[h].op = "verify" /\ pc[h] = "idle"
    BY StartTypes DEF IInv, TypeOK, StartVerify, Goto
<1>3. HandleOK(h)' /\ RowsOK(h)'
    BY <1>2 DEF IInv, HandleOK, RowsOK, Exists, StartVerify
<1>4. \A g \in Handles : g # h =>
          run'[g] = run[g] /\ rows'[g] = rows[g] /\ call'[g] = call[g]
    BY DEF IInv, TypeOK, StartVerify
<1> QED
    BY <1>1, <1>3, <1>4, GotoKeepsInv DEF StartVerify, PCs

\* Starting fork_prefix keeps the invariant.
LEMMA StartForkKeepsInv ==
    ASSUME IInv, NEW h \in Handles, NEW child \in Runs, NEW at \in EventIds,
           NEW label \in Labels \cup {None}, StartFork(h, child, at, label)
    PROVE  IInv'
<1>1. [op |-> "fork", child |-> child, at |-> at, label |-> label] \in Call
    BY DEF Call
<1>2. TypeOK'
    BY <1>1, StartTypes DEF IInv, TypeOK, StartFork, Goto, PCs, Outcomes
<1>3. pc'[h] = "rows" /\ call'[h].child = child /\ pc[h] = "idle"
    BY DEF IInv, TypeOK, StartFork, Goto
<1>4. HandleOK(h)' /\ RowsOK(h)'
    BY <1>3 DEF IInv, HandleOK, RowsOK, Exists, StartFork
<1>5. \A g \in Handles : g # h =>
          run'[g] = run[g] /\ rows'[g] = rows[g] /\ call'[g] = call[g]
    BY DEF IInv, TypeOK, StartFork
<1> QED
    BY <1>2, <1>4, <1>5, GotoKeepsInv DEF StartFork, PCs

\* The first query of a verified read keeps the invariant: what it returns is
\* a chain.
LEMMA ReadRowsKeepsInv ==
    ASSUME IInv, NEW h \in Handles, ReadRows(h)
    PROVE  IInv'
<1> DEFINE r == run[h]
           H == ag_run[r].head.head_hash
<1>1. r \in Runs /\ Exists(r) /\ IsChain(r, H) /\ RowsOf(r) = ChainRows(r, H)
    BY DEF IInv, HandleOK, RunOK, IsRun, ReadRows
<1>2. TypeOK'
    BY StartTypes DEF IInv, TypeOK, ReadRows, Goto, PCs, Outcomes, RowsOf
<1>3. pc'[h] = "run" /\ rows'[h] = RowsOf(r) /\ run'[h] = r /\ call'[h] = call[h]
    BY DEF IInv, TypeOK, ReadRows, Goto
<1>4. H \in {NoHash} \cup {x.hash : x \in ChainRows(r, H)}
    <2>1. H \in Seq(Link) /\ Len(H) \in Nat
        BY <1>1, ChainLinks DEF IsChain, Hash
    <2>2. CASE Len(H) = 0
        BY <2>1, <2>2, EmptySeq DEF NoHash
    <2>3. CASE Len(H) # 0
        <3>1. Len(H) \in 1 .. Len(H)
            BY <2>1, <2>3
        <3>2. Prefix(H, Len(H)) = H
            BY <1>1, ChainLinks DEF Prefix
        <3>3. ChainRow(r, H, Len(H)) \in ChainRows(r, H)
            BY <3>1 DEF ChainRows
        <3>4. ChainRow(r, H, Len(H)).hash = H
            BY <3>2 DEF ChainRow
        <3> QED
            BY <3>3, <3>4
    <2> QED
        BY <2>2, <2>3
<1>5. HandleOK(h)'
    BY <1>1, <1>3 DEF IInv, HandleOK, Exists, ReadRows
<1>6. RowsOK(h)'
    <2> HIDE DEF H, r
    <2> QED
        BY <1>1, <1>3, <1>4 DEF RowsOK
<1>7. \A g \in Handles : g # h =>
          run'[g] = run[g] /\ rows'[g] = rows[g] /\ call'[g] = call[g]
    BY DEF IInv, TypeOK, ReadRows
<1> QED
    BY <1>2, <1>5, <1>6, <1>7, GotoKeepsInv DEF ReadRows, PCs

\* Rows that passed verification are the rows of the stored head.
LEMMA VerifiedRows ==
    ASSUME IInv, NEW h \in Handles, pc[h] = "run",
           ChainVerifies(run[h], rows[h], ag_run[run[h]].head)
    PROVE  /\ run[h] \in Runs /\ Exists(run[h])
           /\ IsRun(run[h], ag_run[run[h]].head, rows[h])
           /\ rows[h] = RowsOf(run[h])
<1>1. run[h] \in Runs /\ Exists(run[h]) /\ ag_run[run[h]].head \in RunHead
    BY RunRecord DEF IInv, HandleOK
<1>2. PICK H : IsChain(run[h], H) /\ rows[h] = ChainRows(run[h], H)
    BY DEF IInv, RowsOK
<1>3. IsRun(run[h], ag_run[run[h]].head, rows[h])
    BY <1>1, <1>2, VerifiedIsRun DEF ChainVerifies
<1>4. IsRun(run[h], ag_run[run[h]].head, RowsOf(run[h]))
    BY <1>1 DEF IInv, RunOK
<1> QED
    BY <1>1, <1>3, <1>4 DEF IsRun

\* A read that _verified_rows_and_run rejects keeps the invariant.
LEMMA VerifyFailsKeepsInv ==
    ASSUME IInv, NEW h \in Handles, VerifyFails(h)
    PROVE  IInv'
    BY RejectsKeepsInv, GoneKeepsInv DEF VerifyFails, Outcomes

\* The end of verify_integrity keeps the invariant.
LEMMA VerifyDoneKeepsInv ==
    ASSUME IInv, NEW h \in Handles, VerifyDone(h)
    PROVE  IInv'
    BY RejectsKeepsInv DEF VerifyDone, Verified, Outcomes

\* A query that fails in the middle of a call keeps the invariant.
LEMMA QueryFailsKeepsInv ==
    ASSUME IInv, NEW h \in Handles, QueryFails(h)
    PROVE  IInv'
<1>1. CASE call[h].op = "open"
    BY <1>1, GoneKeepsInv DEF QueryFails, Outcomes
<1>2. CASE call[h].op # "open"
    <2>1. pc[h] \notin {"closed", "create"}
        BY <1>2 DEF IInv, HandleOK, QueryFails
    <2> QED
        BY <1>2, <2>1, RejectsKeepsInv DEF QueryFails, Outcomes
<1> QED
    BY <1>1, <1>2

\* The constructor that adopts the verified head keeps the invariant.
LEMMA OpenDoneKeepsInv ==
    ASSUME IInv, NEW h \in Handles, OpenDone(h)
    PROVE  IInv'
<1>1. pc[h] = "run" /\ ag_run[run[h]].head \in RunHead
    BY RunRecord DEF IInv, HandleOK, OpenDone, Verified
<1>2. TypeOK'
    BY <1>1, StartTypes DEF IInv, TypeOK, OpenDone, Ends, PCs, Outcomes
<1>3. \A g \in Handles : g # h => Untouched(g, {})
    BY DEF IInv, TypeOK, OpenDone, Ends, Untouched
<1>4. pc'[h] = "idle" /\ call'[h] = NoCall
    BY DEF IInv, TypeOK, OpenDone, Ends
<1>5. HandleOK(h)'
    BY <1>1, <1>4, StartTypes DEF IInv, HandleOK, Exists, OpenDone
<1>6. RowsOK(h)' /\ TxOK(h)'
    BY <1>4 DEF RowsOK, TxOK
<1> QED
    BY <1>2, <1>3, <1>5, <1>6, LocalStepKeepsInv DEF OpenDone

-----------------------------------------------------------------------------
(* Writing                                                                 *)

\* append, up to its commit, keeps the invariant: what it stages is sound.
LEMMA AppendBeginKeepsInv ==
    ASSUME IInv, NEW h \in Handles, NEW e \in Event, AppendBegin(h, e)
    PROVE  IInv'
<1> DEFINE r == run[h]
           head == ag_run[r].head
           H == head.head_hash
           new_hash == event_hash(r, head.next_seq, e, H)
           row == [run_id |-> r, seq |-> head.next_seq, event |-> e,
                   previous_hash |-> H, hash |-> new_hash]
           c == [NoCall EXCEPT !.op = "append"]
           t == [head |-> [next_seq |-> head.next_seq + 1,
                           head_hash |-> new_hash],
                 create |-> {row}, delete |-> {}, child_head |-> EmptyHead]
<1>1. /\ r \in Runs /\ Exists(r) /\ IsChain(r, H) /\ head.next_seq = Len(H)
      /\ RowsOf(r) = ChainRows(r, H) /\ Len(H) \in Nat
    BY ChainLinks DEF IInv, HandleOK, RunOK, IsRun, AppendBegin
<1>2. ASSUME RowsNamed(r, e.id) = {}, HeadAsExpected(h), Stage(h, c, t)
      PROVE  IInv'
    <2>1. \A i \in 1 .. Len(H) : H[i].event.id # e.id
        <3>1. \A i \in 1 .. Len(H) : /\ ChainRow(r, H, i) \in RowsOf(r)
                                     /\ ChainRow(r, H, i).event = H[i].event
            BY <1>1 DEF ChainRow, ChainRows
        <3> QED
            BY <3>1, <1>2 DEF RowsNamed
    <2>2. /\ IsChain(r, new_hash) /\ Len(new_hash) = Len(H) + 1
          /\ row \in EventRow
          /\ ChainRows(r, new_hash) = RowsOf(r) \cup {row}
        BY <1>1, <2>1, AppendChain
    <2>3. /\ t.head = [next_seq |-> Len(H) + 1, head_hash |-> new_hash]
          /\ t.create = {row} /\ t.delete = {}
        BY <1>1
    <2>4. t \in Tx
        <3> HIDE DEF row, new_hash, H
        <3>1. new_hash \in Hash /\ head.next_seq + 1 \in Nat
            BY <1>1, <2>2 DEF IsChain
        <3> HIDE DEF head
        <3> QED
            BY <2>2, <3>1, StartTypes DEF Tx, RunHead
    <2>5. c \in Call /\ c.op = "append"
        BY StartTypes
    <2>6. /\ tx'[h] = t /\ call'[h] = c /\ run'[h] = r
          /\ UNCHANGED <<ag_run, ag_event, expected>>
        BY <1>2 DEF IInv, TypeOK, Stage
    <2>7. RowsOf(r)' = RowsOf(r)
        BY <2>6 DEF RowsOf
    <2>8. IsRun(r, t.head, (RowsOf(r) \ t.delete) \cup t.create)
        BY <1>1, <2>2, <2>3 DEF IsRun
    <2>9. TxSound(h)'
        <3>1. HeadAsExpected(h)'
            BY <1>2, <2>6 DEF HeadAsExpected
        <3>2. \A x \in t.create : x.run_id = r
            BY <2>3
        <3>3. t.delete = {}
            BY <2>3
        <3> HIDE DEF t, c, r
        <3> QED
            BY <2>5, <2>6, <2>7, <2>8, <3>1, <3>2, <3>3 DEF TxSound, RowsOf
    <2> HIDE DEF t, c
    <2> QED
        BY <1>2, <2>4, <2>5, <2>9, StageKeepsInv DEF AppendBegin
<1>3. ASSUME NEW o \in Outcomes, Rejects(h, o)
      PROVE  IInv'
    BY <1>3, RejectsKeepsInv DEF AppendBegin
<1> QED
    BY <1>2, <1>3 DEF AppendBegin, Outcomes

\* truncate_after, up to its commit, keeps the invariant.
LEMMA TruncateBeginKeepsInv ==
    ASSUME IInv, NEW h \in Handles, NEW id \in EventIds, TruncateBegin(h, id)
    PROVE  IInv'
<1> DEFINE r == run[h]
           H == ag_run[r].head.head_hash
           c == [NoCall EXCEPT !.op = "truncate"]
           t(x) == [head |-> [next_seq |-> x.seq + 1, head_hash |-> x.hash],
                    create |-> {},
                    delete |-> RowsAfter(r, x),
                    child_head |-> EmptyHead]
<1>1. /\ r \in Runs /\ Exists(r) /\ IsChain(r, H) /\ Len(H) \in Nat
      /\ RowsOf(r) = ChainRows(r, H)
    BY ChainLinks DEF IInv, HandleOK, RunOK, IsRun, TruncateBegin
<1>2. ASSUME NEW x \in RowsNamed(r, id), HeadAsExpected(h), Stage(h, c, t(x))
      PROVE  IInv'
    <2>1. PICK n \in 1 .. Len(H) : x = ChainRow(r, H, n)
        BY <1>1 DEF RowsNamed, ChainRows
    <2>2. x.seq = n - 1 /\ x.hash = Prefix(H, n) /\ x.seq + 1 = n
        BY <1>1, <2>1 DEF ChainRow
    <2>3. /\ IsChain(r, Prefix(H, n)) /\ Len(Prefix(H, n)) = n
          /\ ChainRows(r, Prefix(H, n))
                 = RowsOf(r) \ {y \in RowsOf(r) : y.seq > x.seq}
        BY <1>1, <2>2, TruncateChain
    <2>4. t(x) = [head |-> [next_seq |-> n, head_hash |-> Prefix(H, n)],
                  create |-> {}, delete |-> {y \in RowsOf(r) : y.seq > x.seq},
                  child_head |-> EmptyHead]
        BY <2>2 DEF RowsAfter
    <2>5. t(x) \in Tx
        <3>1. RowsOf(r) \subseteq EventRow
            BY DEF IInv, TypeOK, RowsOf
        <3>2. n \in Nat /\ Prefix(H, n) \in Hash
            BY <1>1, <2>3 DEF IsChain
        <3> QED
            BY <2>4, <3>1, <3>2, StartTypes DEF Tx, RunHead
    <2>6. c \in Call /\ c.op = "truncate"
        BY StartTypes
    <2>7. /\ tx'[h] = t(x) /\ call'[h] = c /\ run'[h] = r
          /\ UNCHANGED <<ag_run, ag_event, expected>>
        BY <1>2 DEF IInv, TypeOK, Stage
    <2>8. IsRun(r, t(x).head, (RowsOf(r) \ t(x).delete) \cup t(x).create)
        BY <2>3, <2>4 DEF IsRun
    <2>9. TxSound(h)'
        <3>1. HeadAsExpected(h)'
            BY <1>2, <2>7 DEF HeadAsExpected
        <3>2. t(x).create = {} /\ \A y \in t(x).delete : y.run_id = r
            BY <2>4 DEF RowsOf
        <3> HIDE DEF t, c, r
        <3> QED
            BY <2>6, <2>7, <2>8, <3>1, <3>2 DEF TxSound, RowsOf
    <2> HIDE DEF t, c
    <2> QED
        BY <1>2, <2>5, <2>6, <2>9, StageKeepsInv DEF TruncateBegin
<1>3. ASSUME NEW o \in Outcomes, Rejects(h, o)
      PROVE  IInv'
    BY <1>3, RejectsKeepsInv DEF TruncateBegin
<1> QED
    BY <1>2, <1>3 DEF TruncateBegin, Outcomes

\* The checks of fork_prefix on its parent keep the invariant.
LEMMA ForkCheckParentKeepsInv ==
    ASSUME IInv, NEW h \in Handles, ForkCheckParent(h)
    PROVE  IInv'
<1>1. pc[h] = "run" /\ call[h].op = "fork"
    BY DEF ForkCheckParent, Verified
<1>2. /\ run[h] \in Runs /\ Exists(run[h])
      /\ IsRun(run[h], ag_run[run[h]].head, rows[h])
    BY <1>1, VerifiedRows DEF ForkCheckParent, Verified
<1>3. ASSUME HeadAsExpected(h), \E x \in rows[h] : x.event.id = call[h].at,
             Goto(h, "dest"),
             UNCHANGED <<ag_run, ag_event, run, expected, rows, call, tx, doomed>>
      PROVE  IInv'
    <2>1. TypeOK'
        BY <1>3 DEF IInv, TypeOK, Goto, PCs, Outcomes
    <2>2. pc'[h] = "dest"
        BY <1>3 DEF IInv, TypeOK, Goto
    <2>3. HandleOK(h)'
        BY <1>1, <1>2, <1>3, <2>2 DEF IInv, HandleOK, Exists
    <2>4. RowsOK(h)'
        BY <1>2, <1>3, <2>2 DEF RowsOK, HeadAsExpected
    <2> QED
        BY <1>3, <2>1, <2>3, <2>4, GotoKeepsInv DEF PCs
<1>4. ASSUME NEW o \in Outcomes, Rejects(h, o)
      PROVE  IInv'
    BY <1>1, <1>4, RejectsKeepsInv
<1> QED
    BY <1>3, <1>4 DEF ForkCheckParent, Outcomes

\* The check of fork_prefix on its destination keeps the invariant.
LEMMA ForkCheckDestinationKeepsInv ==
    ASSUME IInv, NEW h \in Handles, ForkCheckDestination(h)
    PROVE  IInv'
<1>1. CASE Rejects(h, "RunAlreadyExistsError")
    BY <1>1, RejectsKeepsInv DEF ForkCheckDestination, Outcomes
<1>2. ASSUME Goto(h, "begin"),
             UNCHANGED <<ag_run, ag_event, run, expected, rows, call, tx, doomed>>
      PROVE  IInv'
    <2>1. TypeOK'
        BY <1>2 DEF IInv, TypeOK, Goto, PCs, Outcomes
    <2>2. pc[h] = "dest" /\ pc'[h] = "begin"
        BY <1>2 DEF IInv, TypeOK, Goto, ForkCheckDestination
    <2>3. HandleOK(h)'
        BY <1>2, <2>2 DEF IInv, HandleOK, Exists
    <2>4. RowsOK(h)'
        BY <1>2, <2>2 DEF IInv, RowsOK
    <2> QED
        BY <1>2, <2>1, <2>3, <2>4, GotoKeepsInv DEF PCs
<1> QED
    BY <1>1, <1>2 DEF ForkCheckDestination

\* fork_prefix, up to its commit, keeps the invariant: the copied rows make up
\* a run.
LEMMA ForkBeginKeepsInv ==
    ASSUME IInv, NEW h \in Handles, ForkBegin(h)
    PROVE  IInv'
<1> DEFINE child == call[h].child
           rs == rows[h]
           H == expected[h].head_hash
           n == PrefixLength(rs, call[h].at)
           new == [next_seq |-> n, head_hash |-> ChildHash(child, rs, n)]
           t == [head |-> expected[h], create |-> ChildRows(child, rs, n),
                 delete |-> {}, child_head |-> new]
<1>1. /\ pc[h] = "begin" /\ run[h] \in Runs /\ child \in Runs
      /\ call[h].op = "fork" /\ call[h] \in Call /\ expected[h] \in RunHead
    BY DEF IInv, TypeOK, HandleOK, ForkBegin
<1>2. IsChain(run[h], H) /\ rs = ChainRows(run[h], H) /\ Len(H) \in Nat
    BY <1>1, ChainLinks DEF IInv, RowsOK, IsRun
<1>3. n \in 1 .. Len(H)
    <2> DEFINE x == CHOOSE y \in rs : y.event.id = call[h].at
    <2>1. x \in rs
        BY <1>1 DEF IInv, RowsOK
    <2>2. PICK i \in 1 .. Len(H) : x = ChainRow(run[h], H, i)
        BY <1>2, <2>1 DEF ChainRows
    <2>3. x.seq + 1 = i
        <3> HIDE DEF x, H
        <3> QED
            BY <1>2, <2>2 DEF ChainRow
    <2> QED
        BY <2>3 DEF PrefixLength
<1>4. ASSUME HeadAsExpected(h), ~Exists(child), Stage(h, call[h], t)
      PROVE  IInv'
    <2>1. /\ ChildHash(child, rs, n) \in Hash
          /\ IsRun(child, new, ChildRows(child, rs, n))
        <3> HIDE DEF n, H, rs, child
        <3> QED
            BY <1>1, <1>2, <1>3, ForkChain
    <2>2. ChildRows(child, rs, n) \subseteq EventRow
        BY <1>1, <2>1, ChainRowsType DEF IsRun
    <2>3. t \in Tx
        <3>1. n \in Nat
            BY <1>2, <1>3
        <3> HIDE DEF n, rs, child
        <3> QED
            BY <1>1, <2>1, <2>2, <3>1 DEF Tx, RunHead
    <2>4. /\ tx'[h] = t /\ call'[h] = call[h]
          /\ UNCHANGED <<ag_run, ag_event, run, expected>>
        BY <1>4 DEF IInv, TypeOK, Stage
    <2>5. t.head = expected[h] /\ t.delete = {}
          /\ t.child_head = new /\ t.create = ChildRows(child, rs, n)
        OBVIOUS
    <2>6. TxSound(h)'
        <3> HIDE DEF t, new, n, rs
        <3> QED
            BY <1>1, <1>4, <2>1, <2>4, <2>5 DEF TxSound, HeadAsExpected, Exists
    <2> HIDE DEF t
    <2> QED
        BY <1>1, <1>4, <2>3, <2>6, StageKeepsInv
<1>5. ASSUME NEW o \in Outcomes, Rejects(h, o)
      PROVE  IInv'
    BY <1>1, <1>5, RejectsKeepsInv
<1> QED
    BY <1>4, <1>5 DEF ForkBegin, Outcomes

\* A transaction that is rolled back keeps the invariant.
LEMMA TransactionFailsKeepsInv ==
    ASSUME IInv, NEW h \in Handles, TransactionFails(h)
    PROVE  IInv'
<1>1. PICK conflict \in {doomed[h], FALSE} :
          doomed' = [doomed EXCEPT ![h] = conflict]
    BY DEF TransactionFails
<1>2. conflict \in BOOLEAN
    BY DEF IInv, TypeOK
<1>3. TypeOK'
    BY <1>1, <1>2 DEF IInv, TypeOK, TransactionFails, Goto, PCs, Outcomes
<1>4. \A g \in Handles : g # h => Untouched(g, {})
    BY <1>1 DEF IInv, TypeOK, TransactionFails, Goto, Untouched
<1>5. pc'[h] = "raise" /\ pc[h] \in {"begin", "staged"}
    BY DEF IInv, TypeOK, TransactionFails, Goto
<1>6. HandleOK(h)'
    BY <1>5 DEF IInv, HandleOK, Exists, TransactionFails
<1>7. RowsOK(h)' /\ TxOK(h)'
    BY <1>5 DEF RowsOK, TxOK
<1> QED
    BY <1>3, <1>4, <1>6, <1>7, LocalStepKeepsInv DEF TransactionFails

\* The error handlers of append, truncate_after and fork_prefix keep the
\* invariant.
LEMMA RaiseKeepsInv ==
    ASSUME IInv, NEW h \in Handles, Raise(h)
    PROVE  IInv'
<1>1. PICK readable \in BOOLEAN : Ends(h, RaisedError(h, readable))
    BY DEF Raise
<1>2. RaisedError(h, readable) \in Outcomes
    BY DEF RaisedError, Outcomes
<1>3. TypeOK'
    BY <1>1, <1>2, StartTypes DEF IInv, TypeOK, Raise, Ends, PCs
<1>4. \A g \in Handles : g # h => Untouched(g, {})
    BY <1>1 DEF IInv, TypeOK, Raise, Ends, Untouched
<1>5. pc'[h] = "idle" /\ call'[h] = NoCall /\ pc[h] = "raise"
    BY <1>1 DEF IInv, TypeOK, Raise, Ends
<1>6. HandleOK(h)'
    BY <1>5, StartTypes DEF IInv, HandleOK, Exists, Raise
<1>7. RowsOK(h)' /\ TxOK(h)'
    BY <1>5 DEF RowsOK, TxOK
<1> QED
    BY <1>3, <1>4, <1>6, <1>7, LocalStepKeepsInv DEF Raise

-----------------------------------------------------------------------------
(* Steps that change the tables                                            *)

\* _ensure_run keeps the invariant, whoever created the run first.
LEMMA EnsureRunCreateKeepsInv ==
    ASSUME IInv, NEW h \in Handles, EnsureRunCreate(h)
    PROVE  IInv'
<1> DEFINE r == run[h]
           row == [head |-> EmptyHead, meta |-> NoMeta]
<1>1. pc[h] = "create" /\ r \in Runs /\ call[h].op = "open"
    BY DEF IInv, HandleOK, EnsureRunCreate
<1>2. row \in RunRow /\ row # None /\ row.head = EmptyHead
    BY StartTypes, NoneAssumption DEF RunRow
<1>3. pc'[h] = "rows" /\ UNCHANGED <<ag_event, run, expected, rows, call, tx>>
    BY DEF IInv, TypeOK, EnsureRunCreate, Goto
<1>4. \A g \in Handles : g # h => pc'[g] = pc[g]
    BY DEF IInv, TypeOK, EnsureRunCreate, Goto
<1>5. RowsOK(h)' /\ TxOK(h)'
    BY <1>3 DEF RowsOK, TxOK
<1>6. CASE /\ ~Exists(r)
           /\ ag_run' = [ag_run EXCEPT ![r] = row]
           /\ doomed' = Dooms(h, {r})
    <2>1. TypeOK'
        <3>1. ag_run' \in [Runs -> RunRow \cup {None}]
            BY <1>2, <1>6 DEF IInv, TypeOK
        <3>2. doomed' \in [Handles -> BOOLEAN]
            BY <1>6 DEF IInv, TypeOK, Dooms
        <3> QED
            BY <3>1, <3>2 DEF IInv, TypeOK, EnsureRunCreate, Goto, PCs, Outcomes
    <2>2. ag_run'[r] = row /\ \A q \in Runs : q # r => ag_run'[q] = ag_run[q]
        BY <1>1, <1>6 DEF IInv, TypeOK
    <2>3. \A q \in Runs : RowsOf(q)' = RowsOf(q)
        BY <1>3 DEF RowsOf
    <2>4. RunOK(r)'
        <3>1. RowsOf(r) = {}
            BY <1>1, <1>6 DEF IInv, RunOK
        <3>2. RowsOf(r)' = {} /\ Exists(r)'
            BY <1>1, <1>2, <1>3, <2>2, <2>3, <3>1 DEF Exists
        <3>3. ag_run'[r].head = EmptyHead
            BY <1>2, <2>2
        <3> QED
            BY <1>3, <3>2, <3>3, EmptyRun DEF RunOK
    <2>5. HandleOK(h)'
        BY <1>1, <1>2, <1>3, <2>2 DEF IInv, HandleOK, Exists
    <2>6. \A g \in Handles : g # h => Untouched(g, {r})
        BY <1>3, <1>4, <1>6 DEF IInv, TypeOK, Dooms, Untouched
    <2>7. \A q \in Runs : Exists(q) => Exists(q)'
        BY <1>2, <2>2 DEF Exists
    <2>8. \A q \in {r} : RunOK(q)'
        BY <1>3, <2>4
    <2> HIDE DEF row
    <2> QED
        BY <1>1, <1>5, <2>1, <2>2, <2>3, <2>5, <2>6, <2>7, <2>8, StepKeepsInv
<1>7. CASE Exists(r) /\ UNCHANGED <<ag_run, doomed>>
    <2>1. TypeOK'
        BY <1>7 DEF IInv, TypeOK, EnsureRunCreate, Goto, PCs, Outcomes
    <2>2. \A g \in Handles : g # h => Untouched(g, {})
        BY <1>3, <1>4, <1>7 DEF Untouched
    <2>3. HandleOK(h)'
        BY <1>1, <1>3, <1>7 DEF IInv, HandleOK, Exists
    <2> QED
        BY <1>3, <1>5, <1>7, <2>1, <2>2, <2>3, LocalStepKeepsInv
<1> QED
    BY <1>6, <1>7 DEF EnsureRunCreate

\* The read of upsert_run keeps the invariant.
LEMMA UpsertRunKeepsInv ==
    ASSUME IInv, NEW h \in Handles, NEW patch \in Patches, UpsertRun(h, patch)
    PROVE  IInv'
<1> DEFINE c == [op |-> "upsert", child |-> patch.parent_run_id,
                 at |-> patch.forked_at_event_id, label |-> patch.label]
<1>1. pc[h] = "idle"
    BY DEF UpsertRun
<1>2. c \in Call
    BY PatchesAssumption DEF Call, Meta
<1>3. ASSUME Goto(h, "merge"), call' = [call EXCEPT ![h] = c],
             UNCHANGED <<ag_run, ag_event, run, expected, rows, tx, doomed>>
      PROVE  IInv'
    <2>1. pc'[h] = "merge" /\ call'[h] = c /\ call'[h].op = "upsert"
        BY <1>3 DEF IInv, TypeOK, Goto
    <2>2. TypeOK'
        <3> HIDE DEF c
        <3> QED
            BY <1>2, <1>3 DEF IInv, TypeOK, Goto, PCs, Outcomes
    <2>3. HandleOK(h)' /\ RowsOK(h)'
        BY <1>1, <1>3, <2>1 DEF IInv, HandleOK, RowsOK, Exists
    <2>4. \A g \in Handles : g # h =>
              run'[g] = run[g] /\ rows'[g] = rows[g] /\ call'[g] = call[g]
        BY <1>3 DEF IInv, TypeOK
    <2> QED
        BY <1>3, <2>2, <2>3, <2>4, GotoKeepsInv DEF PCs
<1>4. ASSUME NEW o \in {"ok", "Error"}, Rejects(h, o)
      PROVE  IInv'
    BY <1>1, <1>4, RejectsKeepsInv DEF Outcomes
<1> QED
    BY <1>3, <1>4 DEF UpsertRun

\* Merging arguments of upsert_run into metadata gives metadata.
LEMMA MergedIsMeta ==
    ASSUME NEW c \in Call, NEW old \in Meta
    PROVE  Merged(c, old) \in Meta
    BY DEF Merged, Meta, Call, Coalesce

\* The merge of upsert_run keeps the invariant: it leaves the head alone.
LEMMA MergeRunKeepsInv ==
    ASSUME IInv, NEW h \in Handles, MergeRun(h)
    PROVE  IInv'
<1> DEFINE r == run[h]
           m == Merged(call[h], ag_run[r].meta)
<1>1. pc[h] = "merge" /\ r \in Runs /\ Exists(r) /\ ag_run[r] \in RunRow
    BY RunRecord DEF IInv, HandleOK, MergeRun
<1>2. m \in Meta
    BY <1>1, MergedIsMeta DEF IInv, TypeOK, RunRow
<1>3. ag_run' = [ag_run EXCEPT ![r].meta = m] /\ doomed' = Dooms(h, {r})
    BY DEF MergeRun
<1>4. UNCHANGED <<ag_event, run, expected>> /\ \E o \in {"ok", "Error"} : Ends(h, o)
    BY DEF MergeRun
<1>5. pc'[h] = "idle" /\ call'[h] = NoCall /\ run'[h] = r
    BY <1>4 DEF IInv, TypeOK, Ends
<1> HIDE DEF m
<1>6. /\ ag_run'[r] = [ag_run[r] EXCEPT !.meta = m]
      /\ \A q \in Runs : q # r => ag_run'[q] = ag_run[q]
    BY <1>1, <1>3 DEF IInv, TypeOK
<1>7. ag_run'[r] \in RunRow /\ ag_run'[r].head = ag_run[r].head
    BY <1>1, <1>2, <1>6 DEF RunRow
<1>8. ag_run'[r] # None
    BY <1>7, NoneAssumption
<1>9. TypeOK'
    <2>1. ag_run' \in [Runs -> RunRow \cup {None}]
        BY <1>3, <1>6, <1>7 DEF IInv, TypeOK
    <2>2. doomed' \in [Handles -> BOOLEAN]
        BY <1>3 DEF IInv, TypeOK, Dooms
    <2>3. PICK o \in {"ok", "Error"} : Ends(h, o)
        BY <1>4
    <2>4. /\ pc' \in [Handles -> PCs] /\ outcome' \in [Handles -> Outcomes]
          /\ rows' \in [Handles -> SUBSET EventRow]
          /\ call' \in [Handles -> Call] /\ tx' \in [Handles -> Tx]
        BY <2>3, StartTypes DEF IInv, TypeOK, Ends, PCs, Outcomes
    <2> QED
        BY <1>4, <2>1, <2>2, <2>4 DEF IInv, TypeOK
<1>10. \A q \in Runs : RowsOf(q)' = RowsOf(q)
    BY <1>4 DEF RowsOf
<1>11. \A q \in Runs : Exists(q) => Exists(q)'
    BY <1>6, <1>8 DEF Exists
<1>12. RunOK(r) /\ RowsOf(r)' = RowsOf(r)
    BY <1>1, <1>4, <1>10 DEF IInv, RowsOf
<1>13. \A q \in {r} : RunOK(q)'
    BY <1>1, <1>4, <1>7, <1>8, <1>12 DEF RunOK, Exists
<1>14. HandleOK(h)'
    BY <1>1, <1>5, <1>8, StartTypes DEF HandleOK, Exists
<1>15. RowsOK(h)' /\ TxOK(h)'
    BY <1>5 DEF RowsOK, TxOK
<1>16. \A g \in Handles : g # h => Untouched(g, {r})
    BY <1>3, <1>4 DEF IInv, TypeOK, Ends, Dooms, Untouched
<1> QED
    BY <1>1, <1>6, <1>9, <1>10, <1>11, <1>13, <1>14, <1>15, <1>16, StepKeepsInv

\* What applying an undoomed transaction makes of the tables.
LEMMA ApplyKeepsRuns ==
    ASSUME IInv, NEW h \in Handles, pc[h] = "staged", Apply(h), UNCHANGED run
    PROVE  /\ WriteSet(h) \in SUBSET Runs
           /\ ag_run' \in [Runs -> RunRow \cup {None}]
           /\ ag_event' \in SUBSET EventRow
           /\ \A q \in Runs : Exists(q) => Exists(q)'
           /\ \A q \in Runs : q \notin WriteSet(h) =>
                 ag_run'[q] = ag_run[q] /\ RowsOf(q)' = RowsOf(q)
           /\ \A q \in WriteSet(h) : RunOK(q)'
<1>a. PICK r : r = run[h]
    OBVIOUS
<1>b. PICK c : c = call[h].child
    OBVIOUS
<1>c. PICK t : t = tx[h]
    OBVIOUS
<1> DEFINE fork == call[h].op = "fork"
           row == [head |-> t.child_head,
                   meta |-> [parent_run_id |-> r,
                             forked_at_event_id |-> call[h].at,
                             label |-> call[h].label]]
<1>1. /\ r \in Runs /\ Exists(r) /\ TxSound(h) /\ (fork => c \in Runs)
      /\ t \in Tx /\ call[h] \in Call
    BY <1>a, <1>b, <1>c DEF IInv, TypeOK, HandleOK, TxOK, Apply
<1>2. /\ t.head \in RunHead /\ t.child_head \in RunHead
      /\ t.create \subseteq EventRow /\ t.delete \subseteq EventRow
    BY <1>1 DEF Tx
<1>3. row \in RunRow /\ row # None /\ row.head = t.child_head
    <2>1. call[h].at \in EventIds \cup {None} /\ call[h].label \in Labels \cup {None}
        BY <1>1 DEF Call
    <2>2. row \in RunRow
        BY <1>1, <1>2, <2>1 DEF RunRow, Meta
    <2> QED
        BY <2>2, NoneAssumption
<1>4. ag_run[r] \in RunRow /\ [ag_run[r] EXCEPT !.head = t.head] \in RunRow
      /\ [ag_run[r] EXCEPT !.head = t.head].head = t.head
    <2>1. ag_run[r] \in RunRow
        BY <1>1, RunRecord DEF IInv
    <2> QED
        BY <1>2, <2>1 DEF RunRow
<1>5. fork => c # r
    BY <1>1, <1>b DEF TxSound
<1> HIDE DEF row
<1>6. /\ ag_run'[r] = [ag_run[r] EXCEPT !.head = t.head]
      /\ fork => ag_run'[c] = row
      /\ \A q \in Runs : q # r /\ (fork => q # c) => ag_run'[q] = ag_run[q]
    BY <1>1, <1>5, <1>a, <1>b, <1>c DEF Apply, row
<1>7. ag_run' \in [Runs -> RunRow \cup {None}]
    <2>1. \A q \in Runs : ag_run'[q] \in RunRow \cup {None}
        BY <1>3, <1>4, <1>6 DEF IInv, TypeOK
    <2>2. ag_run' = [q \in Runs |-> ag_run'[q]]
        BY DEF Apply
    <2> QED
        BY <2>1, <2>2
<1>8. \A q \in Runs : Exists(q) => Exists(q)'
    BY <1>3, <1>4, <1>6, NoneAssumption DEF Exists
<1>9. ag_event' = (ag_event \ t.delete) \cup t.create
    BY <1>c DEF Apply
<1>10. CASE ~fork
    <2>1. WriteSet(h) = {r}
        BY <1>a, <1>10 DEF WriteSet
    <2>2. /\ \A x \in t.create \cup t.delete : x.run_id = r
          /\ IsRun(r, t.head, (RowsOf(r) \ t.delete) \cup t.create)
        BY <1>1, <1>10, <1>a, <1>c DEF TxSound
    <2>3. RowsOf(r)' = (RowsOf(r) \ t.delete) \cup t.create
        BY <1>9, <2>2 DEF RowsOf
    <2>4. \A q \in Runs : q # r => RowsOf(q)' = RowsOf(q)
        BY <1>9, <2>2 DEF RowsOf
    <2>5. Exists(r)' /\ ag_run'[r].head = t.head
        BY <1>1, <1>4, <1>6, <1>8
    <2>6. RunOK(r)'
        BY <2>2, <2>3, <2>5 DEF RunOK
    <2> QED
        BY <1>1, <1>2, <1>6, <1>7, <1>8, <1>9, <1>10, <2>1, <2>4, <2>6
        DEF IInv, TypeOK
<1>11. CASE fork
    <2>1. WriteSet(h) = {r, c}
        BY <1>a, <1>b, <1>11 DEF WriteSet
    <2>2. /\ t.delete = {} /\ ~Exists(c) /\ t.head = expected[h]
          /\ HeadAsExpected(h) /\ IsRun(c, t.child_head, t.create)
        BY <1>1, <1>11, <1>b, <1>c DEF TxSound
    <2>3. \A x \in t.create : x.run_id = c
        BY <2>2, ChainRowsDistinct DEF IsRun
    <2>4. \A q \in Runs : q # c => RowsOf(q)' = RowsOf(q)
        BY <1>9, <2>2, <2>3 DEF RowsOf
    <2>5. RowsOf(c)' = t.create
        <3>1. RowsOf(c) = {}
            BY <1>1, <1>11, <2>2 DEF IInv, RunOK
        <3> QED
            BY <1>9, <2>2, <2>3, <3>1 DEF RowsOf
    <2>6. RunOK(c)'
        <3>1. Exists(c)' /\ ag_run'[c].head = t.child_head
            BY <1>3, <1>6, <1>11 DEF Exists
        <3> QED
            BY <2>2, <2>5, <3>1 DEF RunOK
    <2>7. RunOK(r)'
        <3>1. Exists(r)' /\ ag_run'[r].head = ag_run[r].head
            BY <1>1, <1>4, <1>6, <1>8, <2>2, <1>a DEF HeadAsExpected
        <3>2. RowsOf(r)' = RowsOf(r)
            BY <1>1, <1>5, <1>11, <2>4
        <3>3. IsRun(r, ag_run[r].head, RowsOf(r))
            BY <1>1 DEF IInv, RunOK
        <3> QED
            BY <3>1, <3>2, <3>3 DEF RunOK
    <2> QED
        BY <1>1, <1>2, <1>6, <1>7, <1>8, <1>9, <1>11, <2>1, <2>4, <2>6, <2>7
        DEF IInv, TypeOK
<1> QED
    BY <1>10, <1>11

\* A commit whose answer arrives keeps the invariant.
LEMMA CommitAcknowledgedKeepsInv ==
    ASSUME IInv, NEW h \in Handles, CommitAcknowledged(h)
    PROVE  IInv'
<1>1. pc[h] = "staged" /\ tx[h].head \in RunHead /\ run[h] \in Runs /\ Exists(run[h])
    BY DEF IInv, TypeOK, HandleOK, CommitAcknowledged, Tx
<1>2. /\ WriteSet(h) \in SUBSET Runs
      /\ ag_run' \in [Runs -> RunRow \cup {None}]
      /\ ag_event' \in SUBSET EventRow
      /\ \A q \in Runs : Exists(q) => Exists(q)'
      /\ \A q \in Runs : q \notin WriteSet(h) =>
             ag_run'[q] = ag_run[q] /\ RowsOf(q)' = RowsOf(q)
      /\ \A q \in WriteSet(h) : RunOK(q)'
    BY <1>1, ApplyKeepsRuns DEF CommitAcknowledged
<1>3. doomed' \in [Handles -> BOOLEAN]
    BY DEF IInv, TypeOK, CommitAcknowledged, Dooms
<1>4. TypeOK'
    BY <1>1, <1>2, <1>3, StartTypes
    DEF IInv, TypeOK, CommitAcknowledged, Ends, PCs, Outcomes
<1>5. \A g \in Handles : g # h => Untouched(g, WriteSet(h))
    BY DEF IInv, TypeOK, CommitAcknowledged, Ends, Dooms, Untouched
<1>6. pc'[h] = "idle" /\ call'[h] = NoCall /\ run'[h] = run[h]
    BY DEF IInv, TypeOK, CommitAcknowledged, Ends
<1>7. HandleOK(h)'
    BY <1>1, <1>2, <1>6, StartTypes DEF HandleOK, Exists
<1>8. RowsOK(h)' /\ TxOK(h)'
    BY <1>6 DEF RowsOK, TxOK
<1> QED
    BY <1>2, <1>4, <1>5, <1>7, <1>8, StepKeepsInv

\* A commit whose answer is lost keeps the invariant.
LEMMA CommitUnacknowledgedKeepsInv ==
    ASSUME IInv, NEW h \in Handles, CommitUnacknowledged(h)
    PROVE  IInv'
<1>1. pc[h] = "staged" /\ run[h] \in Runs /\ Exists(run[h])
    BY DEF IInv, HandleOK, CommitUnacknowledged
<1>2. /\ WriteSet(h) \in SUBSET Runs
      /\ ag_run' \in [Runs -> RunRow \cup {None}]
      /\ ag_event' \in SUBSET EventRow
      /\ \A q \in Runs : Exists(q) => Exists(q)'
      /\ \A q \in Runs : q \notin WriteSet(h) =>
             ag_run'[q] = ag_run[q] /\ RowsOf(q)' = RowsOf(q)
      /\ \A q \in WriteSet(h) : RunOK(q)'
    BY <1>1, ApplyKeepsRuns DEF CommitUnacknowledged
<1>3. doomed' \in [Handles -> BOOLEAN]
    BY DEF IInv, TypeOK, CommitUnacknowledged, Dooms
<1>4. TypeOK'
    BY <1>2, <1>3 DEF IInv, TypeOK, CommitUnacknowledged, Goto, PCs, Outcomes
<1>5. \A g \in Handles : g # h => Untouched(g, WriteSet(h))
    BY DEF IInv, TypeOK, CommitUnacknowledged, Goto, Dooms, Untouched
<1>6. pc'[h] = "raise" /\ call'[h] = call[h] /\ run'[h] = run[h]
    BY DEF IInv, TypeOK, CommitUnacknowledged, Goto
<1>7. HandleOK(h)'
    BY <1>1, <1>2, <1>6 DEF IInv, HandleOK, Exists
<1>8. RowsOK(h)' /\ TxOK(h)'
    BY <1>6 DEF RowsOK, TxOK
<1> QED
    BY <1>2, <1>4, <1>5, <1>7, <1>8, StepKeepsInv

-----------------------------------------------------------------------------
(* The invariant                                                           *)

\* The empty database satisfies the invariant.
LEMMA InitImpliesInv == Init => IInv
<1> SUFFICES ASSUME Init PROVE IInv
    OBVIOUS
<1>1. TypeOK
    BY StartTypes DEF Init, TypeOK, PCs, Outcomes
<1>2. \A r \in Runs : RunOK(r)
    BY DEF Init, RunOK, Exists, RowsOf
<1>3. \A h \in Handles : HandleOK(h) /\ RowsOK(h) /\ TxOK(h)
    BY StartTypes DEF Init, HandleOK, RowsOK, TxOK
<1> QED
    BY <1>1, <1>2, <1>3 DEF IInv

\* Every step of every handle keeps the invariant.
LEMMA NextKeepsInv == IInv /\ [Next]_vars => IInv'
<1> SUFFICES ASSUME IInv, [Next]_vars PROVE IInv'
    OBVIOUS
<1>1. ASSUME NEW h \in Handles, Start(h)
      PROVE  IInv'
    BY <1>1, OpenHandleKeepsInv, StartVerifyKeepsInv, AppendBeginKeepsInv,
       TruncateBeginKeepsInv, StartForkKeepsInv, UpsertRunKeepsInv DEF Start
<1>2. ASSUME NEW h \in Handles, Continue(h)
      PROVE  IInv'
    BY <1>2, EnsureRunCreateKeepsInv, ReadRowsKeepsInv, VerifyFailsKeepsInv,
       OpenDoneKeepsInv, VerifyDoneKeepsInv, ForkCheckParentKeepsInv,
       ForkCheckDestinationKeepsInv, ForkBeginKeepsInv,
       CommitAcknowledgedKeepsInv, CommitUnacknowledgedKeepsInv,
       TransactionFailsKeepsInv, RaiseKeepsInv, MergeRunKeepsInv,
       QueryFailsKeepsInv DEF Continue
<1>3. ASSUME NEW h \in Handles, Close(h)
      PROVE  IInv'
    BY <1>3, GoneKeepsInv DEF Close, Outcomes
<1>4. ASSUME UNCHANGED vars
      PROVE  IInv'
    <2>1. TypeOK'
        BY <1>4 DEF vars, IInv, TypeOK
    <2>2. ASSUME NEW r \in Runs
          PROVE  RunOK(r)'
        BY <1>4 DEF vars, IInv, RunOK, Exists, RowsOf
    <2>3. ASSUME NEW h \in Handles
          PROVE  HandleOK(h)' /\ RowsOK(h)' /\ TxOK(h)'
        <3>1. HandleOK(h)'
            BY <1>4 DEF vars, IInv, HandleOK, Exists
        <3>2. RowsOK(h)'
            BY <1>4 DEF vars, IInv, RowsOK
        <3>3. TxOK(h)'
            BY <1>4 DEF vars, IInv, TxOK, TxSound, HeadAsExpected, Exists, RowsOf
        <3> QED
            BY <3>1, <3>2, <3>3
    <2> QED
        BY <2>1, <2>2, <2>3 DEF IInv
<1> QED
    BY <1>1, <1>2, <1>3, <1>4 DEF Next

\* The inductive invariant holds in every reachable state.
THEOREM InvariantHolds == Spec => []IInv
    BY InitImpliesInv, NextKeepsInv, PTL DEF Spec

\* Every variable of the store and its handles keeps its type.
THEOREM TypeCorrect == Spec => []TypeOK
<1>1. IInv => TypeOK
    BY DEF IInv
<1> QED
    BY <1>1, InvariantHolds, PTL

\* For any number of handles, runs and events, whatever append, truncate_after,
\* fork_prefix, constructors, lost answers and crashes interleave, the stored
\* rows of every run verify against its head.
THEOREM LedgerAlwaysIntact == Spec => []LedgerIntact
<1>1. IInv => LedgerIntact
    <2> SUFFICES ASSUME IInv, NEW r \in Runs, Exists(r)
                 PROVE  /\ ChainVerifies(r, RowsOf(r), ag_run[r].head)
                        /\ \A x, y \in RowsOf(r) :
                               x.event.id = y.event.id => x = y
        BY DEF LedgerIntact, IInv, RunOK
    <2>1. IsRun(r, ag_run[r].head, RowsOf(r))
        BY DEF IInv, RunOK
    <2>2. ChainVerifies(r, RowsOf(r), ag_run[r].head)
        BY <2>1, RunVerifies
    <2>3. \A x, y \in RowsOf(r) : x.event.id = y.event.id => x = y
        BY <2>1, ChainRowsDistinct DEF IsRun
    <2> QED
        BY <2>2, <2>3
<1> QED
    BY <1>1, InvariantHolds, PTL

-----------------------------------------------------------------------------
(* What a step may do                                                      *)

\* A step of g leaves the control of every other handle alone.
LEMMA OthersStay ==
    ASSUME TypeOK, NEW g \in Handles, NEW h \in Handles, g # h,
           Start(g) \/ Continue(g) \/ Close(g)
    PROVE  pc'[h] = pc[h]
<1> USE DEF TypeOK
<1>1. ASSUME NEW p, Goto(g, p) PROVE pc'[h] = pc[h]
    BY <1>1 DEF Goto
<1>2. ASSUME NEW o, Ends(g, o) PROVE pc'[h] = pc[h]
    BY <1>2 DEF Ends
<1>3. ASSUME NEW o, Gone(g, o) PROVE pc'[h] = pc[h]
    BY <1>3 DEF Gone
<1>4. ASSUME NEW o, Rejects(g, o) PROVE pc'[h] = pc[h]
    BY <1>2, <1>4 DEF Rejects
<1>5. ASSUME NEW c, NEW t, Stage(g, c, t) PROVE pc'[h] = pc[h]
    BY <1>1, <1>5 DEF Stage
<1>6. CASE Start(g)
    <2>1. ASSUME NEW r \in Runs, OpenHandle(g, r) PROVE pc'[h] = pc[h]
        BY <1>1, <2>1 DEF OpenHandle
    <2>2. CASE StartVerify(g)
        BY <1>1, <2>2 DEF StartVerify
    <2>3. ASSUME NEW e \in Event, AppendBegin(g, e) PROVE pc'[h] = pc[h]
        BY <1>4, <1>5, <2>3 DEF AppendBegin
    <2>4. ASSUME NEW id \in EventIds, TruncateBegin(g, id) PROVE pc'[h] = pc[h]
        BY <1>4, <1>5, <2>4 DEF TruncateBegin
    <2>5. ASSUME NEW c \in Runs, NEW at \in EventIds, NEW l \in Labels \cup {None},
                 StartFork(g, c, at, l)
          PROVE  pc'[h] = pc[h]
        BY <1>1, <2>5 DEF StartFork
    <2>6. ASSUME NEW p \in Patches, UpsertRun(g, p) PROVE pc'[h] = pc[h]
        BY <1>1, <1>4, <2>6 DEF UpsertRun
    <2> QED
        BY <1>6, <2>1, <2>2, <2>3, <2>4, <2>5, <2>6 DEF Start
<1>7. CASE Continue(g)
    <2>1. CASE EnsureRunCreate(g) \/ ReadRows(g) \/ CommitUnacknowledged(g)
                  \/ TransactionFails(g)
        BY <1>1, <2>1
        DEF EnsureRunCreate, ReadRows, CommitUnacknowledged, TransactionFails
    <2>2. CASE OpenDone(g) \/ CommitAcknowledged(g) \/ Raise(g) \/ MergeRun(g)
        BY <1>2, <2>2 DEF OpenDone, CommitAcknowledged, Raise, MergeRun
    <2>3. CASE VerifyFails(g) \/ VerifyDone(g) \/ QueryFails(g)
        BY <1>3, <1>4, <2>3 DEF VerifyFails, VerifyDone, QueryFails
    <2>4. CASE ForkCheckParent(g) \/ ForkCheckDestination(g) \/ ForkBegin(g)
        BY <1>1, <1>4, <1>5, <2>4
        DEF ForkCheckParent, ForkCheckDestination, ForkBegin
    <2> QED
        BY <1>7, <2>1, <2>2, <2>3, <2>4 DEF Continue
<1>8. CASE Close(g)
    BY <1>3, <1>8 DEF Close
<1> QED
    BY <1>6, <1>7, <1>8

\* A read that was accepted saw the rows the run has at that very moment, for
\* any number of writers committing between its two queries.
THEOREM VerifiedReadsAreAtomic == Spec => VerifiedReadIsAtomic
<1> DEFINE A(h) == /\ pc[h] = "run" /\ pc'[h] \in {"idle", "dest"}
                   /\ outcome'[h] \notin {"LedgerIntegrityError", "Error"}
                   => rows[h] = RowsOf(run[h])
<1>1. ASSUME IInv, Next, NEW h \in Handles PROVE A(h)
    <2> SUFFICES ASSUME pc[h] = "run", pc'[h] \in {"idle", "dest"},
                        outcome'[h] \notin {"LedgerIntegrityError", "Error"}
                 PROVE  rows[h] = RowsOf(run[h])
        OBVIOUS
    <2>1. TypeOK
        BY <1>1 DEF IInv
    <2>2. Start(h) \/ Continue(h) \/ Close(h)
        BY <1>1, <2>1, OthersStay DEF Next
    <2>3. ~Start(h)
        BY DEF Start, OpenHandle, StartVerify, AppendBegin, TruncateBegin,
               StartFork, UpsertRun
    <2>4. ~Close(h)
        BY <2>1 DEF Close, Gone, TypeOK
    <2>5. ~VerifyFails(h) /\ ~QueryFails(h)
        BY <2>1 DEF VerifyFails, QueryFails, Gone, Rejects, Ends, TypeOK
    <2>6. OpenDone(h) \/ VerifyDone(h) \/ ForkCheckParent(h)
        BY <2>2, <2>3, <2>4, <2>5
        DEF Continue, EnsureRunCreate, ReadRows, ForkCheckDestination, ForkBegin,
            CommitAcknowledged, CommitUnacknowledged, TransactionFails, Raise,
            MergeRun
    <2>7. ChainVerifies(run[h], rows[h], ag_run[run[h]].head)
        BY <2>6 DEF OpenDone, VerifyDone, ForkCheckParent, Verified
    <2> QED
        BY <1>1, <2>7, VerifiedRows
<1>2. IInv /\ [Next]_vars => [\A h \in Handles : A(h)]_vars
    BY <1>1
<1> QED
    BY <1>2, InvariantHolds, PTL DEF Spec, VerifiedReadIsAtomic

\* Nobody ever writes on top of a log it has not observed: the optimistic check
\* of the head amounts to a comparison of the whole log.
THEOREM WritesAreOnObservedLog == Spec => WritesOnObservedLog
<1> DEFINE A(h) == pc[h] = "staged" /\ pc'[h] # "staged" /\ ag_run' # ag_run
                   => Log(run[h]) = ObservedLog(h)
<1>1. ASSUME IInv, Next, NEW h \in Handles PROVE A(h)
    <2> SUFFICES ASSUME pc[h] = "staged", pc'[h] # "staged", ag_run' # ag_run
                 PROVE  Log(run[h]) = ObservedLog(h)
        OBVIOUS
    <2>1. TypeOK
        BY <1>1 DEF IInv
    <2>2. Start(h) \/ Continue(h) \/ Close(h)
        BY <1>1, <2>1, OthersStay DEF Next
    <2>3. ~Start(h)
        BY DEF Start, OpenHandle, StartVerify, AppendBegin, TruncateBegin,
               StartFork, UpsertRun
    <2>4. ~Close(h)
        BY DEF Close, Gone, db
    <2>5. Apply(h)
        BY <2>2, <2>3, <2>4
        DEF Continue, EnsureRunCreate, ReadRows, ForkCheckDestination, ForkBegin,
            CommitAcknowledged, CommitUnacknowledged, TransactionFails, Raise,
            MergeRun, VerifyFails, OpenDone, VerifyDone, ForkCheckParent, QueryFails,
            Verified
    <2>6. HeadAsExpected(h) /\ run[h] \in Runs /\ Exists(run[h])
        BY <1>1, <2>5 DEF Apply, IInv, TxOK, TxSound, HandleOK
    <2> DEFINE H == ag_run[run[h]].head.head_hash
    <2>7. /\ IsChain(run[h], H) /\ RowsOf(run[h]) = ChainRows(run[h], H)
          /\ ag_run[run[h]].head.next_seq = Len(H)
        BY <1>1, <2>6 DEF IInv, RunOK, IsRun
    <2>8. expected[h].head_hash = H
        BY <2>6 DEF HeadAsExpected
    <2> HIDE DEF H
    <2>9. \A i \in 1 .. Len(H) :
             (CHOOSE x \in RowsOf(run[h]) : x.seq = i - 1).event = H[i].event
        <3>1. TAKE i \in 1 .. Len(H)
        <3>2. (CHOOSE x \in RowsOf(run[h]) : x.seq = i - 1)
                  = ChainRow(run[h], H, i)
            BY <2>7, ChainRowsDistinct
        <3>3. ChainRow(run[h], H, i).event = H[i].event
            BY DEF ChainRow
        <3> QED
            BY <3>2, <3>3
    <2> QED
        BY <2>6, <2>7, <2>8, <2>9 DEF Log, ObservedLog
<1>2. IInv /\ [Next]_vars => [\A h \in Handles : A(h)]_vars
    BY <1>1
<1> QED
    BY <1>2, InvariantHolds, PTL DEF Spec, WritesOnObservedLog
=============================================================================
