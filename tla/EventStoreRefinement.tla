------------------------ MODULE EventStoreRefinement ------------------------
(***************************************************************************)
(* EventStore implements EventLog, for every number of handles, runs,      *)
(* events and labels: the invariant of EventStoreInv is strengthened by    *)
(* what each open transaction means for the log of its run, and every step *)
(* is shown to be one step of the abstract log or none.                    *)
(***************************************************************************)
EXTENDS EventStoreProofs

-----------------------------------------------------------------------------
(* The events of a chain                                                   *)

\* The events of a chain are a sequence of events, one for each link.
LEMMA EventsOfChain ==
    ASSUME NEW r, NEW H, IsChain(r, H)
    PROVE  /\ Events(H) \in Seq(Event)
           /\ Len(Events(H)) = Len(H)
           /\ DOMAIN Events(H) = 1 .. Len(H)
           /\ \A i \in 1 .. Len(H) : Events(H)[i] = H[i].event
<1>1. Len(H) \in Nat /\ \A i \in 1 .. Len(H) : H[i].event \in Event
    BY ChainLinks
<1>2. Events(H) \in [1 .. Len(H) -> Event] /\ DOMAIN Events(H) = 1 .. Len(H)
    BY <1>1 DEF Events
<1> QED
    BY <1>1, <1>2, SeqDef, LenProperties DEF Events

\* Hashing one more event appends it to the events.
LEMMA EventsOfAppend ==
    ASSUME NEW r \in Runs, NEW H, IsChain(r, H), NEW e \in Event,
           \A i \in 1 .. Len(H) : H[i].event.id # e.id
    PROVE  Events(event_hash(r, Len(H), e, H)) = Append(Events(H), e)
<1> DEFINE G == event_hash(r, Len(H), e, H)
           s == Append(Events(H), e)
<1>1. IsChain(r, G) /\ Len(G) = Len(H) + 1 /\ Len(H) \in Nat
    BY AppendChain, ChainLinks
<1>2. /\ \A i \in 1 .. Len(H) : G[i] = H[i]
      /\ G[Len(H) + 1].event = e
    <2>1. H \in Seq(Link) /\ [run_id |-> r, seq |-> Len(H), event |-> e] \in Link
        BY <1>1 DEF IsChain, Hash, Link
    <2> QED
        BY <2>1, AppendProperties DEF event_hash
<1>3. /\ Events(H) \in Seq(Event) /\ Len(Events(H)) = Len(H)
      /\ \A i \in 1 .. Len(H) : Events(H)[i] = H[i].event
    BY EventsOfChain
<1>4. /\ s \in Seq(Event) /\ Len(s) = Len(H) + 1
      /\ \A i \in 1 .. Len(H) : s[i] = H[i].event
      /\ s[Len(H) + 1] = e
    BY <1>3, AppendProperties
<1> HIDE DEF G, s
<1>5. /\ Events(G) \in Seq(Event) /\ Len(Events(G)) = Len(H) + 1
      /\ \A i \in 1 .. Len(H) + 1 : Events(G)[i] = G[i].event
    BY <1>1, EventsOfChain
<1>6. \A i \in 1 .. Len(H) + 1 : i \in 1 .. Len(H) \/ i = Len(H) + 1
    BY <1>1
<1>7. \A i \in 1 .. Len(s) : Events(G)[i] = s[i]
    BY <1>2, <1>4, <1>5, <1>6
<1>8. Events(G) = s
    BY <1>4, <1>5, <1>7, SeqEqual
<1> QED
    BY <1>8 DEF G, s

\* A chain with the first n events of another one has that prefix as its events.
LEMMA EventsOfPrefix ==
    ASSUME NEW r, NEW c, NEW H, NEW G, IsChain(r, H), IsChain(c, G),
           NEW n \in 1 .. Len(H), Len(G) = n,
           \A i \in 1 .. n : G[i].event = H[i].event
    PROVE  Events(G) = SubSeq(Events(H), 1, n)
<1> DEFINE s == SubSeq(Events(H), 1, n)
<1>1. Len(H) \in Nat /\ n \in Nat
    BY ChainLinks
<1>2. /\ Events(H) \in Seq(Event) /\ Len(Events(H)) = Len(H)
      /\ \A i \in 1 .. Len(H) : Events(H)[i] = H[i].event
    BY EventsOfChain
<1>3. /\ Events(G) \in Seq(Event) /\ Len(Events(G)) = n
      /\ \A i \in 1 .. n : Events(G)[i] = G[i].event
    BY EventsOfChain
<1>4. s \in Seq(Event) /\ Len(s) = n /\ \A i \in 1 .. n : s[i] = H[i].event
    BY <1>1, <1>2, SubSeqProperties
<1> HIDE DEF s
<1>5. Events(G) = s
    BY <1>3, <1>4, SeqEqual
<1> QED
    BY <1>5 DEF s

\* The rows of a run, read in the order of their numbers, give the events of
\* its head hash.
LEMMA RowsSpellEvents ==
    ASSUME NEW r, NEW head, NEW rs, IsRun(r, head, rs)
    PROVE  [i \in 1 .. head.next_seq |-> (CHOOSE x \in rs : x.seq = i - 1).event]
               = Events(head.head_hash)
<1> DEFINE H == head.head_hash
<1>1. IsChain(r, H) /\ rs = ChainRows(r, H) /\ head.next_seq = Len(H)
    BY DEF IsRun
<1> HIDE DEF H
<1>2. \A i \in 1 .. Len(H) :
         (CHOOSE x \in rs : x.seq = i - 1).event = H[i].event
    <2>1. TAKE i \in 1 .. Len(H)
    <2>2. (CHOOSE x \in rs : x.seq = i - 1) = ChainRow(r, H, i)
        BY <1>1, ChainRowsDistinct
    <2>3. ChainRow(r, H, i).event = H[i].event
        BY DEF ChainRow
    <2> QED
        BY <2>2, <2>3
<1>3. [i \in 1 .. head.next_seq |-> (CHOOSE x \in rs : x.seq = i - 1).event]
          = Events(H)
    BY <1>1, <1>2 DEF Events
<1> QED
    BY <1>3 DEF H

\* The log of a run, computed from its head alone.
LogOf(r) == IF Exists(r) THEN Events(ag_run[r].head.head_hash) ELSE <<>>

\* Under the invariant, the head tells the log.
LEMMA HeadTellsLog ==
    ASSUME IInv, NEW r \in Runs
    PROVE  Log(r) = LogOf(r)
<1>1. CASE Exists(r)
    <2>1. IsRun(r, ag_run[r].head, RowsOf(r))
        BY <1>1 DEF IInv, RunOK
    <2> QED
        BY <1>1, <2>1, RowsSpellEvents DEF Log, LogOf
<1>2. CASE ~Exists(r)
    BY <1>2 DEF Log, LogOf
<1> QED
    BY <1>1, <1>2

\* The same in the state after a step.
LEMMA HeadTellsNextLog ==
    ASSUME IInv', NEW r \in Runs
    PROVE  Log(r)' = LogOf(r)'
<1>1. CASE Exists(r)'
    <2>1. IsRun(r, ag_run[r].head, RowsOf(r))'
        BY <1>1 DEF IInv, RunOK
    <2>2. IsRun(r, ag_run'[r].head, RowsOf(r)')
        BY <2>1 DEF IsRun
    <2>3. [i \in 1 .. ag_run'[r].head.next_seq |->
             (CHOOSE x \in RowsOf(r)' : x.seq = i - 1).event]
               = Events(ag_run'[r].head.head_hash)
        BY <2>2, RowsSpellEvents
    <2> QED
        BY <1>1, <2>3 DEF Log, LogOf
<1>2. CASE ~Exists(r)'
    BY <1>2 DEF Log, LogOf
<1> QED
    BY <1>1, <1>2

-----------------------------------------------------------------------------
(* What a transaction means                                                *)

\* What a step leaves of a handle that does not take it.
Stays(h) ==
    /\ pc'[h] = pc[h] /\ run'[h] = run[h] /\ expected'[h] = expected[h]
    /\ rows'[h] = rows[h] /\ call'[h] = call[h] /\ tx'[h] = tx[h]

\* A step of g leaves every other handle as it is.
LEMMA OtherHandlesStay ==
    ASSUME TypeOK, NEW g \in Handles, NEW h \in Handles, g # h,
           Start(g) \/ Continue(g) \/ Close(g)
    PROVE  Stays(h)
<1> USE DEF TypeOK, Stays
<1>1. ASSUME NEW o, Gone(g, o) PROVE Stays(h)
    BY <1>1 DEF Gone
<1>2. ASSUME NEW o, Rejects(g, o) PROVE Stays(h)
    BY <1>2 DEF Rejects, Ends
<1>3. ASSUME NEW c, NEW t, Stage(g, c, t) PROVE Stays(h)
    BY <1>3 DEF Stage, Goto
<1>4. CASE Start(g)
    <2>1. ASSUME NEW r \in Runs, OpenHandle(g, r) PROVE Stays(h)
        BY <2>1 DEF OpenHandle, Goto
    <2>2. CASE StartVerify(g)
        BY <2>2 DEF StartVerify, Goto
    <2>3. ASSUME NEW e \in Event, AppendBegin(g, e) PROVE Stays(h)
        BY <1>2, <1>3, <2>3 DEF AppendBegin
    <2>4. ASSUME NEW id \in EventIds, TruncateBegin(g, id) PROVE Stays(h)
        BY <1>2, <1>3, <2>4 DEF TruncateBegin
    <2>5. ASSUME NEW c \in Runs, NEW at \in EventIds, NEW l \in Labels \cup {None},
                 StartFork(g, c, at, l)
          PROVE  Stays(h)
        BY <2>5 DEF StartFork, Goto
    <2>6. ASSUME NEW p \in Patches, UpsertRun(g, p) PROVE Stays(h)
        BY <1>2, <2>6 DEF UpsertRun, Goto
    <2> QED
        BY <1>4, <2>1, <2>2, <2>3, <2>4, <2>5, <2>6 DEF Start
<1>5. CASE Continue(g)
    <2>1. CASE EnsureRunCreate(g) \/ ReadRows(g)
        BY <2>1 DEF EnsureRunCreate, ReadRows, Goto
    <2>2. CASE CommitUnacknowledged(g) \/ TransactionFails(g)
        BY <2>2 DEF CommitUnacknowledged, TransactionFails, Goto
    <2>3. CASE OpenDone(g) \/ CommitAcknowledged(g) \/ Raise(g) \/ MergeRun(g)
        BY <2>3 DEF OpenDone, CommitAcknowledged, Raise, MergeRun, Ends
    <2>4. CASE VerifyFails(g) \/ VerifyDone(g) \/ QueryFails(g)
        BY <1>1, <1>2, <2>4 DEF VerifyFails, VerifyDone, QueryFails
    <2>5. CASE ForkCheckParent(g) \/ ForkCheckDestination(g)
        BY <1>2, <2>5 DEF ForkCheckParent, ForkCheckDestination, Goto
    <2>6. CASE ForkBegin(g)
        BY <1>2, <1>3, <2>6 DEF ForkBegin
    <2> QED
        BY <1>5, <2>1, <2>2, <2>3, <2>4, <2>5, <2>6 DEF Continue
<1>6. CASE Close(g)
    BY <1>1, <1>6 DEF Close
<1> QED
    BY <1>4, <1>5, <1>6

\* A handle that stays keeps what its transaction means.
LEMMA StaysKeepsMeaning ==
    ASSUME NEW h \in Handles, Means(h), Stays(h)
    PROVE  Means(h)'
    BY DEF Means, TxMeans, Stays

\* append stages its run's log with one event more.
LEMMA AppendBeginMeans ==
    ASSUME IInv, NEW h \in Handles, NEW e \in Event, AppendBegin(h, e)
    PROVE  Means(h)'
<1> DEFINE r == run[h]
           head == ag_run[r].head
           H == head.head_hash
           G == event_hash(r, head.next_seq, e, H)
           row == [run_id |-> r, seq |-> head.next_seq, event |-> e,
                   previous_hash |-> H, hash |-> G]
           c == [NoCall EXCEPT !.op = "append"]
           t == [head |-> [next_seq |-> head.next_seq + 1, head_hash |-> G],
                 create |-> {row}, delete |-> {}, child_head |-> EmptyHead]
<1>1. /\ r \in Runs /\ Exists(r) /\ IsChain(r, H) /\ head.next_seq = Len(H)
      /\ RowsOf(r) = ChainRows(r, H)
    BY DEF IInv, HandleOK, RunOK, IsRun, AppendBegin
<1>2. ASSUME RowsNamed(r, e.id) = {}, HeadAsExpected(h), Stage(h, c, t)
      PROVE  Means(h)'
    <2>1. \A i \in 1 .. Len(H) : H[i].event.id # e.id
        <3>1. \A i \in 1 .. Len(H) : /\ ChainRow(r, H, i) \in RowsOf(r)
                                     /\ ChainRow(r, H, i).event = H[i].event
            BY <1>1 DEF ChainRow, ChainRows
        <3> QED
            BY <3>1, <1>2 DEF RowsNamed
    <2>2. Events(G) = Append(Events(H), e)
        BY <1>1, <2>1, EventsOfAppend
    <2>3. /\ pc'[h] = "staged" /\ tx'[h] = t /\ call'[h] = c
          /\ expected'[h] = expected[h]
        BY <1>2 DEF IInv, TypeOK, Stage, Goto
    <2>4. tx'[h].head.head_hash = G /\ call'[h].op = "append"
        BY <2>3, StartTypes
    <2>5. expected'[h].head_hash = H
        BY <1>2, <2>3 DEF HeadAsExpected
    <2> HIDE DEF G, H
    <2> QED
        BY <2>1, <2>2, <2>3, <2>4, <2>5 DEF Means, TxMeans
<1>3. ASSUME NEW o, Rejects(h, o)
      PROVE  Means(h)'
    BY <1>3 DEF IInv, TypeOK, Rejects, Ends, Means
<1> QED
    BY <1>2, <1>3 DEF AppendBegin

\* truncate_after stages a prefix of its run's log.
LEMMA TruncateBeginMeans ==
    ASSUME IInv, NEW h \in Handles, NEW id \in EventIds, TruncateBegin(h, id)
    PROVE  Means(h)'
<1> DEFINE r == run[h]
           H == ag_run[r].head.head_hash
           c == [NoCall EXCEPT !.op = "truncate"]
           t(x) == [head |-> [next_seq |-> x.seq + 1, head_hash |-> x.hash],
                    create |-> {}, delete |-> RowsAfter(r, x),
                    child_head |-> EmptyHead]
<1>1. /\ r \in Runs /\ Exists(r) /\ IsChain(r, H)
      /\ RowsOf(r) = ChainRows(r, H)
    BY DEF IInv, HandleOK, RunOK, IsRun, TruncateBegin
<1>2. ASSUME NEW x \in RowsNamed(r, id), HeadAsExpected(h), Stage(h, c, t(x))
      PROVE  Means(h)'
    <2>1. PICK n \in 1 .. Len(H) : x = ChainRow(r, H, n)
        BY <1>1 DEF RowsNamed, ChainRows
    <2>2. x.hash = Prefix(H, n)
        BY <2>1 DEF ChainRow
    <2>3. IsChain(r, Prefix(H, n)) /\ Len(Prefix(H, n)) = n
        BY <1>1, TruncateChain
    <2>4. \A i \in 1 .. n : Prefix(H, n)[i].event = H[i].event
        BY DEF Prefix
    <2>5. Events(Prefix(H, n)) = SubSeq(Events(H), 1, n)
        BY <1>1, <2>3, <2>4, EventsOfPrefix
    <2>6. /\ pc'[h] = "staged" /\ tx'[h] = t(x) /\ call'[h] = c
          /\ expected'[h] = expected[h]
        BY <1>2 DEF IInv, TypeOK, Stage, Goto
    <2>7. tx'[h].head.head_hash = Prefix(H, n) /\ call'[h].op = "truncate"
        BY <2>2, <2>6, StartTypes
    <2>8. expected'[h].head_hash = H
        BY <1>2, <2>6 DEF HeadAsExpected
    <2> HIDE DEF H
    <2> QED
        BY <2>5, <2>6, <2>7, <2>8 DEF Means, TxMeans
<1>3. ASSUME NEW o, Rejects(h, o)
      PROVE  Means(h)'
    BY <1>3 DEF IInv, TypeOK, Rejects, Ends, Means
<1> QED
    BY <1>2, <1>3 DEF TruncateBegin

\* fork_prefix passes its checks only on an uncompacted log.
LEMMA ForkChecksMean ==
    ASSUME IInv, NEW h \in Handles, Means(h),
           ForkCheckParent(h) \/ ForkCheckDestination(h)
    PROVE  Means(h)'
<1>1. ASSUME NEW o, Rejects(h, o)
      PROVE  Means(h)'
    BY <1>1 DEF IInv, TypeOK, Rejects, Ends, Means
<1>2. ASSUME Goto(h, "dest"), UNCHANGED rows, ~Compacted(rows[h])
      PROVE  Means(h)'
    BY <1>2 DEF IInv, TypeOK, Goto, Means, Compacted
<1>3. ASSUME Goto(h, "begin"), UNCHANGED rows, pc[h] = "dest"
      PROVE  Means(h)'
    BY <1>3 DEF IInv, TypeOK, Goto, Means
<1> QED
    BY <1>1, <1>2, <1>3 DEF ForkCheckParent, ForkCheckDestination

\* fork_prefix stages, for its child, the prefix that ends with the fork point.
LEMMA ForkBeginMeans ==
    ASSUME IInv, NEW h \in Handles, Means(h), ForkBegin(h)
    PROVE  Means(h)'
<1> DEFINE child == call[h].child
           rs == rows[h]
           H == expected[h].head_hash
           n == PrefixLength(rs, call[h].at)
           G == ChildHash(child, rs, n)
           t == [head |-> expected[h], create |-> ChildRows(child, rs, n),
                 delete |-> {},
                 child_head |-> [next_seq |-> n, head_hash |-> G]]
<1>1. /\ pc[h] = "begin" /\ run[h] \in Runs /\ child \in Runs
      /\ call[h].op = "fork"
    BY DEF IInv, HandleOK, ForkBegin
<1>2. IsChain(run[h], H) /\ rs = ChainRows(run[h], H) /\ Len(H) \in Nat
    BY <1>1, ChainLinks DEF IInv, RowsOK, IsRun
<1>3. n \in 1 .. Len(H) /\ H[n].event.id = call[h].at
    <2> DEFINE x == CHOOSE y \in rs : y.event.id = call[h].at
    <2>1. x \in rs /\ x.event.id = call[h].at
        BY <1>1 DEF IInv, RowsOK
    <2>2. PICK i \in 1 .. Len(H) : x = ChainRow(run[h], H, i)
        BY <1>2, <2>1 DEF ChainRows
    <2>3. n = x.seq + 1
        BY DEF PrefixLength
    <2>4. x.seq = i - 1 /\ x.event = H[i].event
        <3> HIDE DEF x, H
        <3> QED
            BY <2>2 DEF ChainRow
    <2>5. n = i
        <3> HIDE DEF x, H, n
        <3> QED
            BY <1>2, <2>3, <2>4
    <2> QED
        BY <2>1, <2>4, <2>5
<1>4. H[1].event.type # SnapshotType
    <2>1. 1 \in 1 .. Len(H)
        <3> HIDE DEF n, H
        <3> QED
            BY <1>2, <1>3
    <2>2. ChainRow(run[h], H, 1) \in rs
        <3> HIDE DEF rs, H
        <3> QED
            BY <1>2, <2>1 DEF ChainRows
    <2>3. ChainRow(run[h], H, 1).seq = 0 /\ ChainRow(run[h], H, 1).event = H[1].event
        BY DEF ChainRow
    <2> QED
        BY <1>1, <2>2, <2>3 DEF Means
<1>5. ASSUME Stage(h, call[h], t)
      PROVE  Means(h)'
    <2>1. IsChain(child, G) /\ Len(G) = n
        <3> HIDE DEF n, H, rs, child
        <3>1. IsRun(child, [next_seq |-> n, head_hash |-> G],
                    ChildRows(child, rs, n))
            BY <1>1, <1>2, <1>3, ForkChain
        <3> HIDE DEF G
        <3> QED
            BY <3>1 DEF IsRun
    <2>2. \A i \in 1 .. n : G[i].event = H[i].event
        <3> HIDE DEF n, H, rs, child
        <3>1. TAKE i \in 1 .. n
        <3>2. i \in 1 .. Len(H)
            BY <1>2, <1>3
        <3>3. (CHOOSE x \in rs : x.seq = i - 1) = ChainRow(run[h], H, i)
            BY <1>2, <3>2, ChainRowsDistinct
        <3>4. ChainRow(run[h], H, i).event = H[i].event
            BY DEF ChainRow
        <3> QED
            BY <3>3, <3>4 DEF ChildHash
    <2>3. Events(G) = SubSeq(Events(H), 1, n)
        <3> HIDE DEF n, H, rs, child, G
        <3> QED
            BY <1>2, <1>3, <2>1, <2>2, EventsOfPrefix
    <2>4. /\ pc'[h] = "staged" /\ tx'[h] = t /\ call'[h] = call[h]
          /\ expected'[h] = expected[h]
        BY <1>5 DEF IInv, TypeOK, Stage, Goto
    <2>5. tx'[h].child_head.head_hash = G
        BY <2>4
    <2> HIDE DEF n, G, t
    <2> QED
        BY <1>1, <1>3, <1>4, <2>3, <2>4, <2>5 DEF Means, TxMeans
<1>6. ASSUME NEW o, Rejects(h, o)
      PROVE  Means(h)'
    BY <1>6 DEF IInv, TypeOK, Rejects, Ends, Means
<1> QED
    BY <1>5, <1>6 DEF ForkBegin

\* The other steps of a handle leave it without a staged transaction and
\* outside a fork's checks.
LEMMA OtherStepsMean ==
    ASSUME IInv, NEW h \in Handles,
           \/ \E r \in Runs : OpenHandle(h, r)
           \/ StartVerify(h)
           \/ \E child \in Runs, at \in EventIds, label \in Labels \cup {None} :
                  StartFork(h, child, at, label)
           \/ \E patch \in Patches : UpsertRun(h, patch)
           \/ EnsureRunCreate(h) \/ ReadRows(h) \/ VerifyFails(h)
           \/ OpenDone(h) \/ VerifyDone(h) \/ CommitAcknowledged(h)
           \/ CommitUnacknowledged(h) \/ TransactionFails(h) \/ Raise(h)
           \/ MergeRun(h) \/ QueryFails(h) \/ Close(h)
    PROVE  Means(h)'
<1> USE DEF IInv, TypeOK, Means
<1>1. ASSUME NEW p \in {"create", "rows", "run", "raise", "merge"}, Goto(h, p)
      PROVE  Means(h)'
    BY <1>1 DEF Goto
<1>2. ASSUME NEW o, Ends(h, o) \/ Gone(h, o)
      PROVE  Means(h)'
    BY <1>2 DEF Ends, Gone
<1>3. ASSUME NEW r \in Runs, OpenHandle(h, r) PROVE Means(h)'
    <2>1. (IF Exists(r) THEN "rows" ELSE "create")
              \in {"create", "rows", "run", "raise", "merge"}
        OBVIOUS
    <2> QED
        BY <1>1, <1>3, <2>1 DEF OpenHandle
<1>4. CASE StartVerify(h) \/ EnsureRunCreate(h) \/ ReadRows(h)
              \/ CommitUnacknowledged(h) \/ TransactionFails(h)
    BY <1>1, <1>4 DEF StartVerify, EnsureRunCreate, ReadRows,
                      CommitUnacknowledged, TransactionFails
<1>5. ASSUME NEW child \in Runs, NEW at \in EventIds,
             NEW label \in Labels \cup {None}, StartFork(h, child, at, label)
      PROVE  Means(h)'
    BY <1>1, <1>5 DEF StartFork
<1>6. ASSUME NEW patch \in Patches, UpsertRun(h, patch) PROVE Means(h)'
    BY <1>1, <1>2, <1>6 DEF UpsertRun, Rejects
<1>7. CASE OpenDone(h) \/ CommitAcknowledged(h) \/ Raise(h) \/ MergeRun(h)
    BY <1>2, <1>7 DEF OpenDone, CommitAcknowledged, Raise, MergeRun
<1>8. CASE VerifyFails(h) \/ VerifyDone(h) \/ QueryFails(h) \/ Close(h)
    BY <1>2, <1>8 DEF VerifyFails, VerifyDone, QueryFails, Close, Rejects
<1> QED
    BY <1>3, <1>4, <1>5, <1>6, <1>7, <1>8

\* Every step keeps the meaning of every transaction.
LEMMA NextKeepsMeaning == RInv /\ [Next]_vars => RInv'
<1> SUFFICES ASSUME RInv, [Next]_vars PROVE RInv'
    OBVIOUS
<1>1. IInv /\ IInv' /\ \A h \in Handles : Means(h)
    BY NextKeepsInv DEF RInv
<1>2. ASSUME NEW g \in Handles, Start(g) \/ Continue(g) \/ Close(g),
             NEW h \in Handles
      PROVE  Means(h)'
    <2>1. CASE g # h
        BY <1>1, <1>2, <2>1, OtherHandlesStay, StaysKeepsMeaning DEF IInv
    <2>2. CASE g = h
        <3>1. CASE Start(h)
            BY <1>1, <3>1, AppendBeginMeans, TruncateBeginMeans, OtherStepsMean
            DEF Start
        <3>2. CASE Continue(h)
            BY <1>1, <3>2, ForkChecksMean, ForkBeginMeans, OtherStepsMean
            DEF Continue
        <3>3. CASE Close(h)
            BY <1>1, <3>3, OtherStepsMean
        <3> QED
            BY <1>2, <2>2, <3>1, <3>2, <3>3
    <2> QED
        BY <2>1, <2>2
<1>3. ASSUME UNCHANGED vars, NEW h \in Handles
      PROVE  Means(h)'
    <2>1. Stays(h)
        BY <1>3 DEF vars, Stays
    <2> QED
        BY <1>1, <2>1, StaysKeepsMeaning
<1> QED
    BY <1>1, <1>2, <1>3 DEF RInv, Next

\* In every reachable state, a staged append, truncation or fork stands for the
\* operation of the abstract log that its caller asked for.
THEOREM MeaningHolds == Spec => []RInv
<1>1. Init => RInv
    BY InitImpliesInv DEF Init, RInv, Means
<1> QED
    BY <1>1, NextKeepsMeaning, PTL DEF Spec

-----------------------------------------------------------------------------
(* What a step does to the run records                                     *)

\* h's transaction takes effect.
Commits(h) == pc[h] = "staged" /\ Apply(h) /\ UNCHANGED run

\* h's constructor creates the run record.
Creates(h) ==
    /\ run[h] \in Runs /\ ~Exists(run[h])
    /\ ag_run' = [ag_run EXCEPT ![run[h]] = [head |-> EmptyHead, meta |-> NoMeta]]

\* h's upsert_run rewrites the metadata of an existing run.
Relabels(h) ==
    /\ run[h] \in Runs /\ Exists(run[h])
    /\ ag_run' = [ag_run EXCEPT ![run[h]].meta = Merged(call[h], @)]

\* Those are the only steps that write run records.
LEMMA StepKinds ==
    ASSUME IInv, NEW h \in Handles, Start(h) \/ Continue(h) \/ Close(h)
    PROVE  Commits(h) \/ Creates(h) \/ Relabels(h) \/ UNCHANGED ag_run
<1>1. ASSUME NEW o, Gone(h, o) \/ Rejects(h, o) PROVE UNCHANGED ag_run
    BY <1>1 DEF Gone, Rejects, db
<1>2. ASSUME NEW c, NEW t, Stage(h, c, t) PROVE UNCHANGED ag_run
    BY <1>2 DEF Stage
<1>3. ASSUME NEW patch \in Patches, UpsertRun(h, patch)
      PROVE  UNCHANGED ag_run
    BY <1>1, <1>3 DEF UpsertRun
<1>4. CASE Start(h)
    <2>1. ASSUME NEW r \in Runs, OpenHandle(h, r) PROVE UNCHANGED ag_run
        BY <2>1 DEF OpenHandle
    <2>2. CASE StartVerify(h)
        BY <2>2 DEF StartVerify
    <2>3. ASSUME NEW e \in Event, AppendBegin(h, e) PROVE UNCHANGED ag_run
        BY <1>1, <1>2, <2>3 DEF AppendBegin
    <2>4. ASSUME NEW id \in EventIds, TruncateBegin(h, id) PROVE UNCHANGED ag_run
        BY <1>1, <1>2, <2>4 DEF TruncateBegin
    <2>5. ASSUME NEW c \in Runs, NEW at \in EventIds, NEW l \in Labels \cup {None},
                 StartFork(h, c, at, l)
          PROVE  UNCHANGED ag_run
        BY <2>5 DEF StartFork
    <2> QED
        BY <1>3, <1>4, <2>1, <2>2, <2>3, <2>4, <2>5 DEF Start
<1>5. CASE Continue(h)
    <2>1. CASE EnsureRunCreate(h)
        BY <2>1 DEF EnsureRunCreate, Creates, IInv, HandleOK
    <2>2. CASE CommitAcknowledged(h) \/ CommitUnacknowledged(h)
        BY <2>2 DEF CommitAcknowledged, CommitUnacknowledged, Commits
    <2>3. CASE ReadRows(h) \/ TransactionFails(h) \/ OpenDone(h) \/ Raise(h)
        BY <2>3 DEF ReadRows, TransactionFails, OpenDone, Raise
    <2>6. CASE MergeRun(h)
        BY <2>6 DEF MergeRun, Relabels, IInv, HandleOK
    <2>4. CASE VerifyFails(h) \/ VerifyDone(h) \/ QueryFails(h)
        BY <1>1, <2>4 DEF VerifyFails, VerifyDone, QueryFails
    <2>5. CASE ForkCheckParent(h) \/ ForkCheckDestination(h) \/ ForkBegin(h)
        BY <1>1, <1>2, <2>5 DEF ForkCheckParent, ForkCheckDestination, ForkBegin
    <2> QED
        BY <1>5, <2>1, <2>2, <2>3, <2>4, <2>5, <2>6 DEF Continue
<1>6. CASE Close(h)
    BY <1>1, <1>6 DEF Close
<1> QED
    BY <1>4, <1>5, <1>6

\* What a commit makes of the run records.
LEMMA CommittedRecords ==
    ASSUME IInv, NEW h \in Handles, Commits(h)
    PROVE  /\ run[h] \in Runs /\ Exists(run[h]) /\ HeadAsExpected(h)
           /\ ag_run'[run[h]] # None
           /\ ag_run'[run[h]].head = tx[h].head
           /\ ag_run'[run[h]].meta = ag_run[run[h]].meta
           /\ call[h].op = "fork" =>
                 /\ call[h].child \in Runs /\ call[h].child # run[h]
                 /\ ~Exists(call[h].child) /\ ag_run'[call[h].child] # None
                 /\ tx[h].head = expected[h]
                 /\ ag_run'[call[h].child].head = tx[h].child_head
                 /\ ag_run'[call[h].child].meta.parent_run_id = run[h]
                 /\ ag_run'[call[h].child].meta.forked_at_event_id = call[h].at
           /\ \A q \in Runs :
                 q # run[h] /\ (call[h].op = "fork" => q # call[h].child)
                 => ag_run'[q] = ag_run[q]
<1>a. PICK r : r = run[h]
    OBVIOUS
<1>b. PICK c : c = call[h].child
    OBVIOUS
<1>c. PICK t : t = tx[h]
    OBVIOUS
<1> DEFINE fork == call[h].op = "fork"
           row == [head |-> t.child_head,
                   meta |-> [parent_run_id |-> r,
                             forked_at_event_id |-> call[h].at,
                             label |-> call[h].label]]
<1>1. /\ r \in Runs /\ Exists(r) /\ TxSound(h) /\ (fork => c \in Runs)
      /\ t \in Tx /\ call[h] \in Call
    BY <1>a, <1>b, <1>c DEF IInv, TypeOK, HandleOK, TxOK, Apply, Commits
<1>2. row \in RunRow /\ row # None
    <2>1. /\ call[h].at \in EventIds \cup {None}
          /\ call[h].label \in Labels \cup {None}
          /\ t.child_head \in RunHead
        BY <1>1 DEF Call, Tx
    <2>2. row \in RunRow
        BY <1>1, <2>1 DEF RunRow, Meta
    <2> QED
        BY <2>2, NoneAssumption
<1>3. /\ row.head = t.child_head /\ row.meta.parent_run_id = r
      /\ row.meta.forked_at_event_id = call[h].at
    OBVIOUS
<1> HIDE DEF row
<1>4. fork => c # r
    BY <1>1, <1>b DEF TxSound
<1>5. /\ ag_run'[r] = [ag_run[r] EXCEPT !.head = t.head]
      /\ fork => ag_run'[c] = row
      /\ \A q \in Runs : q # r /\ (fork => q # c) => ag_run'[q] = ag_run[q]
    BY <1>1, <1>4, <1>a, <1>b, <1>c DEF Commits, Apply, row
<1>6. /\ ag_run'[r] # None /\ ag_run'[r].head = t.head
      /\ ag_run'[r].meta = ag_run[r].meta
    <2>1. ag_run[r] \in RunRow /\ t.head \in RunHead
        BY <1>1, RunRecord DEF IInv, Tx
    <2>2. /\ [ag_run[r] EXCEPT !.head = t.head] \in RunRow
          /\ [ag_run[r] EXCEPT !.head = t.head].head = t.head
          /\ [ag_run[r] EXCEPT !.head = t.head].meta = ag_run[r].meta
        BY <2>1 DEF RunRow
    <2> QED
        BY <1>5, <2>2, NoneAssumption
<1>7. HeadAsExpected(h) /\ (fork => ~Exists(c) /\ t.head = expected[h])
    BY <1>1, <1>b, <1>c DEF TxSound
<1> QED
    BY <1>1, <1>2, <1>3, <1>4, <1>5, <1>6, <1>7, <1>a, <1>b, <1>c

\* What upsert_run makes of the run records.
LEMMA RelabelledRecords ==
    ASSUME IInv, NEW h \in Handles, Relabels(h)
    PROVE  /\ run[h] \in Runs /\ Exists(run[h]) /\ ag_run'[run[h]] # None
           /\ ag_run'[run[h]].head = ag_run[run[h]].head
           /\ \A f \in DOMAIN NoMeta : ag_run[run[h]].meta[f] # None
                                       => ag_run'[run[h]].meta[f] # None
           /\ \A q \in Runs : q # run[h] => ag_run'[q] = ag_run[q]
<1>1. ag_run' = [ag_run EXCEPT ![run[h]].meta = Merged(call[h], @)]
    BY DEF Relabels
<1>2. run[h] \in Runs /\ Exists(run[h]) /\ ag_run[run[h]] \in RunRow
    BY RunRecord DEF Relabels, IInv
<1>3. Merged(call[h], ag_run[run[h]].meta) \in Meta
    BY <1>2, MergedIsMeta DEF IInv, TypeOK, RunRow
<1>4. \A f \in DOMAIN NoMeta : ag_run[run[h]].meta[f] # None
                               => Merged(call[h], ag_run[run[h]].meta)[f] # None
    BY DEF Merged, Coalesce, NoMeta
<1>5. PICK m \in Meta : m = Merged(call[h], ag_run[run[h]].meta)
    BY <1>3
<1>6. /\ ag_run'[run[h]] = [ag_run[run[h]] EXCEPT !.meta = m]
      /\ \A q \in Runs : q # run[h] => ag_run'[q] = ag_run[q]
    BY <1>1, <1>2, <1>5 DEF IInv, TypeOK
<1>7. /\ [ag_run[run[h]] EXCEPT !.meta = m] \in RunRow
      /\ [ag_run[run[h]] EXCEPT !.meta = m].head = ag_run[run[h]].head
      /\ [ag_run[run[h]] EXCEPT !.meta = m].meta = m
    BY <1>2 DEF RunRow
<1> QED
    BY <1>2, <1>4, <1>5, <1>6, <1>7, NoneAssumption

\* A step that writes no head leaves every log as it is.
LEMMA QuietStep ==
    ASSUME IInv, NEW h \in Handles, Relabels(h) \/ UNCHANGED ag_run
    PROVE  \A r \in Runs : /\ Exists(r)' <=> Exists(r)
                           /\ LogOf(r)' = LogOf(r)
<1>1. CASE UNCHANGED ag_run
    BY <1>1 DEF Exists, LogOf
<1>2. CASE Relabels(h)
    BY <1>2, RelabelledRecords DEF Exists, LogOf
<1> QED
    BY <1>1, <1>2

-----------------------------------------------------------------------------
(* The properties                                                          *)

\* For any number of runs, labels and patches, no step deletes a run record or
\* clears a lineage field or label that upsert_run, fork_prefix or _ensure_run
\* once stored.
THEOREM MetadataIsNeverCleared == Spec => MetadataNeverCleared
<1> DEFINE Kept(r) == Exists(r) => /\ Exists(r)'
                                   /\ \A f \in DOMAIN NoMeta :
                                         ag_run[r].meta[f] # None
                                         => ag_run'[r].meta[f] # None
<1>1. ASSUME IInv, Next, NEW r \in Runs PROVE Kept(r)
    <2>1. PICK h \in Handles : Start(h) \/ Continue(h) \/ Close(h)
        BY <1>1 DEF Next
    <2>2. CASE UNCHANGED ag_run
        BY <2>2 DEF Exists
    <2>3. CASE Creates(h)
        BY <1>1, <2>3 DEF Creates, Exists, IInv, TypeOK
    <2>4. CASE Relabels(h)
        BY <1>1, <2>4, RelabelledRecords DEF Exists
    <2>5. CASE Commits(h)
        BY <1>1, <2>5, CommittedRecords DEF Exists
    <2> QED
        BY <1>1, <2>1, <2>2, <2>3, <2>4, <2>5, StepKinds
<1>2. IInv /\ [Next]_vars => [\A r \in Runs : Kept(r)]_vars
    BY <1>1
<1> QED
    BY <1>2, InvariantHolds, PTL DEF Spec, MetadataNeverCleared

\* The log of the run a transaction was computed from.
LEMMA CommitSeesLog ==
    ASSUME IInv, NEW h \in Handles, Commits(h)
    PROVE  /\ LogOf(run[h]) = Events(expected[h].head_hash)
           /\ IsChain(run[h], expected[h].head_hash)
    BY CommittedRecords DEF LogOf, HeadAsExpected, IInv, RunOK, IsRun

\* However many forks, appends and truncations race, the child of a fork holds
\* the events of its parent up to and including the fork point it records.
THEOREM ForksCopyInclusivePrefix == Spec => ForkCopiesInclusivePrefix
<1> DEFINE P(c) ==
        ~Exists(c) /\ Exists(c)' /\ ag_run'[c].meta.parent_run_id # None
        => LET meta == ag_run'[c].meta
               parent == Log(meta.parent_run_id)
           IN  \E n \in DOMAIN parent :
                  /\ Log(c)' = SubSeq(parent, 1, n)
                  /\ parent[n].id = meta.forked_at_event_id
<1>1. ASSUME RInv, RInv', Next, NEW c \in Runs PROVE P(c)
    <2> SUFFICES ASSUME ~Exists(c), Exists(c)',
                        ag_run'[c].meta.parent_run_id # None
                 PROVE  \E n \in DOMAIN Log(ag_run'[c].meta.parent_run_id) :
                           /\ Log(c)' = SubSeq(Log(ag_run'[c].meta.parent_run_id), 1, n)
                           /\ Log(ag_run'[c].meta.parent_run_id)[n].id
                                  = ag_run'[c].meta.forked_at_event_id
        OBVIOUS
    <2>1. IInv /\ IInv'
        BY <1>1 DEF RInv
    <2>2. PICK h \in Handles : Start(h) \/ Continue(h) \/ Close(h)
        BY <1>1 DEF Next
    <2>3. Commits(h)
        <3>1. ~Creates(h)
            BY <2>1 DEF Creates, Exists, NoMeta, IInv, TypeOK
        <3>2. ~Relabels(h) /\ ~UNCHANGED ag_run
            BY <2>1, QuietStep
        <3> QED
            BY <2>1, <2>2, <3>1, <3>2, StepKinds
    <2> DEFINE H == expected[h].head_hash
    <2>4. /\ call[h].op = "fork" /\ call[h].child = c
          /\ ag_run'[c].head = tx[h].child_head
          /\ ag_run'[c].meta.parent_run_id = run[h]
          /\ ag_run'[c].meta.forked_at_event_id = call[h].at
          /\ run[h] \in Runs
        <3>1. c # run[h]
            BY <2>1, <2>3, CommittedRecords
        <3>2. ag_run'[c] # ag_run[c]
            BY DEF Exists
        <3>3. call[h].op = "fork" /\ c = call[h].child
            BY <2>1, <2>3, <3>1, <3>2, CommittedRecords
        <3> QED
            BY <2>1, <2>3, <3>3, CommittedRecords
    <2>5. Log(run[h]) = Events(H) /\ IsChain(run[h], H)
        BY <2>1, <2>3, <2>4, CommitSeesLog, HeadTellsLog
    <2>6. PICK n \in 1 .. Len(H) :
              /\ Events(tx[h].child_head.head_hash) = SubSeq(Events(H), 1, n)
              /\ H[n].event.id = call[h].at
        BY <1>1, <2>3, <2>4 DEF RInv, Means, TxMeans, Commits
    <2>7. Log(c)' = Events(tx[h].child_head.head_hash)
        BY <2>1, <2>4, HeadTellsNextLog DEF LogOf
    <2>8. DOMAIN Events(H) = 1 .. Len(H) /\ Events(H)[n] = H[n].event
        BY <2>5, EventsOfChain
    <2> HIDE DEF H
    <2> QED
        BY <2>4, <2>5, <2>6, <2>7, <2>8
<1>2. RInv /\ RInv' /\ [Next]_vars => [\A c \in Runs : P(c)]_vars
    BY <1>1
<1> QED
    BY <1>2, MeaningHolds, PTL DEF Spec, ForkCopiesInclusivePrefix

-----------------------------------------------------------------------------
(* Refinement                                                              *)

\* The abstract state, run by run: Log and LogOf agree before and after a step.
LEMMA AbstractState ==
    ASSUME IInv, IInv'
    PROVE  /\ [r \in Runs |-> Log(r)] = [r \in Runs |-> LogOf(r)]
           /\ [r \in Runs |-> Log(r)]' = [r \in Runs |-> LogOf(r)']
<1>1. \A r \in Runs : Log(r) = LogOf(r) /\ Log(r)' = LogOf(r)'
    BY HeadTellsLog, HeadTellsNextLog
<1> QED
    BY <1>1

\* Creating a run record is CreateRun of the abstract log.
LEMMA CreatesIsCreateRun ==
    ASSUME IInv, IInv', NEW h \in Handles, Creates(h)
    PROVE  EL!CreateRun(run[h]) /\ run[h] \in Runs
<1>1. /\ run[h] \in Runs /\ ~Exists(run[h])
      /\ ag_run'[run[h]].head.head_hash = <<>> /\ ag_run'[run[h]] # None
      /\ \A q \in Runs : q # run[h] => ag_run'[q] = ag_run[q]
    <2>1. [head |-> EmptyHead, meta |-> NoMeta] \in RunRow
        BY StartTypes DEF RunRow
    <2> QED
        BY <2>1, NoneAssumption DEF Creates, IInv, TypeOK, EmptyHead, NoHash
<1>2. Events(<<>>) = <<>>
    BY DEF Events
<1>3. \A r \in Runs : LogOf(r)' = LogOf(r)
    BY <1>1, <1>2 DEF LogOf, Exists
<1>4. {r \in Runs : Exists(r)}' = {r \in Runs : Exists(r)} \cup {run[h]}
    BY <1>1 DEF Exists
<1>5. [r \in Runs |-> Log(r)]' = [r \in Runs |-> Log(r)]
    BY <1>3, AbstractState
<1> QED
    BY <1>1, <1>4, <1>5 DEF EL!CreateRun

\* A commit is AppendEvent, TruncateAfter or ForkPrefix of the abstract log.
LEMMA CommitIsLogStep ==
    ASSUME RInv, RInv', NEW h \in Handles, Commits(h)
    PROVE  EL!Next
<1>r. PICK r : r = run[h]
    OBVIOUS
<1>c. PICK c : c = call[h].child
    OBVIOUS
<1>H. PICK H : H = expected[h].head_hash
    OBVIOUS
<1> DEFINE fork == call[h].op = "fork"
           lg == [q \in Runs |-> Log(q)]
<1>1. IInv /\ IInv' /\ TxMeans(h)
    BY DEF RInv, Means, Commits
<1>2. /\ r \in Runs /\ Exists(r) /\ ag_run'[r] # None /\ ag_run'[r].head = tx[h].head
      /\ fork => /\ c \in Runs /\ c # r /\ ~Exists(c) /\ ag_run'[c] # None
                 /\ tx[h].head.head_hash = H
                 /\ ag_run'[c].head = tx[h].child_head
      /\ \A q \in Runs : q # r /\ (fork => q # c) => ag_run'[q] = ag_run[q]
    BY <1>1, <1>r, <1>c, <1>H, CommittedRecords
<1>3. lg = [q \in Runs |-> LogOf(q)] /\ lg' = [q \in Runs |-> LogOf(q)']
    BY <1>1, AbstractState
<1>4. LogOf(r) = Events(H) /\ IsChain(r, H)
    BY <1>1, <1>r, <1>H, CommitSeesLog
<1>5. /\ DOMAIN Events(H) = 1 .. Len(H) /\ Len(H) \in Nat
      /\ \A i \in 1 .. Len(H) : Events(H)[i] = H[i].event
    BY <1>4, EventsOfChain, ChainLinks
<1>6. lg[r] = Events(H)
    BY <1>2, <1>3, <1>4
<1>7. CASE ~fork
    <2>1. {q \in Runs : Exists(q)}' = {q \in Runs : Exists(q)}
        BY <1>2, <1>7 DEF Exists
    <2>2. /\ LogOf(r)' = Events(tx[h].head.head_hash)
          /\ \A q \in Runs : q # r => LogOf(q)' = LogOf(q)
        BY <1>2, <1>7 DEF LogOf, Exists
    <2>3. lg' = [lg EXCEPT ![r] = Events(tx[h].head.head_hash)]
        BY <1>3, <2>2
    <2>4. ASSUME NEW e \in Event, \A i \in 1 .. Len(H) : H[i].event.id # e.id,
                 Events(tx[h].head.head_hash) = Append(Events(H), e)
          PROVE  EL!AppendEvent(r, e)
        <3>1. \A i \in DOMAIN lg[r] : lg[r][i].id # e.id
            BY <1>5, <1>6, <2>4
        <3>2. lg' = [lg EXCEPT ![r] = Append(lg[r], e)]
            BY <1>6, <2>3, <2>4
        <3> QED
            BY <1>2, <2>1, <3>1, <3>2 DEF EL!AppendEvent
    <2>5. ASSUME NEW n \in 1 .. Len(H),
                 Events(tx[h].head.head_hash) = SubSeq(Events(H), 1, n)
          PROVE  EL!TruncateAfter(r, n) /\ n \in DOMAIN lg[r]
        <3>1. lg' = [lg EXCEPT ![r] = SubSeq(lg[r], 1, n)]
            BY <1>6, <2>3, <2>5
        <3> QED
            BY <1>2, <1>5, <1>6, <2>1, <3>1 DEF EL!TruncateAfter
    <2>6. \/ \E e \in Event : EL!AppendEvent(r, e)
          \/ \E n \in DOMAIN lg[r] : EL!TruncateAfter(r, n)
        BY <1>1, <1>7, <1>H, <2>4, <2>5 DEF TxMeans
    <2> QED
        BY <1>2, <2>6 DEF EL!Next, EL!Event, Event
<1>8. CASE fork
    <2>1. PICK n \in 1 .. Len(H) :
              Events(tx[h].child_head.head_hash) = SubSeq(Events(H), 1, n)
        BY <1>1, <1>8, <1>H DEF TxMeans
    <2>2. H[1].event.type # SnapshotType
        BY <1>1, <1>8, <1>H DEF TxMeans
    <2>3. {q \in Runs : Exists(q)}' = {q \in Runs : Exists(q)} \cup {c}
        BY <1>2, <1>8 DEF Exists
    <2>4. LogOf(r)' = LogOf(r)
        BY <1>2, <1>4, <1>8 DEF LogOf, Exists
    <2>5. LogOf(c)' = SubSeq(Events(H), 1, n)
        BY <1>2, <1>8, <2>1 DEF LogOf, Exists
    <2>6. \A q \in Runs : q # r /\ q # c => LogOf(q)' = LogOf(q)
        BY <1>2, <1>8 DEF LogOf, Exists
    <2>7. lg' = [lg EXCEPT ![c] = SubSeq(lg[r], 1, n)]
        <3>1. \A q \in Runs : lg'[q] = IF q = c THEN SubSeq(lg[r], 1, n) ELSE lg[q]
            BY <1>3, <1>6, <2>4, <2>5, <2>6
        <3>2. DOMAIN lg' = Runs
            BY <1>3
        <3> QED
            BY <3>1, <3>2, <1>3
    <2>8. EL!ForkPrefix(r, c, n)
        <3>1. lg[r][1].type # SnapshotType
            <4>1. 1 \in 1 .. Len(H)
                BY <1>5
            <4> QED
                BY <1>5, <1>6, <2>2, <4>1
        <3> QED
            BY <1>2, <1>8, <2>3, <2>7, <3>1
            DEF EL!ForkPrefix, EL!SnapshotType, SnapshotType
    <2>9. n \in DOMAIN lg[r]
        BY <1>5, <1>6
    <2> QED
        BY <1>2, <1>8, <2>8, <2>9 DEF EL!Next
<1> QED
    BY <1>7, <1>8

\* The event store implements the abstract event log: whatever the handles of
\* any number of processes do, callers see runs that are created empty, grow by
\* one fresh event, are cut to a prefix, or appear as a copy of a prefix.
THEOREM EventStoreImplementsEventLog == Spec => ImplementsEventLog
<1>1. Init => EL!Init
    BY DEF Init, EL!Init, Exists, Log
<1>2. RInv /\ RInv' /\ [Next]_vars => [EL!Next]_(EL!vars)
    <2> SUFFICES ASSUME RInv, RInv', [Next]_vars
                 PROVE  EL!Next \/ UNCHANGED EL!vars
        OBVIOUS
    <2>1. IInv /\ IInv'
        BY DEF RInv
    <2>2. ASSUME \A r \in Runs : /\ Exists(r)' <=> Exists(r)
                                 /\ LogOf(r)' = LogOf(r)
          PROVE  UNCHANGED EL!vars
        <3>1. {r \in Runs : Exists(r)}' = {r \in Runs : Exists(r)}
            BY <2>2
        <3>2. [r \in Runs |-> Log(r)]' = [r \in Runs |-> Log(r)]
            BY <2>1, <2>2, AbstractState
        <3> QED
            BY <3>1, <3>2 DEF EL!vars
    <2>3. CASE UNCHANGED vars
        BY <2>2, <2>3 DEF vars, Exists, LogOf
    <2>4. ASSUME NEW h \in Handles, Start(h) \/ Continue(h) \/ Close(h)
          PROVE  EL!Next \/ UNCHANGED EL!vars
        <3>1. CASE Commits(h)
            BY <3>1, CommitIsLogStep
        <3>2. CASE Creates(h)
            BY <2>1, <3>2, CreatesIsCreateRun DEF EL!Next
        <3>3. CASE Relabels(h) \/ UNCHANGED ag_run
            BY <2>1, <2>2, <3>3, QuietStep
        <3> QED
            BY <2>1, <2>4, <3>1, <3>2, <3>3, StepKinds
    <2> QED
        BY <2>3, <2>4 DEF Next
<1> QED
    BY <1>1, <1>2, MeaningHolds, PTL DEF Spec, ImplementsEventLog, EL!Spec

-----------------------------------------------------------------------------
(* Slices of a log                                                         *)

\* Cutting verified rows at a row that is among them: the boundary a caller
\* names by event id is that row, so the slices of iter_events are those of its
\* sequence number.
LEMMA Slices ==
    ASSUME NEW rs \in SUBSET EventRow, NEW x \in rs, NEW y \in rs,
           \A u, v \in rs : u.event.id = v.event.id => u = v
    PROVE  /\ IterEvents(rs, None, x.event.id) = {z \in rs : z.seq <= x.seq}
           /\ IterEvents(rs, x.event.id, None) = {z \in rs : z.seq > x.seq}
           /\ IterEvents(rs, x.event.id, y.event.id)
                  = {z \in rs : z.seq > x.seq /\ z.seq <= y.seq}
           /\ PrefixLength(rs, x.event.id) = x.seq + 1
<1>1. ASSUME NEW u \in rs
      PROVE  /\ u.event.id # None
             /\ (CHOOSE z \in rs : z.event.id = u.event.id) = u
    <2>1. u.event.id \in EventIds
        BY DEF EventRow, Event
    <2>2. (CHOOSE z \in rs : z.event.id = u.event.id) \in rs
          /\ (CHOOSE z \in rs : z.event.id = u.event.id).event.id = u.event.id
        OBVIOUS
    <2> QED
        BY <2>1, <2>2, NoneAssumption
<1>2. /\ x.event.id # None /\ y.event.id # None
      /\ BoundarySeq(rs, x.event.id) = x.seq /\ BoundarySeq(rs, y.event.id) = y.seq
      /\ Known(rs, None) /\ Known(rs, x.event.id) /\ Known(rs, y.event.id)
    BY <1>1 DEF BoundarySeq, Known
<1>3. PrefixLength(rs, x.event.id) = x.seq + 1
    BY <1>1 DEF PrefixLength
<1> QED
    BY <1>2, <1>3 DEF IterEvents

\* For logs of any length, iter_events, truncate_after and fork_prefix cut a
\* run at the same place when they are given the same event.
THEOREM CutsAlwaysAgree == Spec => []CutsAgree
<1>1. IInv => CutsAgree
    <2>0. ASSUME NEW r \in Runs, NEW id \in EventIds, RowsNamed(r, id) = {}
          PROVE  /\ IterEvents(RowsOf(r), id, None) = None
                 /\ IterEvents(RowsOf(r), None, id) = None
        <3>1. ~Known(RowsOf(r), id)
            BY <2>0, NoneAssumption DEF Known, RowsNamed
        <3> QED
            BY <3>1 DEF IterEvents
    <2> SUFFICES ASSUME IInv, NEW r \in Runs, NEW x \in RowsOf(r), NEW y \in RowsOf(r)
                 PROVE  LET rs == RowsOf(r)
                            head == IterEvents(rs, None, x.event.id)
                        IN  /\ head = rs \ RowsAfter(r, x)
                            /\ {z.seq : z \in head}
                                   = 0 .. PrefixLength(rs, x.event.id) - 1
                            /\ IterEvents(rs, x.event.id, None) = rs \ head
                            /\ IterEvents(rs, x.event.id, y.event.id) =
                                   IF y.seq <= x.seq THEN {}
                                   ELSE IterEvents(rs, None, y.event.id) \ head
        BY <2>0 DEF CutsAgree
    <2> DEFINE rs == RowsOf(r)
               H == ag_run[r].head.head_hash
    <2>1. rs \in SUBSET EventRow /\ \A z \in rs : z.seq \in Nat
        BY DEF IInv, TypeOK, RowsOf, EventRow
    <2>2. IsChain(r, H) /\ rs = ChainRows(r, H) /\ Len(H) \in Nat
        BY ChainLinks DEF IInv, RunOK, IsRun
    <2>3. \A u, v \in rs : u.event.id = v.event.id => u = v
        BY <2>2, ChainRowsDistinct
    <2>4. {z.seq : z \in rs} = 0 .. (Len(H) - 1)
        BY <2>2, ChainSeqs
    <2>5. RowsAfter(r, x) = {z \in rs : z.seq > x.seq}
        BY DEF RowsAfter
    <2> HIDE DEF rs, H
    <2>6. x \in rs /\ y \in rs
        BY DEF rs
    <2>7. /\ IterEvents(rs, None, x.event.id) = {z \in rs : z.seq <= x.seq}
          /\ IterEvents(rs, None, y.event.id) = {z \in rs : z.seq <= y.seq}
          /\ IterEvents(rs, x.event.id, None) = {z \in rs : z.seq > x.seq}
          /\ IterEvents(rs, x.event.id, y.event.id)
                 = {z \in rs : z.seq > x.seq /\ z.seq <= y.seq}
          /\ PrefixLength(rs, x.event.id) = x.seq + 1
        BY <2>1, <2>3, <2>6, Slices
    <2>8. {z \in rs : z.seq <= x.seq} = rs \ RowsAfter(r, x)
        BY <2>1, <2>5, <2>6
    <2>9. {z.seq : z \in {u \in rs : u.seq <= x.seq}} = 0 .. (x.seq + 1) - 1
        <3>1. x.seq \in 0 .. (Len(H) - 1)
            BY <2>4, <2>6
        <3>2. \A k \in 0 .. x.seq : \E z \in rs : z.seq = k /\ z.seq <= x.seq
            <4>1. TAKE k \in 0 .. x.seq
            <4>2. k \in 0 .. (Len(H) - 1) /\ k <= x.seq
                BY <2>2, <3>1
            <4> QED
                BY <2>4, <4>2
        <3>3. \A z \in rs : z.seq <= x.seq => z.seq \in 0 .. x.seq
            BY <2>1, <2>6
        <3>4. (x.seq + 1) - 1 = x.seq
            BY <2>1, <2>6
        <3> QED
            BY <3>2, <3>3, <3>4
    <2>10. {z \in rs : z.seq > x.seq} = rs \ {z \in rs : z.seq <= x.seq}
        BY <2>1, <2>6
    <2>11. {z \in rs : z.seq > x.seq /\ z.seq <= y.seq} =
               IF y.seq <= x.seq THEN {}
               ELSE {z \in rs : z.seq <= y.seq} \ {z \in rs : z.seq <= x.seq}
        BY <2>1, <2>6
    <2> QED
        BY <2>7, <2>8, <2>9, <2>10, <2>11 DEF rs
<1> QED
    BY <1>1, InvariantHolds, PTL
=============================================================================
