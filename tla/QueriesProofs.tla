---------------------------- MODULE QueriesProofs ---------------------------
(***************************************************************************)
(* Proofs about module Queries: the types, the order in which the database *)
(* returns objects, and what a neighborhood walk returns while others      *)
(* write.                                                                  *)
(***************************************************************************)
EXTENDS Queries, SequenceTheorems, SetInduction

-----------------------------------------------------------------------------
(* The order of the objects                                                *)

\* The identifiers are a sequence, and each is an object.
LEMMA IdsFacts ==
    /\ Len(Ids) \in Nat
    /\ DOMAIN Ids = 1 .. Len(Ids)
    /\ Objects = {Ids[i] : i \in 1 .. Len(Ids)}
    /\ \A i \in 1 .. Len(Ids) : Ids[i] \in Id
    /\ \A o \in Objects : o \in Id
    /\ \A o \in Objects : ObjectSeq(o) \in Nat /\ o.rank \in Nat
<1>1. /\ Len(Ids) \in Nat /\ DOMAIN Ids = 1 .. Len(Ids)
      /\ \A i \in 1 .. Len(Ids) : Ids[i] \in Id
  BY QueriesAssumption
<1>2. Objects = {Ids[i] : i \in 1 .. Len(Ids)}
  BY <1>1 DEF Objects
<1>3. \A o \in Objects : o \in Id
  BY <1>1, <1>2
<1>4. \A o \in Id : ObjectSeq(o) \in Nat /\ o.rank \in Nat
  BY DEF Id, ObjectSeq
<1> QED BY <1>1, <1>2, <1>3, <1>4

\* The order of creation is that of the query.
LEMMA IdsOrdered ==
    ASSUME NEW i \in 1 .. Len(Ids), NEW j \in 1 .. Len(Ids), i < j
    PROVE  Before(Ids[i], Ids[j])
BY IdsFacts, QueriesAssumption DEF Before

\* No object comes before itself.
LEMMA BeforeIrreflexive == \A o \in Objects : ~Before(o, o)
BY IdsFacts DEF Before

\* s lists S in the order of the query.
Lists(s, S) ==
    /\ ToSet(s) = S
    /\ \A i, j \in DOMAIN s : i < j => Before(s[i], s[j])

\* S has such a list, of at most n objects.
HasList(S, n) == \E m \in 0 .. n : \E s \in [1 .. m -> S] : Lists(s, S)

\* Every set of objects has one.
LEMMA SortedExists ==
    ASSUME NEW S \in SUBSET Objects
    PROVE  \E s \in SeqOf(S, Len(Ids)) : Lists(s, S)
<1> DEFINE First(n) == {Ids[i] : i \in 1 .. n}
           N == {n \in Nat : n <= Len(Ids) =>
                    \A T \in SUBSET First(n) : HasList(T, n)}
<1>1. 0 \in N
  <2>1. ASSUME NEW T \in SUBSET First(0)
        PROVE  HasList(T, 0)
    <3>1. T = {}
      OBVIOUS
    <3>2. /\ 0 \in 0 .. 0 /\ <<>> \in [1 .. 0 -> T]
          /\ Lists(<<>>, T)
      BY <3>1 DEF Lists, ToSet
    <3> QED BY <3>2, Zenon DEF HasList
  <2> QED BY <2>1
<1>2. ASSUME NEW n \in Nat, n \in N
      PROVE  n + 1 \in N
  <2>0. n + 1 \in Nat
    OBVIOUS
  <2>1. SUFFICES ASSUME n + 1 <= Len(Ids), NEW T \in SUBSET First(n + 1)
                 PROVE  HasList(T, n + 1)
    BY <2>0, Zenon
  <2> DEFINE x == Ids[n + 1]
             U == T \ {x}
  <2>2. U \in SUBSET First(n)
    <3> SUFFICES ASSUME NEW o \in U PROVE o \in First(n)
      OBVIOUS
    <3>1. PICK i \in 1 .. n + 1 : o = Ids[i]
      OBVIOUS
    <3>2. i # n + 1
      BY <3>1
    <3>3. i \in 1 .. n
      BY <3>2
    <3> QED BY <3>1, <3>3
  <2>3. PICK m \in 0 .. n : \E s \in [1 .. m -> U] : Lists(s, U)
    <3>1. n <= Len(Ids)
      BY <2>1, IdsFacts
    <3>2. HasList(U, n)
      BY <1>2, <2>2, <3>1, Zenon
    <3> QED BY <3>2 DEF HasList
  <2>4. PICK s \in [1 .. m -> U] : Lists(s, U)
    BY <2>3
  <2>5. CASE x \notin T
    <3>1. U = T
      BY <2>5
    <3>2. m \in 0 .. n + 1
      OBVIOUS
    <3> QED BY <2>4, <3>1, <3>2, Zenon DEF HasList
  <2>6. CASE x \in T
    <3> DEFINE r == [i \in 1 .. m + 1 |-> IF i <= m THEN s[i] ELSE x]
    <3>1. m + 1 \in 0 .. n + 1 /\ r \in [1 .. m + 1 -> T]
      BY <2>4, <2>6
    <3>2. \A o \in U : Before(o, x)
      <4> SUFFICES ASSUME NEW o \in U PROVE Before(o, x)
        OBVIOUS
      <4>1. PICK i \in 1 .. n : o = Ids[i]
        BY <2>2
      <4>2. i \in 1 .. Len(Ids) /\ n + 1 \in 1 .. Len(Ids) /\ i < n + 1
        BY <2>1, IdsFacts
      <4> QED BY <4>1, <4>2, IdsOrdered
    <3>3. ToSet(r) = T
      <4>1. ToSet(s) = U /\ DOMAIN s = 1 .. m
        BY <2>4 DEF Lists
      <4>2. DOMAIN r = 1 .. m + 1
        OBVIOUS
      <4>3. ASSUME NEW o \in T PROVE \E i \in 1 .. m + 1 : r[i] = o
        <5>1. CASE o = x
          <6>1. m + 1 \in 1 .. m + 1 /\ r[m + 1] = x
            OBVIOUS
          <6> QED BY <5>1, <6>1
        <5>2. CASE o # x
          <6>1. PICK i \in 1 .. m : s[i] = o
            BY <4>1, <5>2 DEF ToSet
          <6>2. i \in 1 .. m + 1 /\ r[i] = s[i]
            OBVIOUS
          <6> QED BY <6>1, <6>2
        <5> QED BY <5>1, <5>2
      <4>4. \A i \in 1 .. m + 1 : r[i] \in T
        BY <3>1
      <4> HIDE DEF r
      <4> QED BY <4>2, <4>3, <4>4 DEF ToSet
    <3>4. ASSUME NEW i \in 1 .. m + 1, NEW j \in 1 .. m + 1, i < j
          PROVE  Before(r[i], r[j])
      <4>1. i \in 1 .. m /\ r[i] = s[i] /\ s[i] \in U
        BY <2>4, <3>4
      <4>2. CASE j = m + 1
        <5>1. r[j] = x
          BY <4>2
        <5> QED BY <3>2, <4>1, <5>1
      <4>3. CASE j \in 1 .. m
        <5>1. r[j] = s[j]
          BY <4>3
        <5> QED BY <2>4, <3>4, <4>1, <4>3, <5>1 DEF Lists
      <4> QED BY <4>2, <4>3
    <3>5. Lists(r, T)
      <4>1. DOMAIN r = 1 .. m + 1
        OBVIOUS
      <4> HIDE DEF r
      <4> QED BY <3>3, <3>4, <4>1 DEF Lists
    <3> HIDE DEF r
    <3> QED BY <3>1, <3>5, Zenon DEF HasList
  <2> QED BY <2>5, <2>6
<1>3. Nat \subseteq N
  <2> HIDE DEF N
  <2> QED BY <1>1, <1>2, NatSetInduction
<1>4. S \in SUBSET First(Len(Ids))
  BY IdsFacts
<1>5. HasList(S, Len(Ids))
  <2>1. Len(Ids) \in N /\ Len(Ids) <= Len(Ids)
    BY <1>3, IdsFacts
  <2> QED BY <1>4, <2>1, Zenon
<1>6. PICK m \in 0 .. Len(Ids) : \E s \in [1 .. m -> S] : Lists(s, S)
  BY <1>5 DEF HasList
<1>7. [1 .. m -> S] \subseteq SeqOf(S, Len(Ids))
  BY DEF SeqOf
<1> QED BY <1>6, <1>7

\* Sorted lists exactly the objects it is given, in order.
LEMMA SortedFacts ==
    ASSUME NEW S \in SUBSET Objects
    PROVE  /\ Sorted(S) \in Seq(Objects)
           /\ Lists(Sorted(S), S)
<1>1. Sorted(S) = CHOOSE s \in SeqOf(S, Len(Ids)) : Lists(s, S)
  BY DEF Sorted, Lists
<1>2. Sorted(S) \in SeqOf(S, Len(Ids)) /\ Lists(Sorted(S), S)
  BY <1>1, SortedExists
<1>3. PICK m \in 0 .. Len(Ids) : Sorted(S) \in [1 .. m -> S]
  BY <1>2, IdsFacts DEF SeqOf
<1>4. Sorted(S) \in Seq(S)
  <2>1. m \in Nat
    BY IdsFacts
  <2> QED BY <1>3, <2>1
<1> QED BY <1>2, <1>4

-----------------------------------------------------------------------------
(* Paths                                                                   *)

\* A path of m edges of E from o to p.
IsPath(E, o, p, m, path) ==
    /\ path \in [0 .. m -> Objects]
    /\ path[0] = o /\ path[m] = p
    /\ \A i \in 1 .. m : Joined(E, path[i - 1], path[i])

\* Being near is having a path.
LEMMA BallPath ==
    ASSUME NEW E, NEW o, NEW n \in Int, NEW p
    PROVE  p \in Ball(E, o, n) <=>
               p \in Objects /\ \E m \in 0 .. n : \E path : IsPath(E, o, p, m, path)
BY Zenon DEF Ball, IsPath

\* An object is near itself, and alone so at no distance.
LEMMA BallZero ==
    ASSUME NEW E, NEW o \in Objects
    PROVE  Ball(E, o, 0) = {o} /\ Ball(E, o, -1) = {}
<1>1. IsPath(E, o, o, 0, [i \in 0 .. 0 |-> o])
  BY DEF IsPath
<1>2. o \in Ball(E, o, 0)
  <2>1. 0 \in 0 .. 0 /\ 0 \in Int
    OBVIOUS
  <2> QED BY <1>1, <2>1, BallPath, Zenon
<1>3. ASSUME NEW p \in Ball(E, o, 0) PROVE p = o
  <2>1. PICK m \in 0 .. 0 : \E path : IsPath(E, o, p, m, path)
    BY <1>3, BallPath
  <2>2. PICK path : IsPath(E, o, p, m, path)
    BY <2>1
  <2>3. m = 0
    OBVIOUS
  <2> QED BY <2>2, <2>3 DEF IsPath
<1>4. Ball(E, o, -1) = {}
  BY DEF Ball
<1> QED BY <1>2, <1>3, <1>4

\* More edges and a greater distance lead no less far.
LEMMA BallMonotone ==
    ASSUME NEW E, NEW F, E \subseteq F, NEW o, NEW n \in Int, NEW k \in Int,
           n <= k
    PROVE  Ball(E, o, n) \subseteq Ball(F, o, k)
<1> SUFFICES ASSUME NEW p \in Ball(E, o, n) PROVE p \in Ball(F, o, k)
  OBVIOUS
<1>1. p \in Objects /\ \E m \in 0 .. n : \E path : IsPath(E, o, p, m, path)
  BY BallPath, Zenon
<1>2. PICK m \in 0 .. n : \E path : IsPath(E, o, p, m, path)
  BY <1>1
<1>3. PICK path : IsPath(E, o, p, m, path)
  BY <1>2
<1>4. \A q, r : Joined(E, q, r) => Joined(F, q, r)
  BY DEF Joined
<1>5. IsPath(F, o, p, m, path)
  BY <1>3, <1>4, Zenon DEF IsPath
<1>6. m \in 0 .. k
  OBVIOUS
<1> QED BY <1>1, <1>5, <1>6, BallPath, Zenon

\* One more edge leads one step further.
LEMMA BallGrows ==
    ASSUME NEW E \in SUBSET Edge, NEW o, NEW n \in Nat, NEW e \in E,
           EndsOf(e) \cap Ball(E, o, n) # {}
    PROVE  EndsOf(e) \subseteq Ball(E, o, n + 1)
<1> SUFFICES ASSUME NEW q \in EndsOf(e) PROVE q \in Ball(E, o, n + 1)
  OBVIOUS
<1>1. PICK p \in EndsOf(e) : p \in Ball(E, o, n)
  OBVIOUS
<1>2. EndsOf(e) \subseteq Objects
  BY QueriesAssumption DEF Edge, EndsOf
<1>3. CASE p = q
  BY <1>1, <1>3, BallMonotone
<1>4. CASE p # q
  <2>1. Joined(E, p, q)
    BY <1>1, <1>4 DEF Joined, EndsOf
  <2>2. PICK m \in 0 .. n : \E path : IsPath(E, o, p, m, path)
    BY <1>1, BallPath
  <2>3. PICK path : IsPath(E, o, p, m, path)
    BY <2>2
  <2> DEFINE longer == [i \in 0 .. m + 1 |-> IF i <= m THEN path[i] ELSE q]
  <2>4. longer \in [0 .. m + 1 -> Objects]
    BY <1>2, <2>3 DEF IsPath
  <2>5. longer[0] = o /\ longer[m + 1] = q
    BY <2>3 DEF IsPath
  <2>6. ASSUME NEW i \in 1 .. m + 1
        PROVE  Joined(E, longer[i - 1], longer[i])
    <3>1. CASE i = m + 1
      <4>1. longer[i - 1] = path[m] /\ longer[i] = q
        BY <3>1
      <4>2. path[m] = p
        BY <2>3 DEF IsPath
      <4> QED BY <2>1, <4>1, <4>2
    <3>2. CASE i # m + 1
      <4>1. i \in 1 .. m /\ longer[i - 1] = path[i - 1] /\ longer[i] = path[i]
        BY <3>2
      <4>2. Joined(E, path[i - 1], path[i])
        BY <2>3, <4>1 DEF IsPath
      <4> HIDE DEF longer
      <4> QED BY <4>1, <4>2
    <3> QED BY <3>1, <3>2
  <2>7. IsPath(E, o, q, m + 1, longer)
    <3> HIDE DEF longer
    <3> QED BY <2>4, <2>5, <2>6 DEF IsPath
  <2>8. m + 1 \in 0 .. n + 1 /\ n + 1 \in Int /\ q \in Objects
    BY <1>2
  <2> HIDE DEF longer
  <2> QED BY <2>7, <2>8, BallPath, Zenon
<1> QED BY <1>3, <1>4

\* What is near is one edge from what is nearer, or is nearer itself.
LEMMA BallStep ==
    ASSUME NEW E, NEW o, NEW n \in Nat, NEW p \in Ball(E, o, n + 1)
    PROVE  \/ p \in Ball(E, o, n)
           \/ \E q \in Ball(E, o, n) : Joined(E, q, p)
<1>1. n + 1 \in Int /\ n \in Int
  OBVIOUS
<1>2. p \in Objects /\ \E m \in 0 .. n + 1 : \E path : IsPath(E, o, p, m, path)
  BY <1>1, BallPath, Zenon
<1>3. PICK m \in 0 .. n + 1 : \E path : IsPath(E, o, p, m, path)
  BY <1>2
<1>4. PICK path : IsPath(E, o, p, m, path)
  BY <1>3
<1>5. CASE m <= n
  <2>1. m \in 0 .. n
    BY <1>5
  <2> QED BY <1>1, <1>2, <1>4, <2>1, BallPath, Zenon
<1>6. CASE m = n + 1
  <2> DEFINE q == path[n]
             short == [i \in 0 .. n |-> path[i]]
  <2>1. Joined(E, q, p)
    <3>1. m \in 1 .. m /\ m - 1 = n /\ path[m] = p
      BY <1>4, <1>6 DEF IsPath
    <3>2. Joined(E, path[m - 1], path[m])
      BY <1>4, <3>1 DEF IsPath
    <3> QED BY <3>1, <3>2, Zenon
  <2>2. short \in [0 .. n -> Objects] /\ short[0] = o /\ short[n] = q
    BY <1>4, <1>6 DEF IsPath
  <2>3. ASSUME NEW i \in 1 .. n PROVE Joined(E, short[i - 1], short[i])
    <3>1. i \in 1 .. m /\ short[i - 1] = path[i - 1] /\ short[i] = path[i]
      BY <1>6
    <3>2. Joined(E, path[i - 1], path[i])
      BY <1>4, <3>1 DEF IsPath
    <3> HIDE DEF short
    <3> QED BY <3>1, <3>2
  <2>4. IsPath(E, o, q, n, short)
    <3> HIDE DEF short, q
    <3> QED BY <2>2, <2>3 DEF IsPath
  <2>5. n \in 0 .. n /\ q \in Objects
    BY <1>4, <1>6 DEF IsPath
  <2>6. q \in Ball(E, o, n)
    <3> HIDE DEF short, q
    <3> QED BY <1>1, <2>4, <2>5, BallPath, Zenon
  <2> QED BY <2>1, <2>6
<1> QED BY <1>5, <1>6

\* What no edge leads out of holds everything near.
LEMMA BallClosed ==
    ASSUME NEW E, NEW o \in Objects, NEW S, o \in S,
           \A q \in S : \A p \in Objects : Joined(E, q, p) => p \in S
    PROVE  \A n \in Nat : Ball(E, o, n) \subseteq S
<1> DEFINE N == {n \in Nat : Ball(E, o, n) \subseteq S}
<1>1. 0 \in N
  BY BallZero
<1>2. ASSUME NEW n \in Nat, n \in N
      PROVE  n + 1 \in N
  <2>1. ASSUME NEW p \in Ball(E, o, n + 1) PROVE p \in S
    <3>1. p \in Objects
      BY DEF Ball
    <3> QED BY <1>2, <2>1, <3>1, BallStep
  <2> QED BY <2>1
<1>3. Nat \subseteq N
  <2> HIDE DEF N
  <2> QED BY <1>1, <1>2, NatSetInduction
<1> QED BY <1>3
-----------------------------------------------------------------------------
(* One level of a walk                                                     *)

\* What a walk keeps.
WalkType ==
    [start : Objects \cup {None}, depth : Nat, left : Nat,
     seen_objs : SUBSET Objects, frontier : SUBSET Objects,
     seen_rels : SUBSET Relations, objects : Seq(Objects),
     relations : SUBSET Edge]

\* v is the walk w after a level that saw the relations R.
IsLevel(w, v, R) ==
    /\ v.start = w.start /\ v.depth = w.depth
    /\ v.left = w.left - 1
    /\ v.frontier = (UNION {EndsOf(e) : e \in R}) \ w.seen_objs
    /\ v.seen_objs = w.seen_objs \cup v.frontier
    /\ v.seen_rels = w.seen_rels \cup {e.id : e \in R}

\* Relations lead from objects to objects.
LEMMA EndsAreObjects == \A e \in Edge : EndsOf(e) \subseteq Objects
BY QueriesAssumption DEF Edge, EndsOf

\* Fewer relations to account for, and more that account for them.
LEMMA WalkMonotone ==
    ASSUME NEW w \in WalkType, NEW E, NEW F, E \subseteq F
    PROVE  /\ WalkSound(w, E) => WalkSound(w, F)
           /\ WalkComplete(w, F) => WalkComplete(w, E)
<1> DEFINE n == w.depth - w.left
<1>1. n \in Int /\ n - 1 \in Int /\ n <= n /\ n - 1 <= n - 1
  BY DEF WalkType
<1> HIDE DEF n
<1>2. /\ Ball(E, w.start, n) \subseteq Ball(F, w.start, n)
      /\ Ball(E, w.start, n - 1) \subseteq Ball(F, w.start, n - 1)
  BY <1>1, BallMonotone
<1>3. ASSUME WalkSound(w, E) PROVE WalkSound(w, F)
  BY <1>2, <1>3 DEF WalkSound, n
<1>4. ASSUME WalkComplete(w, F) PROVE WalkComplete(w, E)
  BY <1>2, <1>4 DEF WalkComplete, n
<1> QED BY <1>3, <1>4

\* A level leads no further than the relations it saw.
LEMMA LevelSound ==
    ASSUME NEW w \in WalkType, NEW v, NEW E \in SUBSET Edge, NEW R \in SUBSET E,
           w.left <= w.depth, w.frontier \subseteq w.seen_objs,
           \A e \in R : EndsOf(e) \cap w.frontier # {},
           IsLevel(w, v, R), WalkSound(w, E)
    PROVE  WalkSound(v, E)
<1> DEFINE n == w.depth - w.left
           near(k) == Ball(E, w.start, k)
<1>1. /\ n \in Nat /\ v.depth - v.left = n + 1 /\ (n + 1) - 1 = n
      /\ w.depth \in Int /\ w.left \in Int
  BY DEF WalkType, IsLevel
<1>2. /\ w.seen_objs \subseteq near(n)
      /\ \A k \in w.seen_rels : \E e \in E :
            e.id = k /\ EndsOf(e) \cap near(n - 1) # {}
  BY DEF WalkSound
<1> HIDE DEF n
<1>3. \A e \in R : EndsOf(e) \cap near(n) # {}
  BY <1>2
<1>4. \A e \in R : EndsOf(e) \subseteq near(n + 1)
  BY <1>1, <1>3, BallGrows
<1>5. near(n) \subseteq near(n + 1) /\ near(n - 1) \subseteq near(n)
  BY <1>1, BallMonotone
<1>6. v.frontier \subseteq near(n + 1)
  BY <1>4 DEF IsLevel
<1>7. v.seen_objs \subseteq near(n + 1)
  BY <1>2, <1>5, <1>6 DEF IsLevel
<1>8. ASSUME NEW k \in v.seen_rels
      PROVE  \E e \in E : e.id = k /\ EndsOf(e) \cap near(n) # {}
  <2>1. CASE k \in w.seen_rels
    <3>1. PICK e \in E : e.id = k /\ EndsOf(e) \cap near(n - 1) # {}
      BY <1>2, <2>1
    <3>2. EndsOf(e) \cap near(n) # {}
      BY <1>5, <3>1
    <3> QED BY <3>1, <3>2
  <2>2. CASE k \notin w.seen_rels
    <3>1. PICK e \in R : k = e.id
      BY <1>8, <2>2 DEF IsLevel
    <3> QED BY <1>3, <3>1
  <2> QED BY <2>1, <2>2
<1>9. v.start = w.start
  BY DEF IsLevel
<1> HIDE DEF near
<1>10. /\ v.seen_objs \subseteq near(v.depth - v.left)
       /\ \A k \in v.seen_rels : \E e \in E :
             e.id = k /\ EndsOf(e) \cap near(v.depth - v.left - 1) # {}
  BY <1>1, <1>7, <1>8
<1> QED BY <1>9, <1>10 DEF WalkSound, near

\* A level that saw all of E at its frontier misses nothing of E.
LEMMA LevelComplete ==
    ASSUME NEW w \in WalkType, NEW v, NEW E \in SUBSET Edge, NEW R,
           w.left <= w.depth, w.frontier \subseteq w.seen_objs,
           \A e \in E : EndsOf(e) \cap w.frontier # {} => e \in R,
           IsLevel(w, v, R), WalkComplete(w, E)
    PROVE  WalkComplete(v, E)
<1> DEFINE n == w.depth - w.left
           near(k) == Ball(E, w.start, k)
           done == w.seen_objs \ w.frontier
<1>1. n \in Nat /\ v.depth - v.left = n + 1 /\ (n + 1) - 1 = n
  BY DEF WalkType, IsLevel
<1>2. /\ near(n) \subseteq w.seen_objs
      /\ \A e \in E :
            EndsOf(e) \cap done # {} =>
                EndsOf(e) \subseteq w.seen_objs /\ e.id \in w.seen_rels
  BY DEF WalkComplete
<1> HIDE DEF n
<1>3. \A e \in R : EndsOf(e) \subseteq v.seen_objs /\ e.id \in v.seen_rels
  BY DEF IsLevel
<1>4. w.seen_objs \subseteq v.seen_objs /\ w.seen_rels \subseteq v.seen_rels
  BY DEF IsLevel
<1>5. ASSUME NEW e \in E, EndsOf(e) \cap w.seen_objs # {}
      PROVE  EndsOf(e) \subseteq v.seen_objs /\ e.id \in v.seen_rels
  <2>1. CASE EndsOf(e) \cap w.frontier # {}
    BY <1>3, <2>1
  <2>2. CASE EndsOf(e) \cap w.frontier = {}
    <3>1. EndsOf(e) \cap done # {}
      BY <1>5, <2>2
    <3> QED BY <1>2, <1>4, <3>1
  <2> QED BY <2>1, <2>2
<1>6. near(n + 1) \subseteq v.seen_objs
  <2> SUFFICES ASSUME NEW p \in near(n + 1) PROVE p \in v.seen_objs
    OBVIOUS
  <2>1. CASE p \in near(n)
    BY <1>2, <1>4, <2>1
  <2>2. CASE p \notin near(n)
    <3>1. PICK q \in near(n) : Joined(E, q, p)
      BY <1>1, <2>2, BallStep
    <3>2. PICK e \in E : {q, p} = EndsOf(e)
      BY <3>1 DEF Joined
    <3>3. EndsOf(e) \cap w.seen_objs # {}
      BY <1>2, <3>1, <3>2
    <3> QED BY <1>5, <3>2, <3>3
  <2> QED BY <2>1, <2>2
<1>7. v.seen_objs \ v.frontier = w.seen_objs
  BY DEF IsLevel
<1>8. v.start = w.start
  BY DEF IsLevel
<1> HIDE DEF near
<1>9. /\ near(v.depth - v.left) \subseteq v.seen_objs
      /\ near(v.depth - v.left - 1) \subseteq v.seen_objs \ v.frontier
  BY <1>1, <1>2, <1>6, <1>7
<1>10. \A e \in E : EndsOf(e) \cap (v.seen_objs \ v.frontier) # {} =>
          EndsOf(e) \subseteq v.seen_objs /\ e.id \in v.seen_rels
  BY <1>5, <1>7
<1> QED BY <1>8, <1>9, <1>10 DEF WalkComplete, near

-----------------------------------------------------------------------------
(* The tables and the in-memory store                                      *)

\* An object that comes after all the others goes at the end of the list.
LEMMA AppendLists ==
    ASSUME NEW s \in Seq(Objects), NEW S \in SUBSET Objects, NEW o \in Objects,
           Lists(s, S), \A p \in S : Before(p, o)
    PROVE  Append(s, o) \in Seq(Objects) /\ Lists(Append(s, o), S \cup {o})
<1> DEFINE t == Append(s, o)
<1>1. /\ t \in Seq(Objects) /\ Len(s) \in Nat /\ Len(t) = Len(s) + 1
      /\ \A i \in 1 .. Len(s) : t[i] = s[i]
      /\ t[Len(s) + 1] = o
  BY AppendProperties
<1> HIDE DEF t
<1>2. DOMAIN t = 1 .. Len(s) + 1 /\ DOMAIN s = 1 .. Len(s)
  BY <1>1
<1>3. ToSet(s) = S /\ \A i \in 1 .. Len(s) : s[i] \in S
  BY <1>2 DEF Lists, ToSet
<1>4. ToSet(t) = S \cup {o}
  <2>1. ASSUME NEW p \in S PROVE \E i \in DOMAIN t : t[i] = p
    <3>1. PICK i \in 1 .. Len(s) : s[i] = p
      BY <1>2, <1>3 DEF ToSet
    <3> QED BY <1>1, <1>2, <3>1
  <2>2. ASSUME NEW i \in DOMAIN t PROVE t[i] \in S \cup {o}
    BY <1>1, <1>2, <1>3
  <2>3. \E i \in DOMAIN t : t[i] = o
    BY <1>1, <1>2
  <2> QED BY <2>1, <2>2, <2>3 DEF ToSet
<1>5. ASSUME NEW i \in DOMAIN t, NEW j \in DOMAIN t, i < j
      PROVE  Before(t[i], t[j])
  <2>1. i \in 1 .. Len(s) /\ t[i] = s[i]
    BY <1>1, <1>2, <1>5
  <2>2. CASE j \in 1 .. Len(s)
    BY <1>1, <1>2, <1>5, <2>1, <2>2 DEF Lists
  <2>3. CASE j = Len(s) + 1
    BY <1>1, <1>3, <2>1, <2>3
  <2> QED BY <1>1, <1>2, <2>2, <2>3
<1> QED BY <1>1, <1>4, <1>5 DEF Lists, t

\* The list without the object at position k.
LEMMA RemoveAtFacts ==
    ASSUME NEW S, NEW s \in Seq(S), NEW k \in 1 .. Len(s)
    PROVE  /\ RemoveAt(s, k) \in Seq(S)
           /\ Len(RemoveAt(s, k)) = Len(s) - 1
           /\ \A i \in 1 .. Len(s) - 1 :
                 RemoveAt(s, k)[i] = IF i < k THEN s[i] ELSE s[i + 1]
<1> DEFINE a == SubSeq(s, 1, k - 1)
           b == SubSeq(s, k + 1, Len(s))
<1>1. Len(s) \in Nat /\ \A i \in 1 .. Len(s) : s[i] \in S
  OBVIOUS
<1>2. /\ 1 \in Int /\ k - 1 \in Int /\ k + 1 \in Int /\ Len(s) \in Int
      /\ 1 .. k - 1 \subseteq 1 .. Len(s) /\ k + 1 .. Len(s) \subseteq 1 .. Len(s)
  BY <1>1
<1>3. /\ a \in Seq(S) /\ Len(a) = k - 1
      /\ \A i \in 1 .. k - 1 : a[i] = s[i]
  BY <1>1, <1>2, SubSeqProperties
<1>4. /\ b \in Seq(S) /\ Len(b) = Len(s) - k
      /\ \A i \in 1 .. Len(s) - k : b[i] = s[k + i]
  <2>1. \A i \in k + 1 .. Len(s) : s[i] \in S
    BY <1>1, <1>2
  <2>2. /\ b \in Seq(S)
        /\ Len(b) = IF k + 1 <= Len(s) THEN Len(s) - (k + 1) + 1 ELSE 0
        /\ \A i \in 1 .. Len(s) - (k + 1) + 1 : b[i] = s[(k + 1) + i - 1]
    BY <1>2, <2>1, SubSeqProperties
  <2> HIDE DEF b
  <2>3. Len(b) = Len(s) - k /\ Len(s) - (k + 1) + 1 = Len(s) - k
    BY <1>1, <2>2
  <2>4. ASSUME NEW i \in 1 .. Len(s) - k PROVE b[i] = s[k + i]
    <3>1. (k + 1) + i - 1 = k + i
      BY <1>1
    <3> QED BY <2>2, <2>3, <3>1
  <2> QED BY <2>2, <2>3, <2>4
<1> HIDE DEF a, b
<1>5. /\ a \o b \in Seq(S) /\ Len(a \o b) = Len(a) + Len(b)
      /\ \A i \in 1 .. Len(a) + Len(b) :
            (a \o b)[i] = IF i <= Len(a) THEN a[i] ELSE b[i - Len(a)]
  BY <1>3, <1>4, ConcatProperties
<1>6. ASSUME NEW i \in 1 .. Len(s) - 1
      PROVE  (a \o b)[i] = IF i < k THEN s[i] ELSE s[i + 1]
  <2>1. CASE i < k
    BY <1>1, <1>3, <1>4, <1>5, <2>1
  <2>2. CASE ~(i < k)
    <3>1. /\ i \in 1 .. Len(a) + Len(b) /\ ~(i <= Len(a))
          /\ i - Len(a) \in 1 .. Len(s) - k /\ k + (i - Len(a)) = i + 1
      BY <1>1, <1>3, <1>4, <2>2
    <3>2. (a \o b)[i] = b[i - Len(a)]
      BY <1>5, <3>1
    <3>3. b[i - Len(a)] = s[k + (i - Len(a))]
      BY <1>4, <3>1
    <3> QED BY <2>2, <3>1, <3>2, <3>3
  <2> QED BY <2>1, <2>2
<1>7. Len(a) + Len(b) = Len(s) - 1
  BY <1>1, <1>3, <1>4
<1>8. RemoveAt(s, k) = a \o b
  BY DEF RemoveAt, a, b
<1> QED BY <1>5, <1>6, <1>7, <1>8

\* An object is listed once, so that removing it there removes it.
LEMMA RemoveLists ==
    ASSUME NEW s \in Seq(Objects), NEW S \in SUBSET Objects, NEW o \in S,
           Lists(s, S),
           NEW k \in DOMAIN s, s[k] = o
    PROVE  /\ RemoveAt(s, k) \in Seq(Objects)
           /\ Lists(RemoveAt(s, k), S \ {o})
<1> DEFINE t == RemoveAt(s, k)
<1>1. Len(s) \in Nat /\ DOMAIN s = 1 .. Len(s)
  OBVIOUS
<1>3. k \in 1 .. Len(s) /\ s[k] = o
  BY <1>1
<1>4. /\ t \in Seq(Objects) /\ Len(t) = Len(s) - 1
      /\ \A i \in 1 .. Len(s) - 1 : t[i] = IF i < k THEN s[i] ELSE s[i + 1]
  BY <1>3, RemoveAtFacts
<1> HIDE DEF t
<1>5. DOMAIN t = 1 .. Len(s) - 1
  BY <1>4
<1>6. /\ ToSet(s) = S /\ \A i \in 1 .. Len(s) : s[i] \in S
      /\ \A i, j \in 1 .. Len(s) : i < j => Before(s[i], s[j])
  BY <1>1 DEF Lists, ToSet
<1>7. ASSUME NEW i \in 1 .. Len(s), i # k PROVE s[i] # o
  BY <1>1, <1>3, <1>6, <1>7, BeforeIrreflexive
<1>8. ToSet(t) = S \ {o}
  <2>1. ASSUME NEW p \in S \ {o} PROVE \E i \in DOMAIN t : t[i] = p
    <3>1. PICK i \in 1 .. Len(s) : s[i] = p
      BY <1>1, <1>6 DEF ToSet
    <3>2. i # k
      BY <1>3, <2>1, <3>1
    <3>3. CASE i < k
      BY <1>1, <1>3, <1>4, <1>5, <3>1, <3>3
    <3>4. CASE i > k
      <4>1. i - 1 \in 1 .. Len(s) - 1 /\ ~(i - 1 < k) /\ (i - 1) + 1 = i
        BY <1>1, <1>3, <3>4
      <4>2. t[i - 1] = s[(i - 1) + 1]
        BY <1>4, <4>1
      <4> QED BY <1>5, <3>1, <4>1, <4>2
    <3> QED BY <1>1, <1>3, <3>2, <3>3, <3>4
  <2>2. ASSUME NEW i \in DOMAIN t PROVE t[i] \in S \ {o}
    <3>1. i \in 1 .. Len(s) - 1
      BY <1>5
    <3>2. CASE i < k
      <4>1. i \in 1 .. Len(s) /\ i # k
        BY <1>1, <1>3, <3>1, <3>2
      <4>2. t[i] = s[i]
        BY <1>4, <3>1, <3>2
      <4> QED BY <1>6, <1>7, <4>1, <4>2
    <3>3. CASE ~(i < k)
      <4>1. i + 1 \in 1 .. Len(s) /\ i + 1 # k
        BY <1>1, <1>3, <3>1, <3>3
      <4>2. t[i] = s[i + 1]
        BY <1>4, <3>1, <3>3
      <4> QED BY <1>6, <1>7, <4>1, <4>2
    <3> QED BY <3>2, <3>3
  <2> QED BY <2>1, <2>2 DEF ToSet
<1>9. ASSUME NEW i \in DOMAIN t, NEW j \in DOMAIN t, i < j
      PROVE  Before(t[i], t[j])
  <2> DEFINE old(n) == IF n < k THEN n ELSE n + 1
  <2>1. \A n \in DOMAIN t : old(n) \in 1 .. Len(s) /\ t[n] = s[old(n)]
    BY <1>1, <1>3, <1>4, <1>5
  <2>2. old(i) < old(j)
    BY <1>1, <1>3, <1>5, <1>9
  <2> HIDE DEF old
  <2> QED BY <1>6, <2>1, <2>2
<1> QED BY <1>4, <1>8, <1>9 DEF Lists, t

\* The types of the tables, and the in-memory store next to them.
TablesOK ==
    /\ vertex \in [Objects -> {"none", "placeholder", "object"}]
    /\ relation \in [Relations -> Links \cup {None}]
    /\ memory \in Seq(Objects)
    /\ created \in 0 .. Len(Ids)
    /\ MemoryOK

\* MemoryOK in terms of lists.
LEMMA MemoryLists ==
    MemoryOK <=> /\ Lists(memory, Present(vertex))
                 /\ Present(vertex) \subseteq {Ids[i] : i \in 1 .. created}
BY DEF MemoryOK, Lists

\* Every write keeps the in-memory store in step with the tables.
LEMMA WriteTables ==
    ASSUME TablesOK, Write
    PROVE  TablesOK'
<1> DEFINE First(n) == {Ids[i] : i \in 1 .. n}
<1>1. Present(vertex) \in SUBSET Objects
  BY DEF Present
<1>2. Lists(memory, Present(vertex)) /\ Present(vertex) \subseteq First(created)
  BY MemoryLists DEF TablesOK
<1>3. /\ memory \in Seq(Objects) /\ created \in 0 .. Len(Ids)
      /\ vertex \in [Objects -> {"none", "placeholder", "object"}]
      /\ relation \in [Relations -> Links \cup {None}]
  BY DEF TablesOK
<1>4. MemoryOK' <=> /\ Lists(memory', Present(vertex'))
                    /\ Present(vertex') \subseteq First(created')
  BY DEF MemoryOK, Lists
<1>5. CASE CreateObject
  <2> DEFINE o == Ids[created + 1]
  <2>1. /\ created < Len(Ids) /\ created' = created + 1
        /\ vertex' = [vertex EXCEPT ![o] = "object"]
        /\ memory' = Append(memory, o) /\ relation' = relation
    BY <1>5 DEF CreateObject
  <2>2. created + 1 \in 1 .. Len(Ids) /\ o \in Objects
    BY <1>3, <2>1, IdsFacts
  <2> HIDE DEF First
  <2>3. ASSUME NEW p \in Present(vertex) PROVE Before(p, o)
    <3>1. PICK i \in 1 .. created : p = Ids[i]
      BY <1>2 DEF First
    <3>2. i \in 1 .. Len(Ids) /\ i < created + 1
      BY <1>3, <2>2, IdsFacts
    <3> QED BY <2>2, <3>1, <3>2, IdsOrdered
  <2> HIDE DEF o
  <2>4. Present(vertex') = Present(vertex) \cup {o}
    BY <1>3, <2>1, <2>2 DEF Present
  <2>5. memory' \in Seq(Objects) /\ Lists(memory', Present(vertex'))
    BY <1>1, <1>2, <1>3, <2>1, <2>2, <2>3, <2>4, AppendLists
  <2>6. Present(vertex') \subseteq First(created')
    <3>1. First(created) \subseteq First(created + 1) /\ o \in First(created + 1)
      BY <1>3 DEF First, o
    <3> QED BY <1>2, <2>1, <2>4, <3>1
  <2>7. vertex' \in [Objects -> {"none", "placeholder", "object"}]
    BY <1>3, <2>1
  <2>8. created' \in 0 .. Len(Ids)
    BY <1>3, <2>1, <2>2, IdsFacts
  <2> QED BY <1>3, <1>4, <2>1, <2>5, <2>6, <2>7, <2>8 DEF TablesOK
<1>6. ASSUME NEW o \in Objects, RemoveObject(o) PROVE TablesOK'
  <2> DEFINE k == CHOOSE i \in DOMAIN memory : memory[i] = o
  <2>1. /\ o \in Present(vertex)
        /\ vertex' = [vertex EXCEPT ![o] = "placeholder"]
        /\ memory' = RemoveAt(memory, k)
        /\ relation' = relation /\ created' = created
    BY <1>6 DEF RemoveObject
  <2>2. \E i \in DOMAIN memory : memory[i] = o
    BY <1>2, <2>1 DEF Lists, ToSet
  <2>3. k \in DOMAIN memory /\ memory[k] = o
    BY <2>2
  <2> HIDE DEF k, First
  <2>4. Present(vertex') = Present(vertex) \ {o}
    BY <1>3, <2>1 DEF Present
  <2>5. memory' \in Seq(Objects) /\ Lists(memory', Present(vertex'))
    <3>1. /\ RemoveAt(memory, k) \in Seq(Objects)
          /\ Lists(RemoveAt(memory, k), Present(vertex) \ {o})
      BY <1>1, <1>2, <1>3, <2>1, <2>3, RemoveLists, Zenon
    <3> QED BY <2>1, <2>4, <3>1, Zenon
  <2>6. Present(vertex') \subseteq First(created')
    BY <1>2, <2>1, <2>4
  <2>7. vertex' \in [Objects -> {"none", "placeholder", "object"}]
    BY <1>3, <2>1
  <2> QED BY <1>3, <1>4, <2>1, <2>5, <2>6, <2>7 DEF TablesOK
<1>7. ASSUME NEW k \in Relations, RemoveRelation(k) PROVE TablesOK'
  <2>1. /\ relation' = [relation EXCEPT ![k] = None]
        /\ vertex' = vertex /\ memory' = memory /\ created' = created
    BY <1>7 DEF RemoveRelation
  <2>2. relation' \in [Relations -> Links \cup {None}]
    BY <1>3, <2>1
  <2> HIDE DEF First
  <2> QED BY <1>2, <1>3, <1>4, <2>1, <2>2 DEF TablesOK
<1>8. ASSUME NEW k \in Relations, NEW ends \in Links, PutRelation(k, ends)
      PROVE  TablesOK'
  <2>1. /\ relation' = [relation EXCEPT ![k] = ends]
        /\ vertex' = [o \in Objects |->
              IF o \in {ends.source, ends.target} /\ vertex[o] = "none"
              THEN "placeholder"
              ELSE vertex[o]]
        /\ memory' = memory /\ created' = created
    BY <1>8 DEF PutRelation
  <2>2. relation' \in [Relations -> Links \cup {None}]
    BY <1>3, <2>1
  <2>3. vertex' \in [Objects -> {"none", "placeholder", "object"}]
    BY <1>3, <2>1
  <2>4. \A o \in Objects : vertex'[o] = "object" <=> vertex[o] = "object"
    BY <1>3, <2>1
  <2>5. Present(vertex') = Present(vertex)
    BY <2>4 DEF Present
  <2> HIDE DEF First
  <2> QED BY <1>2, <1>3, <1>4, <2>1, <2>2, <2>3, <2>5 DEF TablesOK
<1>9. CASE ClearVertices
  <2>1. /\ vertex' = [o \in Objects |-> "none"]
        /\ relation' = [k \in Relations |-> None]
        /\ memory' = <<>> /\ created' = 0
    BY <1>9 DEF ClearVertices
  <2>2. /\ vertex' \in [Objects -> {"none", "placeholder", "object"}]
        /\ relation' \in [Relations -> Links \cup {None}]
        /\ memory' \in Seq(Objects)
    BY <2>1
  <2>3. created' \in 0 .. Len(Ids)
    BY <2>1, IdsFacts
  <2>4. Present(vertex') = {}
    BY <2>1 DEF Present
  <2>5. Lists(memory', {})
    BY <2>1 DEF Lists, ToSet
  <2> HIDE DEF First
  <2> QED BY <1>4, <2>2, <2>3, <2>4, <2>5 DEF TablesOK
<1> QED BY <1>5, <1>6, <1>7, <1>8, <1>9 DEF Write

-----------------------------------------------------------------------------
(* The invariant                                                           *)

\* What WalkInv says of a call, as opposed to the tables.
CallType ==
    /\ pc \in {"idle", "level", "objects", "relations", "done"}
    /\ walk \in WalkType
    /\ walk.left <= walk.depth /\ walk.frontier \subseteq walk.seen_objs
    /\ history \in [writes : 0 .. Disturbances, ever : SUBSET Edge,
                    always : SUBSET Edge, stayed : SUBSET Objects]
    /\ history.always \subseteq history.ever

\* A call whose start is missing, and one that walks.
Missing ==
    /\ walk.seen_objs = {}
    /\ pc = "done" /\ walk.start \notin history.stayed
    /\ walk.objects = <<>> /\ walk.relations = {}

Walking ==
    /\ walk.seen_objs # {}
    /\ WalkSound(walk, history.ever)
    /\ WalkComplete(walk, history.always)
    /\ pc = "level" <=> walk.left # 0 /\ walk.frontier # {}
    /\ ResultsOK

CallOK ==
    /\ CallType
    /\ HistoryOK
    /\ pc # "idle" => walk.start \in Objects /\ (Missing \/ Walking)

\* The invariant is the one of the tables and that of the call.
LEMMA WalkInvParts == WalkInv <=> TablesOK /\ CallOK
BY DEF WalkInv, TypeOK, TablesOK, CallOK, CallType, WalkType, Missing, Walking

LEMMA WalkInvParts2 == WalkInv' <=> TablesOK' /\ CallOK'
BY DEF WalkInv, TypeOK, TablesOK, CallOK, CallType, WalkType, Missing, Walking

\* Nothing is known before the first call, and after the last.
LEMMA HistoryFromType ==
    ASSUME NEW v, NEW r
    PROVE  /\ HistoryFrom(v, r) \in [writes : 0 .. Disturbances, ever : SUBSET Edge,
                                     always : SUBSET Edge, stayed : SUBSET Objects]
           /\ HistoryFrom(v, r).ever = Edges(r)
           /\ HistoryFrom(v, r).always = Edges(r)
           /\ HistoryFrom(v, r).stayed = Present(v)
<1>1. 0 \in 0 .. Disturbances
  BY QueriesAssumption
<1>2. Edges(r) \in SUBSET Edge /\ Present(v) \in SUBSET Objects
  BY DEF Edges, Present
<1> QED BY <1>1, <1>2 DEF HistoryFrom

LEMMA NoWalkType ==
    NoWalk \in WalkType /\ NoWalk.left <= NoWalk.depth
        /\ NoWalk.frontier \subseteq NoWalk.seen_objs
BY DEF NoWalk, WalkType

\* The initial state satisfies the invariant.
LEMMA InitWalkInv == Init => WalkInv
<1> SUFFICES ASSUME Init PROVE WalkInv
  OBVIOUS
<1>1. TablesOK
  <2>1. Present(vertex) = {} /\ memory = <<>>
    BY DEF Init, Present
  <2>2. MemoryOK
    BY <2>1 DEF MemoryOK, ToSet
  <2>3. created \in 0 .. Len(Ids)
    BY IdsFacts DEF Init
  <2> QED BY <2>2, <2>3 DEF Init, TablesOK
<1>2. CallOK
  <2>1. CallType
    BY NoWalkType, HistoryFromType DEF Init, CallType
  <2> QED BY <2>1 DEF Init, CallOK, HistoryOK
<1> QED BY <1>1, <1>2, WalkInvParts

\* A write between two queries of a walk leaves it sound and complete.
LEMMA DisturbCall ==
    ASSUME CallOK, Disturb
    PROVE  CallOK'
<1>1. CASE pc \in {"level", "objects", "relations"}
  <2>1. /\ pc' = pc /\ walk' = walk /\ history.writes < Disturbances
        /\ history' = [writes |-> history.writes + 1,
                       ever |-> history.ever \cup Edges(relation'),
                       always |-> history.always \cap Edges(relation'),
                       stayed |-> history.stayed \cap Present(vertex')]
    BY <1>1 DEF Disturb
  <2>2. /\ walk \in WalkType /\ history.writes \in 0 .. Disturbances
        /\ history.ever \in SUBSET Edge /\ history.always \in SUBSET Edge
        /\ history.stayed \in SUBSET Objects
        /\ history.always \subseteq history.ever
    BY DEF CallOK, CallType
  <2>3. Edges(relation') \in SUBSET Edge
    BY DEF Edges
  <2>4. history.writes + 1 \in 0 .. Disturbances
    BY <2>1, <2>2, QueriesAssumption
  <2>5. /\ history'.ever = history.ever \cup Edges(relation')
        /\ history'.always = history.always \cap Edges(relation')
        /\ history'.stayed = history.stayed \cap Present(vertex')
    BY <2>1
  <2>6. CallType'
    BY <2>1, <2>2, <2>3, <2>4 DEF CallOK, CallType
  <2>7. HistoryOK'
    BY <2>5 DEF HistoryOK
  <2>8. walk.start \in Objects /\ Walking
    BY <1>1 DEF CallOK, Missing
  <2>9. WalkSound(walk, history'.ever) /\ WalkComplete(walk, history'.always)
    <3>1. history.ever \subseteq history'.ever
          /\ history'.always \subseteq history.always
      BY <2>5
    <3>2. WalkSound(walk, history.ever) /\ WalkComplete(walk, history.always)
      BY <2>8 DEF Walking
    <3> QED BY <2>2, <3>1, <3>2, WalkMonotone
  <2>10. ResultsOK'
    BY <1>1, <2>1, <2>5, <2>8 DEF Walking, ResultsOK
  <2>11. Walking'
    BY <2>1, <2>8, <2>9, <2>10 DEF Walking
  <2> QED BY <2>1, <2>6, <2>7, <2>8, <2>11 DEF CallOK
<1>2. CASE ~(pc \in {"level", "objects", "relations"})
  <2>1. pc = "idle" /\ pc' = pc /\ walk' = walk /\ history' = history
    BY <1>2 DEF Disturb
  <2> QED BY <2>1 DEF CallOK, CallType, HistoryOK
<1> QED BY <1>1, <1>2

\* Every write disturbs the walk that is under way.
LEMMA WriteDisturbs == Write => Disturb
BY DEF Write, CreateObject, RemoveObject, RemoveRelation, PutRelation, ClearVertices

\* The tables are those of before in the steps of a call.
LEMMA TablesUnchanged ==
    ASSUME TablesOK, UNCHANGED tables
    PROVE  TablesOK'
BY DEF tables, TablesOK, MemoryOK

\* The call starts at the object asked for, if there is one.
LEMMA NeighborhoodCall ==
    ASSUME CallOK, NEW o \in Objects, NEW d \in Depths, Neighborhood(o, d)
    PROVE  CallOK'
<1> DEFINE depth == IF d < 0 THEN 0 ELSE d
           w == [NoWalk EXCEPT !.start = o, !.depth = depth]
           v == [start |-> o, depth |-> depth, left |-> depth, seen_objs |-> {o},
                 frontier |-> {o}, seen_rels |-> {}, objects |-> <<>>,
                 relations |-> {}]
<1>1. depth \in Nat
  BY QueriesAssumption
<1>2. /\ history' = HistoryFrom(vertex, relation)
      /\ vertex' = vertex /\ relation' = relation
      /\ IF o \in Present(vertex)
         THEN Walk([w EXCEPT !.seen_objs = {o}], depth, {o})
         ELSE walk' = w /\ pc' = "done"
  BY DEF Neighborhood, tables
<1> HIDE DEF depth
<1>3. /\ history' \in [writes : 0 .. Disturbances, ever : SUBSET Edge,
                       always : SUBSET Edge, stayed : SUBSET Objects]
      /\ history'.ever = Edges(relation') /\ history'.always = Edges(relation')
      /\ history'.stayed = Present(vertex')
  BY <1>2, HistoryFromType
<1>4. HistoryOK'
  BY <1>3 DEF HistoryOK
<1>5. CASE o \in Present(vertex)
  <2>1. walk' = v /\ pc' = IF depth = 0 THEN "objects" ELSE "level"
    BY <1>2, <1>5 DEF Walk, NoWalk
  <2>2. /\ walk'.start = o /\ walk'.depth = depth /\ walk'.left = depth
        /\ walk'.seen_objs = {o} /\ walk'.frontier = {o}
        /\ walk'.seen_rels = {} /\ walk'.objects = <<>> /\ walk'.relations = {}
    BY <2>1
  <2>3. v \in WalkType
    BY <1>1 DEF WalkType
  <2>4. CallType'
    BY <1>1, <1>3, <2>1, <2>2, <2>3 DEF CallType
  <2>5. walk'.depth - walk'.left = 0 /\ 0 - 1 = -1
    BY <1>1, <2>2
  <2> HIDE DEF v
  <2>6. WalkSound(walk', history'.ever)
    <3>1. Ball(history'.ever, o, 0) = {o}
      BY BallZero
    <3> QED BY <2>2, <2>5, <3>1, Zenon DEF WalkSound
  <2>7. WalkComplete(walk', history'.always)
    <3>1. Ball(history'.always, o, 0) = {o} /\ Ball(history'.always, o, -1) = {}
      BY BallZero
    <3>2. {o} \ {o} = {} /\ \A e \in history'.always : EndsOf(e) \cap {} = {}
      OBVIOUS
    <3> QED BY <2>2, <2>5, <3>1, <3>2 DEF WalkComplete
  <2>8. pc' = "level" <=> walk'.left # 0 /\ walk'.frontier # {}
    BY <2>1, <2>2
  <2>9. ResultsOK'
    BY <2>1, <2>2 DEF ResultsOK
  <2>10. Walking'
    BY <2>2, <2>6, <2>7, <2>8, <2>9 DEF Walking
  <2> QED BY <1>4, <2>2, <2>4, <2>10 DEF CallOK
<1>6. CASE o \notin Present(vertex)
  <2>1. walk' = [start |-> o, depth |-> depth, left |-> 0, seen_objs |-> {},
                 frontier |-> {}, seen_rels |-> {}, objects |-> <<>>,
                 relations |-> {}]
    BY <1>2, <1>6 DEF NoWalk
  <2>2. pc' = "done"
    BY <1>2, <1>6
  <2>3. /\ walk'.start = o /\ walk'.depth = depth /\ walk'.left = 0
        /\ walk'.seen_objs = {} /\ walk'.frontier = {}
        /\ walk'.seen_rels = {} /\ walk'.objects = <<>> /\ walk'.relations = {}
    BY <2>1
  <2>4. walk' \in WalkType
    BY <1>1, <2>1 DEF WalkType
  <2>5. CallType'
    BY <1>1, <1>3, <2>2, <2>3, <2>4 DEF CallType
  <2>6. Missing'
    BY <1>2, <1>3, <1>6, <2>2, <2>3 DEF Missing
  <2> QED BY <1>4, <2>3, <2>5, <2>6 DEF CallOK
<1> QED BY <1>5, <1>6

\* A level takes the walk one edge further.
LEMMA LevelCall ==
    ASSUME CallOK, Level
    PROVE  CallOK'
<1> DEFINE R == Incident(walk.frontier)
           next == (UNION {EndsOf(e) : e \in R}) \ walk.seen_objs
           v == [start |-> walk.start, depth |-> walk.depth,
                 left |-> walk.left - 1, seen_objs |-> walk.seen_objs \cup next,
                 frontier |-> next,
                 seen_rels |-> walk.seen_rels \cup {e.id : e \in R},
                 objects |-> walk.objects, relations |-> walk.relations]
<1>1. /\ walk \in WalkType /\ walk.left <= walk.depth
      /\ walk.frontier \subseteq walk.seen_objs
      /\ history.ever \in SUBSET Edge /\ history.always \in SUBSET Edge
  BY DEF CallOK, CallType
<1>2. pc = "level" /\ history' = history /\ relation' = relation /\ vertex' = vertex
  BY DEF Level, tables
<1>3. walk.start \in Objects /\ Walking
  BY <1>2 DEF CallOK, Missing
<1>4. walk.left - 1 \in Nat
  BY <1>1, <1>2, <1>3 DEF Walking, WalkType
<1>5. walk' = v /\ pc' = IF walk.left - 1 = 0 \/ next = {} THEN "objects" ELSE "level"
  BY <1>1 DEF Level, Walk, WalkType
<1>6. /\ R \in SUBSET Edge /\ R \in SUBSET history.ever
      /\ \A e \in R : EndsOf(e) \cap walk.frontier # {}
      /\ \A e \in history.always : EndsOf(e) \cap walk.frontier # {} => e \in R
  <2>1. /\ Edges(relation) \subseteq history.ever
        /\ history.always \subseteq Edges(relation)
    BY <1>2 DEF CallOK, HistoryOK
  <2> QED BY <1>1, <2>1 DEF Incident
<1> HIDE DEF R
<1>7. next \in SUBSET Objects /\ {e.id : e \in R} \in SUBSET Relations
  BY <1>6, EndsAreObjects DEF Edge
<1> HIDE DEF next
<1>8. /\ walk'.start = walk.start /\ walk'.depth = walk.depth
      /\ walk'.left = walk.left - 1 /\ walk'.frontier = next
      /\ walk'.seen_objs = walk.seen_objs \cup next
      /\ walk'.seen_rels = walk.seen_rels \cup {e.id : e \in R}
      /\ walk'.objects = walk.objects /\ walk'.relations = walk.relations
  BY <1>5
<1>9. v \in WalkType
  BY <1>1, <1>4, <1>7 DEF WalkType
<1>10. CallType'
  <2>1. walk.left - 1 <= walk.depth
    BY <1>1, <1>4 DEF WalkType
  <2>2. pc' \in {"idle", "level", "objects", "relations", "done"}
    BY <1>5
  <2>3. walk' \in WalkType /\ walk'.left <= walk'.depth
        /\ walk'.frontier \subseteq walk'.seen_objs
    BY <1>5, <1>8, <1>9, <2>1
  <2> QED BY <1>2, <2>2, <2>3 DEF CallOK, CallType
<1> HIDE DEF v
<1>11. IsLevel(walk, walk', R)
  BY <1>8 DEF IsLevel, next
<1>12. WalkSound(walk', history'.ever)
  <2>1. WalkSound(walk, history.ever)
    BY <1>3 DEF Walking
  <2> QED BY <1>1, <1>2, <1>6, <1>11, <2>1, LevelSound
<1>13. WalkComplete(walk', history'.always)
  <2>1. WalkComplete(walk, history.always)
    BY <1>3 DEF Walking
  <2> QED BY <1>1, <1>2, <1>6, <1>11, <2>1, LevelComplete
<1>14. pc' = "level" <=> walk'.left # 0 /\ walk'.frontier # {}
  BY <1>5, <1>8
<1>15. ResultsOK'
  <2>1. walk.relations = {} /\ pc' \in {"level", "objects"}
    BY <1>2, <1>3, <1>5 DEF Walking, ResultsOK
  <2> QED BY <1>8, <2>1 DEF ResultsOK
<1>16. Walking'
  BY <1>3, <1>8, <1>12, <1>13, <1>14, <1>15 DEF Walking
<1>17. HistoryOK'
  BY <1>2 DEF CallOK, HistoryOK
<1> QED BY <1>3, <1>8, <1>10, <1>16, <1>17 DEF CallOK

\* The results do not matter to what was seen.
LEMMA SameWalk ==
    ASSUME NEW w, NEW v, v.start = w.start, v.depth = w.depth, v.left = w.left,
           v.seen_objs = w.seen_objs, v.frontier = w.frontier,
           v.seen_rels = w.seen_rels, NEW E
    PROVE  /\ WalkSound(w, E) => WalkSound(v, E)
           /\ WalkComplete(w, E) => WalkComplete(v, E)
BY DEF WalkSound, WalkComplete

\* The objects read are those seen that there are.
LEMMA ObjectsCall ==
    ASSUME CallOK, ObjectsByLogicalIds
    PROVE  CallOK'
<1> DEFINE found == Sorted(walk.seen_objs \cap Present(vertex))
<1>1. walk \in WalkType /\ CallType
  BY DEF CallOK, CallType
<1>2. /\ pc = "objects" /\ history' = history
      /\ relation' = relation /\ vertex' = vertex
      /\ walk' = [walk EXCEPT !.objects = found]
      /\ pc' = IF walk.seen_rels = {} THEN "done" ELSE "relations"
  BY DEF ObjectsByLogicalIds, tables
<1>3. walk.start \in Objects /\ Walking
  BY <1>2 DEF CallOK, Missing
<1>4. found \in Seq(Objects) /\ ToSet(found) = walk.seen_objs \cap Present(vertex)
  <2>1. walk.seen_objs \cap Present(vertex) \in SUBSET Objects
    BY DEF Present
  <2> QED BY <2>1, SortedFacts DEF Lists
<1> HIDE DEF found
<1>5. /\ walk'.start = walk.start /\ walk'.depth = walk.depth
      /\ walk'.left = walk.left /\ walk'.frontier = walk.frontier
      /\ walk'.seen_objs = walk.seen_objs /\ walk'.seen_rels = walk.seen_rels
      /\ walk'.objects = found /\ walk'.relations = walk.relations
      /\ walk' \in WalkType
  BY <1>1, <1>2, <1>4 DEF WalkType
<1>6. CallType'
  BY <1>1, <1>2, <1>5 DEF CallType
<1>7. WalkSound(walk', history'.ever) /\ WalkComplete(walk', history'.always)
  BY <1>2, <1>3, <1>5, SameWalk DEF Walking
<1>8. history.stayed \subseteq Present(vertex)
  BY <1>2 DEF CallOK, HistoryOK
<1>9. walk.relations = {}
  BY <1>2, <1>3 DEF Walking, ResultsOK
<1>10. ResultsOK'
  BY <1>2, <1>4, <1>5, <1>8, <1>9 DEF ResultsOK
<1>11. Walking'
  BY <1>2, <1>3, <1>5, <1>7, <1>10 DEF Walking
<1>12. HistoryOK'
  BY <1>2 DEF CallOK, HistoryOK
<1> QED BY <1>3, <1>5, <1>6, <1>11, <1>12 DEF CallOK

\* The relations read are those seen, as they are now.
LEMMA RelationsCall ==
    ASSUME CallOK, RelationsByLogicalIds
    PROVE  CallOK'
<1> DEFINE rows == {e \in Edges(relation) : e.id \in walk.seen_rels}
<1>1. walk \in WalkType /\ CallType
  BY DEF CallOK, CallType
<1>2. /\ pc = "relations" /\ history' = history
      /\ relation' = relation /\ vertex' = vertex
      /\ walk' = [walk EXCEPT !.relations = rows]
      /\ pc' = "done"
  BY DEF RelationsByLogicalIds, tables
<1>3. walk.start \in Objects /\ Walking
  BY <1>2 DEF CallOK, Missing
<1>4. Edges(relation) \subseteq history.ever /\ history.always \subseteq Edges(relation)
  BY <1>2 DEF CallOK, HistoryOK
<1>5. /\ rows \in SUBSET Edge /\ rows \subseteq history.ever
      /\ \A e \in rows : e.id \in walk.seen_rels
      /\ \A e \in history.always : e.id \in walk.seen_rels => e \in rows
  BY <1>4 DEF Edges
<1> HIDE DEF rows
<1>6. /\ walk'.start = walk.start /\ walk'.depth = walk.depth
      /\ walk'.left = walk.left /\ walk'.frontier = walk.frontier
      /\ walk'.seen_objs = walk.seen_objs /\ walk'.seen_rels = walk.seen_rels
      /\ walk'.objects = walk.objects /\ walk'.relations = rows
      /\ walk' \in WalkType
  BY <1>1, <1>2, <1>5 DEF WalkType
<1>7. CallType'
  BY <1>1, <1>2, <1>6 DEF CallType
<1>8. WalkSound(walk', history'.ever) /\ WalkComplete(walk', history'.always)
  BY <1>2, <1>3, <1>6, SameWalk DEF Walking
<1>9. ResultsOK'
  BY <1>2, <1>3, <1>5, <1>6 DEF Walking, ResultsOK
<1>10. Walking'
  BY <1>2, <1>3, <1>6, <1>8, <1>9 DEF Walking
<1>11. HistoryOK'
  BY <1>2 DEF HistoryOK
<1> QED BY <1>3, <1>6, <1>7, <1>10, <1>11 DEF CallOK

\* Nothing is left of a call that has returned.
LEMMA ReturnCall ==
    ASSUME Return
    PROVE  CallOK'
<1>1. /\ pc' = "idle" /\ walk' = NoWalk
      /\ history' = HistoryFrom([o \in Objects |-> "none"],
                                [k \in Relations |-> None])
  BY DEF Return
<1>2. CallType'
  BY <1>1, NoWalkType, HistoryFromType DEF CallType
<1> QED BY <1>1, <1>2 DEF CallOK, HistoryOK

\* Every step keeps the invariant.
LEMMA NextWalkInv == WalkInv /\ [Next]_vars => WalkInv'
<1> SUFFICES ASSUME WalkInv, [Next]_vars PROVE WalkInv'
  OBVIOUS
<1>1. TablesOK /\ CallOK
  BY WalkInvParts
<1>2. CASE Write
  BY <1>1, <1>2, WriteTables, WriteDisturbs, DisturbCall, WalkInvParts2
<1>3. ASSUME NEW o \in Objects, NEW d \in Depths, Neighborhood(o, d)
      PROVE  WalkInv'
  <2>1. UNCHANGED tables
    BY <1>3 DEF Neighborhood
  <2> QED BY <1>1, <1>3, <2>1, TablesUnchanged, NeighborhoodCall, WalkInvParts2
<1>4. CASE Level
  <2>1. UNCHANGED tables
    BY <1>4 DEF Level
  <2> QED BY <1>1, <1>4, <2>1, TablesUnchanged, LevelCall, WalkInvParts2
<1>5. CASE ObjectsByLogicalIds
  <2>1. UNCHANGED tables
    BY <1>5 DEF ObjectsByLogicalIds
  <2> QED BY <1>1, <1>5, <2>1, TablesUnchanged, ObjectsCall, WalkInvParts2
<1>6. CASE RelationsByLogicalIds
  <2>1. UNCHANGED tables
    BY <1>6 DEF RelationsByLogicalIds
  <2> QED BY <1>1, <1>6, <2>1, TablesUnchanged, RelationsCall, WalkInvParts2
<1>7. CASE Return
  <2>1. UNCHANGED tables
    BY <1>7 DEF Return
  <2> QED BY <1>1, <1>7, <2>1, TablesUnchanged, ReturnCall, WalkInvParts2
<1>8. CASE UNCHANGED vars
  <2>1. TablesOK'
    BY <1>1, <1>8, TablesUnchanged DEF vars, tables
  <2>2. CallOK'
    BY <1>1, <1>8 DEF vars, CallOK, CallType, HistoryOK, Missing, Walking, ResultsOK
  <2> QED BY <2>1, <2>2, WalkInvParts2
<1> QED BY <1>2, <1>3, <1>4, <1>5, <1>6, <1>7, <1>8 DEF Next

-----------------------------------------------------------------------------
(* Theorems                                                                *)

\* Whatever other stores write between the queries of neighborhood, the walk
\* under way is sound for the edges there were at some time of it and complete
\* for those there were all the time, level by level; and the in-memory store
\* holds the objects of the vertex table in the order of its query.
THEOREM WalkInvariant == Spec => []WalkInv
<1>1. Init => WalkInv
  BY InitWalkInv
<1>2. WalkInv /\ [Next]_vars => WalkInv'
  BY NextWalkInv
<1> QED BY <1>1, <1>2, PTL DEF Spec

\* The variables of the query hooks keep their types.
THEOREM QueriesTypeCorrect == Spec => []TypeOK
<1>1. WalkInv => TypeOK
  BY DEF WalkInv
<1> QED BY <1>1, WalkInvariant, PTL

\* A finished walk has seen everything the edges that stayed lead to: all
\* levels were walked, or nothing was left to follow.
LEMMA DoneSeesAll ==
    ASSUME CallOK, Walking, pc = "done"
    PROVE  /\ Ball(history.always, walk.start, walk.depth) \subseteq walk.seen_objs
           /\ \A e \in history.always :
                 EndsOf(e) \cap Ball(history.always, walk.start, walk.depth - 1) # {}
                     => e.id \in walk.seen_rels
<1> DEFINE E == history.always
           near(n) == Ball(E, walk.start, n)
           level == walk.depth - walk.left
           done == walk.seen_objs \ walk.frontier
<1>1. /\ walk.depth \in Nat /\ walk.left \in Nat /\ E \in SUBSET Edge
      /\ walk.start \in Objects /\ walk.left <= walk.depth
  BY DEF CallOK, CallType, WalkType
<1>2. walk.left = 0 \/ walk.frontier = {}
  BY DEF Walking
<1>3. /\ near(level) \subseteq walk.seen_objs
      /\ near(level - 1) \subseteq done
      /\ \A e \in E : EndsOf(e) \cap done # {} =>
            EndsOf(e) \subseteq walk.seen_objs /\ e.id \in walk.seen_rels
  BY Zenon DEF Walking, WalkComplete
<1>4. CASE walk.left = 0
  <2>1. level = walk.depth
    BY <1>1, <1>4
  <2> HIDE DEF near, level, done, E
  <2>2. near(walk.depth) \subseteq walk.seen_objs /\ near(walk.depth - 1) \subseteq done
    BY <1>3, <2>1
  <2> QED BY <1>3, <2>2 DEF near, E
<1>5. CASE walk.frontier = {}
  <2>1. done = walk.seen_objs
    BY <1>5
  <2>2. walk.start \in walk.seen_objs
    <3>1. level \in Int /\ 0 \in Int /\ 0 <= level
      BY <1>1
    <3> HIDE DEF level
    <3>2. Ball(E, walk.start, 0) \subseteq Ball(E, walk.start, level)
      BY <3>1, BallMonotone
    <3>3. Ball(E, walk.start, 0) = {walk.start}
      BY <1>1, BallZero
    <3> QED BY <1>3, <3>2, <3>3
  <2> HIDE DEF near, level, E
  <2>3. ASSUME NEW q \in walk.seen_objs, NEW p \in Objects, Joined(E, q, p)
        PROVE  p \in walk.seen_objs
    <3>1. PICK e \in E : {q, p} = EndsOf(e)
      BY <2>3 DEF Joined
    <3> QED BY <1>3, <2>1, <2>3, <3>1
  <2>4. \A n \in Nat : Ball(E, walk.start, n) \subseteq walk.seen_objs
    BY <1>1, <2>2, <2>3, BallClosed
  <2>5. near(walk.depth) \subseteq walk.seen_objs
    BY <1>1, <2>4 DEF near
  <2>6. near(walk.depth - 1) \subseteq walk.seen_objs
    <3>1. CASE walk.depth = 0
      <4>1. walk.depth - 1 = -1
        BY <3>1
      <4>2. Ball(E, walk.start, walk.depth - 1) = {}
        BY <1>1, <4>1, BallZero
      <4> QED BY <4>2 DEF near
    <3>2. CASE walk.depth # 0
      <4>1. walk.depth - 1 \in Nat
        BY <1>1, <3>2
      <4> QED BY <2>4, <4>1 DEF near
    <3> QED BY <3>1, <3>2
  <2> HIDE DEF done
  <2> QED BY <1>3, <2>1, <2>5, <2>6 DEF near, E
<1> QED BY <1>2, <1>4, <1>5

\* What a finished walk has seen is led to by edges there were.
LEMMA DoneSeesNoMore ==
    ASSUME CallOK, Walking
    PROVE  /\ walk.seen_objs \subseteq Ball(history.ever, walk.start, walk.depth)
           /\ \A k \in walk.seen_rels : \E e \in history.ever :
                 /\ e.id = k
                 /\ EndsOf(e) \cap Ball(history.ever, walk.start, walk.depth - 1) # {}
<1> DEFINE E == history.ever
           near(n) == Ball(E, walk.start, n)
           level == walk.depth - walk.left
<1>1. /\ level \in Int /\ level - 1 \in Int /\ walk.depth \in Int
      /\ walk.depth - 1 \in Int /\ level <= walk.depth /\ level - 1 <= walk.depth - 1
  BY DEF CallOK, CallType, WalkType
<1>2. /\ walk.seen_objs \subseteq near(level)
      /\ \A k \in walk.seen_rels : \E e \in E :
            e.id = k /\ EndsOf(e) \cap near(level - 1) # {}
  BY Zenon DEF Walking, WalkSound
<1> HIDE DEF level
<1>3. near(level) \subseteq near(walk.depth) /\ near(level - 1) \subseteq near(walk.depth - 1)
  BY <1>1, BallMonotone
<1> HIDE DEF near, E
<1>4. ASSUME NEW k \in walk.seen_rels
      PROVE  \E e \in E : e.id = k /\ EndsOf(e) \cap near(walk.depth - 1) # {}
  BY <1>2, <1>3
<1>5. walk.seen_objs \subseteq near(walk.depth)
  BY <1>2, <1>3
<1> QED BY <1>4, <1>5 DEF near, E

\* A finished walk returns no more than what the edges that existed during it
\* lead to within the depth asked for, and no less than what was there
\* throughout and edges there throughout lead to (neighborhood): for every
\* number of objects, relations and writes between its queries.
THEOREM NeighborhoodAlwaysBracketed == Spec => []NeighborhoodIsBracketed
<1>1. ASSUME WalkInv PROVE NeighborhoodIsBracketed
  <2> SUFFICES ASSUME pc = "done" PROVE NeighborhoodIsBracketed
    BY DEF NeighborhoodIsBracketed
  <2> DEFINE found == ToSet(walk.objects)
             edges == walk.relations
             near(E, n) == Ball(E, walk.start, n)
             touching(E) == {e \in E : EndsOf(e) \cap near(E, walk.depth - 1) # {}}
  <2>1. CallOK
    BY <1>1, WalkInvParts
  <2>2. CASE Missing
    <3>1. found = {} /\ edges = {} /\ walk.start \notin history.stayed
      BY <2>2 DEF Missing, ToSet
    <3> QED BY <2>2, <3>1 DEF NeighborhoodIsBracketed, Missing
  <2>3. CASE Walking
    <3>1. /\ walk.seen_objs # {}
          /\ found \subseteq walk.seen_objs
          /\ walk.seen_objs \cap history.stayed \subseteq found
          /\ edges \subseteq history.ever
          /\ \A e \in edges : e.id \in walk.seen_rels
          /\ \A e \in history.always : e.id \in walk.seen_rels => e \in edges
      BY <2>3 DEF Walking, ResultsOK
    <3>2. /\ near(history.always, walk.depth) \subseteq walk.seen_objs
          /\ \A e \in touching(history.always) : e.id \in walk.seen_rels
      BY <2>1, <2>3, DoneSeesAll
    <3>3. /\ walk.seen_objs \subseteq near(history.ever, walk.depth)
          /\ \A k \in walk.seen_rels : \E e \in touching(history.ever) : e.id = k
      BY <2>1, <2>3, DoneSeesNoMore
    <3>4. touching(history.always) \subseteq edges
      BY <3>1, <3>2
    <3> HIDE DEF found, edges, near, touching
    <3>5. /\ found \subseteq near(history.ever, walk.depth)
          /\ near(history.always, walk.depth) \cap history.stayed \subseteq found
      BY <3>1, <3>2, <3>3
    <3>6. {e.id : e \in edges} \subseteq {e.id : e \in touching(history.ever)}
      BY <3>1, <3>3
    <3> QED BY <3>1, <3>4, <3>5, <3>6
            DEF NeighborhoodIsBracketed, found, edges, near, touching
  <2> QED BY <2>1, <2>2, <2>3 DEF CallOK
<1> QED BY <1>1, WalkInvariant, PTL

-----------------------------------------------------------------------------
(* Object queries                                                          *)

\* F is the recursive function of Filter, up to m.
IsFilter(F, s, T, m) ==
    F = [n \in 0 .. m |->
            IF n = 0 THEN <<>>
            ELSE IF s[n] \in T THEN Append(F[n - 1], s[n]) ELSE F[n - 1]]

\* There is one.
LEMMA FilterExists ==
    ASSUME NEW s, NEW T
    PROVE  \A m \in Nat : \E F : IsFilter(F, s, T, m)
<1> DEFINE N == {m \in Nat : \E F : IsFilter(F, s, T, m)}
           val(F, n) == IF n = 0 THEN <<>>
                        ELSE IF s[n] \in T THEN Append(F[n - 1], s[n]) ELSE F[n - 1]
<1>1. 0 \in N
  <2> DEFINE F == [n \in 0 .. 0 |-> <<>>]
  <2>1. F = [n \in 0 .. 0 |-> val(F, n)]
    OBVIOUS
  <2> HIDE DEF F
  <2>2. IsFilter(F, s, T, 0)
    BY <2>1 DEF IsFilter
  <2> QED BY <2>2
<1>2. ASSUME NEW m \in Nat, m \in N
      PROVE  m + 1 \in N
  <2>1. PICK F : IsFilter(F, s, T, m)
    BY <1>2
  <2> DEFINE G == [n \in 0 .. m + 1 |-> IF n <= m THEN F[n] ELSE val(F, n)]
  <2>2. \A n \in 0 .. m : F[n] = val(F, n)
    BY <2>1 DEF IsFilter
  <2>3. ASSUME NEW n \in 0 .. m + 1 PROVE G[n] = val(G, n)
    <3>1. G[n] = val(F, n)
      <4> HIDE DEF val
      <4> QED BY <2>2
    <3>2. n # 0 => G[n - 1] = F[n - 1]
      OBVIOUS
    <3> HIDE DEF G
    <3> QED BY <3>1, <3>2
  <2>4. G = [n \in 0 .. m + 1 |-> val(G, n)]
    <3> HIDE DEF val
    <3>1. G = [n \in 0 .. m + 1 |-> G[n]]
      OBVIOUS
    <3> HIDE DEF G
    <3> QED BY <2>3, <3>1
  <2>5. IsFilter(G, s, T, m + 1)
    <3> HIDE DEF G
    <3> QED BY <2>4, Zenon DEF IsFilter
  <2> HIDE DEF G
  <2> QED BY <2>5
<1>3. Nat \subseteq N
  <2> HIDE DEF N
  <2> QED BY <1>1, <1>2, NatSetInduction
<1> QED BY <1>3

\* Filtering a list gives a list of what the filter lets through.
LEMMA FilterLists ==
    ASSUME NEW s \in Seq(Objects), NEW S \in SUBSET Objects, NEW T, Lists(s, S)
    PROVE  Filter(s, T) \in Seq(Objects) /\ Lists(Filter(s, T), S \cap T)
<1> DEFINE F == CHOOSE G : IsFilter(G, s, T, Len(s))
           First(n) == {s[i] : i \in 1 .. n}
           N == {n \in Nat : n <= Len(s) =>
                    F[n] \in Seq(Objects) /\ Lists(F[n], First(n) \cap T)}
<1>1. /\ Len(s) \in Nat /\ DOMAIN s = 1 .. Len(s)
      /\ \A i \in 1 .. Len(s) : s[i] \in Objects
  OBVIOUS
<1>2. IsFilter(F, s, T, Len(s))
  BY <1>1, FilterExists
<1>3. Filter(s, T) = F[Len(s)]
  BY DEF Filter, IsFilter
<1> HIDE DEF F
<1>4. \A n \in 0 .. Len(s) :
         F[n] = IF n = 0 THEN <<>>
                ELSE IF s[n] \in T THEN Append(F[n - 1], s[n]) ELSE F[n - 1]
  BY <1>2 DEF IsFilter
<1>5. 0 \in N
  <2>1. F[0] = <<>>
    BY <1>1, <1>4
  <2>2. First(0) \cap T = {}
    OBVIOUS
  <2>3. <<>> \in Seq(Objects) /\ Lists(<<>>, {})
    BY DEF Lists, ToSet
  <2> QED BY <2>1, <2>2, <2>3
<1>6. ASSUME NEW n \in Nat, n \in N
      PROVE  n + 1 \in N
  <2> SUFFICES ASSUME n + 1 <= Len(s)
               PROVE  F[n + 1] \in Seq(Objects)
                      /\ Lists(F[n + 1], First(n + 1) \cap T)
    OBVIOUS
  <2>1. F[n] \in Seq(Objects) /\ Lists(F[n], First(n) \cap T)
    BY <1>1, <1>6
  <2>2. n + 1 \in 0 .. Len(s) /\ n + 1 \in 1 .. Len(s) /\ n + 1 # 0 /\ (n + 1) - 1 = n
    BY <1>1
  <2>3. F[n + 1] = IF s[n + 1] \in T THEN Append(F[(n + 1) - 1], s[n + 1])
                   ELSE F[(n + 1) - 1]
    BY <1>4, <2>2, Zenon
  <2>4. First(n + 1) = First(n) \cup {s[n + 1]}
    <3>1. \A i \in 1 .. n + 1 : i \in 1 .. n \/ i = n + 1
      OBVIOUS
    <3>2. 1 .. n \subseteq 1 .. n + 1 /\ n + 1 \in 1 .. n + 1
      OBVIOUS
    <3> QED BY <3>1, <3>2, Zenon
  <2>5. CASE s[n + 1] \in T
    <3>1. ASSUME NEW p \in First(n) \cap T PROVE Before(p, s[n + 1])
      <4>1. PICK i \in 1 .. n : p = s[i]
        OBVIOUS
      <4>2. i \in DOMAIN s /\ n + 1 \in DOMAIN s /\ i < n + 1
        BY <1>1, <2>2
      <4> QED BY <4>1, <4>2 DEF Lists
    <3>2. First(n) \cap T \in SUBSET Objects /\ s[n + 1] \in Objects
      BY <1>1, <2>2
    <3>3. First(n + 1) \cap T = (First(n) \cap T) \cup {s[n + 1]}
      <4> HIDE DEF First
      <4> QED BY <2>4, <2>5
    <3> HIDE DEF First
    <3>4. /\ Append(F[n], s[n + 1]) \in Seq(Objects)
          /\ Lists(Append(F[n], s[n + 1]), (First(n) \cap T) \cup {s[n + 1]})
      BY <2>1, <3>1, <3>2, AppendLists
    <3>5. F[n + 1] = Append(F[n], s[n + 1])
      BY <2>2, <2>3, <2>5, Zenon
    <3> QED BY <3>3, <3>4, <3>5, Zenon
  <2>6. CASE s[n + 1] \notin T
    <3> HIDE DEF First
    <3>1. First(n + 1) \cap T = First(n) \cap T
      BY <2>4, <2>6
    <3>2. F[n + 1] = F[n]
      BY <2>2, <2>3, <2>6, Zenon
    <3> QED BY <2>1, <3>1, <3>2, Zenon
  <2> QED BY <2>5, <2>6
<1>7. Nat \subseteq N
  <2> HIDE DEF N
  <2> QED BY <1>5, <1>6, NatSetInduction
<1>8. F[Len(s)] \in Seq(Objects) /\ Lists(F[Len(s)], First(Len(s)) \cap T)
  <2>1. Len(s) \in N
    <3> HIDE DEF N
    <3> QED BY <1>1, <1>7
  <2>2. Len(s) <= Len(s)
    BY <1>1
  <2> HIDE DEF First
  <2> QED BY <2>1, <2>2
<1>9. First(Len(s)) = S
  BY <1>1 DEF Lists, ToSet
<1> QED BY <1>3, <1>8, <1>9

\* Of two objects, only one comes before the other.
LEMMA BeforeAsymmetric ==
    \A o, p \in Objects : ~(Before(o, p) /\ Before(p, o))
BY IdsFacts DEF Before

\* A list of a set has the beginning of every other list of it.
LEMMA ListsAgree ==
    ASSUME NEW S \in SUBSET Objects,
           NEW s \in Seq(Objects), Lists(s, S),
           NEW t \in Seq(Objects), Lists(t, S)
    PROVE  Len(s) <= Len(t) /\ \A i \in 1 .. Len(s) : s[i] = t[i]
<1> DEFINE N == {n \in Nat : n <= Len(s) =>
                    n <= Len(t) /\ \A i \in 1 .. n : s[i] = t[i]}
<1>1. /\ Len(s) \in Nat /\ DOMAIN s = 1 .. Len(s)
      /\ Len(t) \in Nat /\ DOMAIN t = 1 .. Len(t)
  OBVIOUS
<1>2. /\ \A i \in 1 .. Len(s) : s[i] \in S /\ \E k \in 1 .. Len(t) : t[k] = s[i]
      /\ \A i \in 1 .. Len(t) : t[i] \in S /\ \E k \in 1 .. Len(s) : s[k] = t[i]
  BY <1>1 DEF Lists, ToSet
<1>3. /\ \A i, j \in 1 .. Len(s) : i < j => Before(s[i], s[j])
      /\ \A i, j \in 1 .. Len(t) : i < j => Before(t[i], t[j])
  BY <1>1 DEF Lists
<1>4. 0 \in N
  BY <1>1
<1>5. ASSUME NEW n \in Nat, n \in N
      PROVE  n + 1 \in N
  <2> SUFFICES ASSUME n + 1 <= Len(s)
               PROVE  n + 1 <= Len(t) /\ \A i \in 1 .. n + 1 : s[i] = t[i]
    OBVIOUS
  <2>1. n <= Len(t) /\ \A i \in 1 .. n : s[i] = t[i]
    BY <1>1, <1>5
  <2>2. n + 1 \in 1 .. Len(s) /\ s[n + 1] \in S
    BY <1>1, <1>2
  <2>3. PICK k \in 1 .. Len(t) : t[k] = s[n + 1]
    BY <1>2, <2>2
  <2>4. k >= n + 1
    <3> SUFFICES ASSUME k \in 1 .. n PROVE FALSE
      BY <1>1
    <3>1. k \in 1 .. Len(s) /\ k < n + 1 /\ s[k] = s[n + 1]
      BY <1>1, <2>1, <2>2, <2>3
    <3>2. Before(s[n + 1], s[n + 1])
      BY <1>3, <2>2, <3>1
    <3> QED BY <2>2, <3>2, BeforeIrreflexive
  <2>5. n + 1 \in 1 .. Len(t) /\ t[n + 1] \in S
    <3>1. n + 1 \in 1 .. Len(t)
      BY <1>1, <2>4
    <3> QED BY <1>2, <3>1
  <2>6. PICK m \in 1 .. Len(s) : s[m] = t[n + 1]
    BY <1>2, <2>5
  <2>7. m >= n + 1
    <3> SUFFICES ASSUME m \in 1 .. n PROVE FALSE
      BY <1>1
    <3>1. m \in 1 .. Len(t) /\ m < n + 1 /\ t[m] = t[n + 1]
      BY <1>1, <2>1, <2>5, <2>6
    <3>2. Before(t[n + 1], t[n + 1])
      BY <1>3, <2>5, <3>1
    <3> QED BY <2>5, <3>2, BeforeIrreflexive
  <2>8. s[n + 1] = t[n + 1]
    <3> SUFFICES ASSUME k # n + 1, m # n + 1 PROVE FALSE
      BY <2>3, <2>6
    <3>1. n + 1 < k /\ n + 1 < m
      BY <1>1, <2>4, <2>7
    <3>2. Before(s[n + 1], t[n + 1])
      BY <1>3, <2>2, <2>6, <3>1
    <3>3. Before(t[n + 1], s[n + 1])
      BY <1>3, <2>3, <2>5, <3>1
    <3> QED BY <2>2, <2>5, <3>2, <3>3, BeforeAsymmetric
  <2>9. ASSUME NEW i \in 1 .. n + 1 PROVE s[i] = t[i]
    BY <2>1, <2>8
  <2> QED BY <1>1, <2>5, <2>9
<1>6. Nat \subseteq N
  <2> HIDE DEF N
  <2> QED BY <1>4, <1>5, NatSetInduction
<1>7. Len(s) \in N /\ Len(s) <= Len(s)
  BY <1>1, <1>6
<1> QED BY <1>7

\* A set has one list.
LEMMA ListsUnique ==
    ASSUME NEW S \in SUBSET Objects,
           NEW s \in Seq(Objects), Lists(s, S),
           NEW t \in Seq(Objects), Lists(t, S)
    PROVE  s = t
<1>1. Len(s) <= Len(t) /\ Len(t) <= Len(s)
  BY ListsAgree
<1>2. Len(s) = Len(t)
  BY <1>1
<1>3. \A i \in 1 .. Len(s) : s[i] = t[i]
  BY ListsAgree
<1> QED BY <1>2, <1>3

\* The beginning of a list is a list.
LEMMA UptoLists ==
    ASSUME NEW s \in Seq(Objects), NEW S \in SUBSET Objects, Lists(s, S),
           NEW n \in Nat \cup {None}
    PROVE  /\ Upto(n, s) \in Seq(Objects)
           /\ ToSet(Upto(n, s)) \in SUBSET Objects
           /\ Lists(Upto(n, s), ToSet(Upto(n, s)))
           /\ Upto(n, Upto(n, s)) = Upto(n, s)
<1>1. CASE n = None
  <2>1. Upto(n, s) = s
    BY <1>1 DEF Upto
  <2>2. ToSet(s) = S
    BY DEF Lists
  <2> QED BY <2>1, <2>2
<1>2. CASE n # None
  <2> DEFINE m == IF n < Len(s) THEN n ELSE Len(s)
             t == SubSeq(s, 1, m)
  <2>1. n \in Nat /\ Len(s) \in Nat
    BY <1>2
  <2>2. m \in Int /\ m \in 0 .. Len(s) /\ m <= n
    BY <2>1
  <2>3. Upto(n, s) = t
    BY <1>2 DEF Upto
  <2> HIDE DEF m
  <2>4. t \in Seq(Objects) /\ Len(t) = m /\ \A i \in 1 .. m : t[i] = s[i]
    BY <2>1, <2>2
  <2> HIDE DEF t
  <2>5. DOMAIN t = 1 .. m /\ DOMAIN s = 1 .. Len(s) /\ 1 .. m \subseteq 1 .. Len(s)
    BY <2>1, <2>2, <2>4
  <2>6. ToSet(t) \in SUBSET Objects
    BY <2>4, <2>5 DEF ToSet
  <2>7. ASSUME NEW i \in DOMAIN t, NEW j \in DOMAIN t, i < j
        PROVE  Before(t[i], t[j])
    <3>1. i \in DOMAIN s /\ j \in DOMAIN s /\ t[i] = s[i] /\ t[j] = s[j]
      BY <2>4, <2>5
    <3> QED BY <2>7, <3>1 DEF Lists
  <2>8. Lists(t, ToSet(t))
    BY <2>7 DEF Lists
  <2>9. Upto(n, t) = t
    <3>1. (IF n < Len(t) THEN n ELSE Len(t)) = m
      BY <2>1, <2>2, <2>4
    <3>2. Upto(n, t) = SubSeq(t, 1, m)
      BY <1>2, <3>1 DEF Upto
    <3>3. SubSeq(t, 1, Len(t)) = t
      BY <2>4, SubSeqFull
    <3> QED BY <2>4, <3>2, <3>3
  <2> QED BY <2>3, <2>4, <2>6, <2>8, <2>9
<1> QED BY <1>1, <1>2

\* What the hooks return for a plan, when they have not answered it already.
LEMMA QueryObjectsFacts ==
    ASSUME NEW plan \in Plan, ~(plan.mode = "exists" /\ plan.where = None)
    PROVE  LET r == QueryObjects(plan)
               limit == IF plan.where = None THEN plan.limit ELSE None
           IN  /\ r.objects = Upto(limit, Sorted(OfType(plan.type)))
               /\ r.residual = plan.where /\ r.exists = None
BY DEF QueryObjects, SelectObjects

\* The objects a plan asks for, and the list of them in memory.
LEMMA ScanLists ==
    ASSUME TablesOK, NEW T \in SUBSET Objects
    PROVE  /\ Filter(memory, T) \in Seq(Objects)
           /\ Lists(Filter(memory, T), Present(vertex) \cap T)
<1>1. Lists(memory, Present(vertex)) /\ memory \in Seq(Objects)
  BY MemoryLists DEF TablesOK
<1>2. Present(vertex) \in SUBSET Objects
  BY DEF Present
<1> QED BY <1>1, <1>2, FilterLists

\* An object query answered by the database and finished by the framework is
\* the one the in-memory store answers by scanning, for every plan and however
\* many objects there are and were (query_objects, _select_objects).
THEOREM QueriesAlwaysMatchMemory == Spec => []QueriesMatchMemory
<1>1. ASSUME WalkInv, NEW plan \in Plan
      PROVE  LET wanted == {o \in Objects :
                              /\ plan.type = None \/ o.type = plan.type
                              /\ plan.where = None \/ o \in plan.where}
                 scan == Filter(memory, wanted)
                 first == IF plan.limit = None \/ plan.limit > Len(scan)
                          THEN scan ELSE SubSeq(scan, 1, plan.limit)
             IN  Finish(plan, QueryObjects(plan)) =
                     IF plan.mode = "objects" THEN first ELSE scan # <<>>
  <2> DEFINE wanted == {o \in Objects :
                          /\ plan.type = None \/ o.type = plan.type
                          /\ plan.where = None \/ o \in plan.where}
             scan == Filter(memory, wanted)
             first == IF plan.limit = None \/ plan.limit > Len(scan)
                      THEN scan ELSE SubSeq(scan, 1, plan.limit)
             result == QueryObjects(plan)
             fit == {o \in Objects : result.residual = None \/ o \in result.residual}
             of == OfType(plan.type)
             asked == Present(vertex) \cap wanted
             limit == plan.limit
  <2>1. /\ limit \in Nat \cup {None}
        /\ plan.mode \in {"objects", "exists"}
        /\ TablesOK
    BY <1>1, WalkInvParts, IdsFacts DEF Plan
  <2>2. /\ asked \in SUBSET Objects /\ of \in SUBSET Objects
        /\ wanted \in SUBSET Objects
    BY DEF OfType, Present
  <2>3. scan \in Seq(Objects) /\ Lists(scan, asked)
    BY <2>1, <2>2, ScanLists
  <2>4. plan.where = None => asked = of
    BY DEF OfType, Present
  <2>5. plan.where # None => asked = of \cap plan.where
    BY DEF OfType, Present
  <2> HIDE DEF wanted, scan, asked, of, limit, result
  <2>6. first = Upto(limit, scan)
    <3>1. Len(scan) \in Nat /\ SubSeq(scan, 1, Len(scan)) = scan
      BY <2>3, SubSeqFull
    <3>2. CASE limit = None
      BY <3>2 DEF Upto, limit
    <3>3. CASE limit # None /\ limit > Len(scan)
      <4>1. ~(limit < Len(scan)) /\ limit \in Nat
        BY <2>1, <3>1, <3>3
      <4>2. Upto(limit, scan) = SubSeq(scan, 1, Len(scan))
        BY <3>3, <4>1, Zenon DEF Upto
      <4> QED BY <3>1, <3>3, <4>2, Zenon DEF limit
    <3>4. CASE limit # None /\ ~(limit > Len(scan))
      <4>1. (IF limit < Len(scan) THEN limit ELSE Len(scan)) = limit
        <5>1. limit \in Nat /\ Len(scan) \in Nat
          BY <2>1, <3>1, <3>4
        <5> QED BY <3>4, <5>1
      <4>2. Upto(limit, scan) = SubSeq(scan, 1, limit)
        BY <3>4, <4>1, Zenon DEF Upto
      <4> QED BY <3>4, <4>2, Zenon DEF limit
    <3> QED BY <3>2, <3>3, <3>4
  <2>7. Upto(limit, Upto(limit, scan)) = Upto(limit, scan)
        /\ Upto(limit, scan) \in Seq(Objects)
        /\ ToSet(Upto(limit, scan)) \in SUBSET Objects
        /\ Lists(Upto(limit, scan), ToSet(Upto(limit, scan)))
    BY <2>1, <2>2, <2>3, UptoLists
  <2> HIDE DEF first
  <2>8. scan # <<>> <=> asked # {}
    <3>1. scan # <<>> => 1 \in DOMAIN scan
      BY <2>3, EmptySeq
    <3>2. ToSet(scan) = asked
      BY <2>3 DEF Lists
    <3>3. scan # <<>> => asked # {}
      BY <3>1, <3>2 DEF ToSet
    <3>4. scan = <<>> => asked = {}
      BY <3>2 DEF ToSet
    <3> QED BY <3>3, <3>4
  <2>9. Sorted(of) \in Seq(Objects) /\ Lists(Sorted(of), of)
    BY <2>2, SortedFacts
  <2>10. CASE plan.mode = "exists" /\ plan.where = None
    <3>1. result.exists = (of # {})
      BY <2>10 DEF result, QueryObjects, ObjectExists, of
    <3>2. result.exists # None
      BY <3>1, QueriesAssumption
    <3>3. Finish(plan, result) = result.exists
      BY <2>10, <3>2 DEF Finish
    <3>4. result.exists = (scan # <<>>)
      BY <2>4, <2>8, <2>10, <3>1
    <3> QED BY <2>10, <3>3, <3>4 DEF result, scan, wanted
  <2>11. CASE ~(plan.mode = "exists" /\ plan.where = None)
    <3> DEFINE found == Filter(result.objects, fit)
    <3>1. /\ result.objects =
                Upto(IF plan.where = None THEN limit ELSE None, Sorted(of))
          /\ result.residual = plan.where /\ result.exists = None
      BY <2>11, QueryObjectsFacts DEF result, limit, of
    <3>2. /\ Upto(limit, found) = Upto(limit, scan)
          /\ plan.where # None => found = scan
      <4>1. CASE plan.where = None
        <5>1. Sorted(of) = scan
          BY <2>2, <2>3, <2>4, <2>9, <4>1, ListsUnique
        <5>2. result.objects = Upto(limit, scan)
          BY <3>1, <4>1, <5>1
        <5>3. fit = Objects
          BY <3>1, <4>1
        <5> DEFINE T == ToSet(Upto(limit, scan))
        <5>4. T \cap Objects = T
          BY <2>7
        <5>5. Filter(Upto(limit, scan), Objects) = Upto(limit, scan)
          <6> DEFINE u == Upto(limit, scan)
          <6> HIDE DEF u, T
          <6>1. u \in Seq(Objects) /\ T \in SUBSET Objects /\ Lists(u, T)
            BY <2>7 DEF u, T
          <6>2. Filter(u, Objects) \in Seq(Objects) /\ Lists(Filter(u, Objects), T)
            BY <5>4, <6>1, FilterLists
          <6>3. Filter(u, Objects) = u
            BY <6>1, <6>2, ListsUnique
          <6> QED BY <6>3 DEF u
        <5>6. found = Upto(limit, scan)
          <6> HIDE DEF fit
          <6> QED BY <5>2, <5>3, <5>5
        <5> HIDE DEF found
        <5> QED BY <2>7, <4>1, <5>6
      <4>2. CASE plan.where # None
        <5>1. result.objects = Sorted(of)
          BY <3>1, <4>2 DEF Upto
        <5>2. of \cap fit = asked
          BY <2>2, <2>5, <3>1, <4>2
        <5> HIDE DEF fit
        <5>3. Filter(Sorted(of), fit) \in Seq(Objects)
              /\ Lists(Filter(Sorted(of), fit), of \cap fit)
          BY <2>2, <2>9, FilterLists
        <5>4. Filter(Sorted(of), fit) = scan
          BY <2>2, <2>3, <5>2, <5>3, ListsUnique
        <5>5. found = scan
          BY <5>1, <5>4
        <5> HIDE DEF found
        <5> QED BY <5>5
      <4> QED BY <4>1, <4>2
    <3>3. Finish(plan, result) =
             IF plan.mode = "objects" THEN Upto(limit, found) ELSE found # <<>>
      BY <3>1 DEF Finish, limit
    <3> HIDE DEF found
    <3>4. Finish(plan, result) =
             IF plan.mode = "objects" THEN first ELSE scan # <<>>
      BY <2>1, <2>6, <2>11, <3>2, <3>3
    <3> QED BY <3>4 DEF result, first, scan, wanted
  <2> QED BY <2>10, <2>11
<1>2. ASSUME WalkInv PROVE QueriesMatchMemory
  BY <1>1, <1>2, Zenon DEF QueriesMatchMemory
<1> QED BY <1>2, WalkInvariant, PTL
=============================================================================
