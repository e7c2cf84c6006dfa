---------------------------- MODULE ReplayProofs ----------------------------
(***************************************************************************)
(* Proofs about module Replay, for a run with one writer: the types, the   *)
(* vertex records that every relation keeps, and that a ready projection   *)
(* without a failed or bypassed write is the replay of its log.            *)
(*                                                                         *)
(* WritesOf and GraphOf are recursive functions; what they compute is      *)
(* proved by induction over sets of numbers (module SetInduction).         *)
(***************************************************************************)
EXTENDS Replay, SequenceTheorems, SetInduction

-----------------------------------------------------------------------------
(* The recursive functions                                                 *)

\* f is the function that WritesOf defines, on the first m events.
IsWrites(f, es, m) ==
    f = [n \in 0 .. m |-> IF n = 0 THEN <<>> ELSE f[n - 1] \o es[n].writes]

\* There is such a function for each length.
LEMMA WritesExist ==
    ASSUME NEW es, NEW m \in Nat
    PROVE  \E f : IsWrites(f, es, m)
<1> DEFINE S == {k \in Nat : \E f : IsWrites(f, es, k)}
<1>1. 0 \in S
  <2>1. IsWrites([n \in 0 .. 0 |-> <<>>], es, 0)
    BY DEF IsWrites
  <2> QED BY <2>1
<1>2. ASSUME NEW k \in Nat, k \in S
      PROVE  k + 1 \in S
  <2>1. PICK f : IsWrites(f, es, k)
    BY <1>2
  <2> DEFINE g == [n \in 0 .. k + 1 |->
                      IF n <= k THEN f[n] ELSE f[k] \o es[k + 1].writes]
  <2>2. IsWrites(g, es, k + 1)
    <3>1. \A n \in 0 .. k + 1 :
             g[n] = IF n = 0 THEN <<>> ELSE g[n - 1] \o es[n].writes
      <4> SUFFICES ASSUME NEW n \in 0 .. k + 1
                   PROVE  g[n] = IF n = 0 THEN <<>>
                                 ELSE g[n - 1] \o es[n].writes
        OBVIOUS
      <4>1. CASE n = k + 1
        BY <4>1
      <4>2. CASE n <= k
        <5>1. f[n] = IF n = 0 THEN <<>> ELSE f[n - 1] \o es[n].writes
          BY <2>1, <4>2 DEF IsWrites
        <5> QED BY <5>1, <4>2
      <4> QED BY <4>1, <4>2
    <3> HIDE DEF g
    <3>2. g = [n \in 0 .. k + 1 |-> g[n]]
      BY DEF g
    <3> QED BY <3>1, <3>2 DEF IsWrites
  <2> QED BY <2>2
<1>3. Nat \subseteq S
  <2> HIDE DEF S
  <2> QED BY <1>1, <1>2, NatSetInduction
<1> QED BY <1>3

\* Its equations.
LEMMA WritesSteps ==
    ASSUME NEW es, NEW m \in Nat, NEW f, IsWrites(f, es, m)
    PROVE  /\ f[0] = <<>>
           /\ \A n \in 1 .. m : f[n] = f[n - 1] \o es[n].writes
<1>1. \A n \in 0 .. m :
         f[n] = IF n = 0 THEN <<>> ELSE f[n - 1] \o es[n].writes
  BY DEF IsWrites
<1>2. 0 \in 0 .. m
  OBVIOUS
<1>3. ASSUME NEW n \in 1 .. m
      PROVE  f[n] = f[n - 1] \o es[n].writes
  <2>1. n \in 0 .. m /\ n # 0
    OBVIOUS
  <2> QED BY <1>1, <2>1, Zenon
<1>4. f[0] = <<>>
  BY <1>1, <1>2, Zenon
<1> QED BY <1>3, <1>4, Zenon

\* Two such functions agree where both are defined.
LEMMA WritesAgree ==
    ASSUME NEW es, NEW m \in Nat, NEW k \in Nat, m <= k,
           NEW f, IsWrites(f, es, m), NEW g, IsWrites(g, es, k)
    PROVE  \A n \in 0 .. m : f[n] = g[n]
<1> DEFINE S == {n \in Nat : n <= m => f[n] = g[n]}
<1>1. 0 \in S
  <2>1. f[0] = <<>>
    BY WritesSteps, Zenon
  <2>2. g[0] = <<>>
    BY WritesSteps, Zenon
  <2> QED BY <2>1, <2>2
<1>2. ASSUME NEW n \in Nat, n \in S
      PROVE  n + 1 \in S
  <2>1. SUFFICES ASSUME n + 1 <= m PROVE f[n + 1] = g[n + 1]
    OBVIOUS
  <2>2. f[n] = g[n]
    BY <1>2, <2>1
  <2>3. n + 1 \in 1 .. m /\ n + 1 \in 1 .. k /\ (n + 1) - 1 = n
    BY <2>1
  <2>4. f[n + 1] = f[(n + 1) - 1] \o es[n + 1].writes
    BY <2>3, WritesSteps, Zenon
  <2>5. g[n + 1] = g[(n + 1) - 1] \o es[n + 1].writes
    BY <2>3, WritesSteps, Zenon
  <2> QED BY <2>2, <2>3, <2>4, <2>5, Zenon
<1>3. Nat \subseteq S
  <2> HIDE DEF S
  <2> QED BY <1>1, <1>2, NatSetInduction
<1> QED BY <1>3

\* WritesOf is the last value of any such function.
LEMMA WritesOfValue ==
    ASSUME NEW es, Len(es) \in Nat, NEW f, IsWrites(f, es, Len(es))
    PROVE  WritesOf(es) = f[Len(es)]
<1> DEFINE V == CHOOSE W : IsWrites(W, es, Len(es))
<1>1. IsWrites(V, es, Len(es))
  OBVIOUS
<1>2. WritesOf(es) = V[Len(es)]
  BY DEF WritesOf, IsWrites
<1> HIDE DEF V
<1>3. V[Len(es)] = f[Len(es)]
  BY <1>1, WritesAgree
<1> QED BY <1>2, <1>3

\* A log without events has no writes.
LEMMA WritesOfEmpty == WritesOf(<<>>) = <<>>
<1>1. Len(<<>>) = 0
  OBVIOUS
<1>2. PICK f : IsWrites(f, <<>>, 0)
  BY WritesExist
<1>3. f[0] = <<>>
  BY <1>2, WritesSteps, Zenon
<1>4. WritesOf(<<>>) = f[0]
  BY <1>1, <1>2, WritesOfValue
<1> QED BY <1>3, <1>4

\* The writes of a longer log are those of the log and those of its last event.
LEMMA WritesOfAppend ==
    ASSUME NEW es \in Seq(Event), NEW e \in Event
    PROVE  WritesOf(Append(es, e)) = WritesOf(es) \o e.writes
<1> DEFINE m == Len(es)
           as == Append(es, e)
<1>1. /\ m \in Nat
      /\ Len(as) = m + 1
      /\ as[m + 1] = e
      /\ \A n \in 1 .. m : as[n] = es[n]
  OBVIOUS
<1>2. PICK f : IsWrites(f, as, m + 1)
  BY <1>1, WritesExist
<1>steps. /\ f[0] = <<>>
      /\ \A n \in 1 .. m + 1 : f[n] = f[n - 1] \o as[n].writes
  <2> HIDE DEF as
  <2>1. m + 1 \in Nat
    BY <1>1
  <2>2. f[0] = <<>>
    BY <2>1, <1>2, WritesSteps, Zenon
  <2>3. \A n \in 1 .. m + 1 : f[n] = f[n - 1] \o as[n].writes
    BY <2>1, <1>2, WritesSteps, Zenon
  <2> QED BY <2>2, <2>3, Zenon
<1> DEFINE g == [n \in 0 .. m |-> f[n]]
<1>3. IsWrites(g, es, m)
  <2>1. \A n \in 0 .. m :
           g[n] = IF n = 0 THEN <<>> ELSE g[n - 1] \o es[n].writes
    <3> SUFFICES ASSUME NEW n \in 0 .. m
                 PROVE  g[n] = IF n = 0 THEN <<>>
                               ELSE g[n - 1] \o es[n].writes
      OBVIOUS
    <3>1. CASE n = 0
      <4>1. f[0] = <<>>
        BY <1>steps, Zenon
      <4> QED BY <3>1, <4>1
    <3>2. CASE n # 0
      <4>1. n \in 1 .. m /\ n \in 1 .. m + 1 /\ n - 1 \in 0 .. m
        BY <1>1, <3>2
      <4>2. f[n] = f[n - 1] \o as[n].writes
        BY <1>steps, <4>1, Zenon
      <4>3. f[n] = f[n - 1] \o es[n].writes
        BY <1>1, <4>1, <4>2, Zenon
      <4> QED BY <3>2, <4>1, <4>3
    <3> QED BY <3>1, <3>2
  <2> HIDE DEF g
  <2>2. g = [n \in 0 .. m |-> g[n]]
    BY DEF g
  <2> QED BY <2>1, <2>2 DEF IsWrites
<1>4. WritesOf(es) = f[m]
  <2>1. WritesOf(es) = g[m]
    <3> HIDE DEF g
    <3> QED BY <1>1, <1>3, WritesOfValue
  <2> QED BY <1>1, <2>1
<1>5. WritesOf(as) = f[m + 1]
  <2> HIDE DEF as
  <2>1. Len(as) \in Nat
    BY <1>1
  <2>2. IsWrites(f, as, Len(as))
    BY <1>1, <1>2, Zenon
  <2>3. WritesOf(as) = f[Len(as)]
    BY <2>1, <2>2, WritesOfValue, Zenon
  <2> QED BY <1>1, <2>3, Zenon
<1>6. f[m + 1] = f[m] \o e.writes
  <2>1. m + 1 \in 1 .. m + 1 /\ (m + 1) - 1 = m
    BY <1>1
  <2>2. f[m + 1] = f[(m + 1) - 1] \o as[m + 1].writes
    BY <1>steps, <2>1, Zenon
  <2> QED BY <1>1, <2>1, <2>2
<1> QED BY <1>4, <1>5, <1>6

\* What a log makes a store write is a sequence of writes.
LEMMA WritesOfType ==
    ASSUME NEW es \in Seq(Event)
    PROVE  WritesOf(es) \in Seq(Write)
<1> DEFINE m == Len(es)
<1>1. m \in Nat /\ \A n \in 1 .. m : es[n].writes \in Seq(Write)
  <2>1. m \in Nat /\ \A n \in 1 .. m : es[n] \in Event
    OBVIOUS
  <2>2. \A e \in Event : e.writes \in Seq(Write)
    BY DEF Event
  <2> QED BY <2>1, <2>2
<1>2. PICK f : IsWrites(f, es, m)
  BY <1>1, WritesExist
<1> DEFINE S == {n \in Nat : n <= m => f[n] \in Seq(Write)}
<1>3. 0 \in S
  <2>1. f[0] = <<>>
    BY <1>1, <1>2, WritesSteps, Zenon
  <2>2. <<>> \in Seq(Write)
    OBVIOUS
  <2> QED BY <2>1, <2>2, Zenon
<1>4. ASSUME NEW n \in Nat, n \in S
      PROVE  n + 1 \in S
  <2>1. SUFFICES ASSUME n + 1 <= m PROVE f[n + 1] \in Seq(Write)
    OBVIOUS
  <2>2. n + 1 \in 1 .. m /\ (n + 1) - 1 = n /\ f[n] \in Seq(Write)
    BY <1>1, <1>4, <2>1
  <2>3. f[n + 1] = f[(n + 1) - 1] \o es[n + 1].writes
    BY <1>1, <1>2, <2>2, WritesSteps, Zenon
  <2>4. f[n + 1] = f[n] \o es[n + 1].writes
    BY <2>2, <2>3, Zenon
  <2>5. es[n + 1].writes \in Seq(Write)
    BY <1>1, <2>2
  <2> QED BY <2>2, <2>4, <2>5, ConcatProperties
<1>5. Nat \subseteq S
  <2> HIDE DEF S
  <2> QED BY <1>3, <1>4, NatSetInduction
<1>6. WritesOf(es) = f[m]
  BY <1>1, <1>2, WritesOfValue
<1> QED BY <1>1, <1>5, <1>6
\* f is the function that GraphOf defines, on the first m writes.
IsGraphs(f, ws, m) ==
    f = [n \in 0 .. m |-> IF n = 0 THEN EmptyGraph ELSE Effect(f[n - 1], ws[n])]

\* There is such a function for each length.
LEMMA GraphsExist ==
    ASSUME NEW ws, NEW m \in Nat
    PROVE  \E f : IsGraphs(f, ws, m)
<1> DEFINE S == {k \in Nat : \E f : IsGraphs(f, ws, k)}
<1>1. 0 \in S
  <2>1. IsGraphs([n \in 0 .. 0 |-> EmptyGraph], ws, 0)
    BY DEF IsGraphs
  <2> QED BY <2>1
<1>2. ASSUME NEW k \in Nat, k \in S
      PROVE  k + 1 \in S
  <2>1. PICK f : IsGraphs(f, ws, k)
    BY <1>2
  <2> DEFINE g == [n \in 0 .. k + 1 |->
                      IF n <= k THEN f[n] ELSE Effect(f[k], ws[k + 1])]
  <2>2. IsGraphs(g, ws, k + 1)
    <3>1. \A n \in 0 .. k + 1 :
             g[n] = IF n = 0 THEN EmptyGraph ELSE Effect(g[n - 1], ws[n])
      <4> SUFFICES ASSUME NEW n \in 0 .. k + 1
                   PROVE  g[n] = IF n = 0 THEN EmptyGraph
                                 ELSE Effect(g[n - 1], ws[n])
        OBVIOUS
      <4>1. CASE n = k + 1
        BY <4>1
      <4>2. CASE n <= k
        <5>1. f[n] = IF n = 0 THEN EmptyGraph ELSE Effect(f[n - 1], ws[n])
          BY <2>1, <4>2 DEF IsGraphs
        <5> QED BY <5>1, <4>2
      <4> QED BY <4>1, <4>2
    <3> HIDE DEF g
    <3>2. g = [n \in 0 .. k + 1 |-> g[n]]
      BY DEF g
    <3> QED BY <3>1, <3>2 DEF IsGraphs
  <2> QED BY <2>2
<1>3. Nat \subseteq S
  <2> HIDE DEF S
  <2> QED BY <1>1, <1>2, NatSetInduction
<1> QED BY <1>3

\* Its equations.
LEMMA GraphsSteps ==
    ASSUME NEW ws, NEW m \in Nat, NEW f, IsGraphs(f, ws, m)
    PROVE  /\ f[0] = EmptyGraph
           /\ \A n \in 1 .. m : f[n] = Effect(f[n - 1], ws[n])
<1>1. \A n \in 0 .. m :
         f[n] = IF n = 0 THEN EmptyGraph ELSE Effect(f[n - 1], ws[n])
  BY DEF IsGraphs
<1>2. 0 \in 0 .. m
  OBVIOUS
<1>3. ASSUME NEW n \in 1 .. m
      PROVE  f[n] = Effect(f[n - 1], ws[n])
  <2>1. n \in 0 .. m /\ n # 0
    OBVIOUS
  <2> QED BY <1>1, <2>1, Zenon
<1>4. f[0] = EmptyGraph
  BY <1>1, <1>2, Zenon
<1> QED BY <1>3, <1>4, Zenon

\* Two such functions agree where both are defined.
LEMMA GraphsAgree ==
    ASSUME NEW ws, NEW m \in Nat, NEW k \in Nat, m <= k,
           NEW f, IsGraphs(f, ws, m), NEW g, IsGraphs(g, ws, k)
    PROVE  \A n \in 0 .. m : f[n] = g[n]
<1> DEFINE S == {n \in Nat : n <= m => f[n] = g[n]}
<1>1. 0 \in S
  <2>1. f[0] = EmptyGraph
    BY GraphsSteps, Zenon
  <2>2. g[0] = EmptyGraph
    BY GraphsSteps, Zenon
  <2> QED BY <2>1, <2>2
<1>2. ASSUME NEW n \in Nat, n \in S
      PROVE  n + 1 \in S
  <2>1. SUFFICES ASSUME n + 1 <= m PROVE f[n + 1] = g[n + 1]
    OBVIOUS
  <2>2. f[n] = g[n]
    BY <1>2, <2>1
  <2>3. n + 1 \in 1 .. m /\ n + 1 \in 1 .. k /\ (n + 1) - 1 = n
    BY <2>1
  <2>4. f[n + 1] = Effect(f[(n + 1) - 1], ws[n + 1])
    BY <2>3, GraphsSteps, Zenon
  <2>5. g[n + 1] = Effect(g[(n + 1) - 1], ws[n + 1])
    BY <2>3, GraphsSteps, Zenon
  <2> QED BY <2>2, <2>3, <2>4, <2>5, Zenon
<1>3. Nat \subseteq S
  <2> HIDE DEF S
  <2> QED BY <1>1, <1>2, NatSetInduction
<1> QED BY <1>3

\* GraphOf is the last value of any such function.
LEMMA GraphOfValue ==
    ASSUME NEW ws, Len(ws) \in Nat, NEW f, IsGraphs(f, ws, Len(ws))
    PROVE  GraphOf(ws) = f[Len(ws)]
<1> DEFINE V == CHOOSE G : IsGraphs(G, ws, Len(ws))
<1>1. IsGraphs(V, ws, Len(ws))
  OBVIOUS
<1>2. GraphOf(ws) = V[Len(ws)]
  BY DEF GraphOf, IsGraphs
<1> HIDE DEF V
<1>3. V[Len(ws)] = f[Len(ws)]
  BY <1>1, GraphsAgree
<1> QED BY <1>2, <1>3
\* The graph of a prefix is a value of the function of the whole.
LEMMA GraphOfPrefix ==
    ASSUME NEW ws \in Seq(Write), NEW g, IsGraphs(g, ws, Len(ws)),
           NEW k \in 0 .. Len(ws)
    PROVE  GraphOf(SubSeq(ws, 1, k)) = g[k]
<1> DEFINE m == Len(ws)
           vs == SubSeq(ws, 1, k)
<1>1. /\ m \in Nat /\ k \in Nat
      /\ Len(vs) = k
      /\ \A n \in 1 .. k : vs[n] = ws[n]
  OBVIOUS
<1>2. /\ g[0] = EmptyGraph
      /\ \A n \in 1 .. m : g[n] = Effect(g[n - 1], ws[n])
  <2>1. g[0] = EmptyGraph
    BY <1>1, GraphsSteps, Zenon
  <2>2. \A n \in 1 .. m : g[n] = Effect(g[n - 1], ws[n])
    BY <1>1, GraphsSteps, Zenon
  <2> QED BY <2>1, <2>2, Zenon
<1> DEFINE h == [n \in 0 .. k |-> g[n]]
<1>3. IsGraphs(h, vs, k)
  <2>1. \A n \in 0 .. k :
           h[n] = IF n = 0 THEN EmptyGraph ELSE Effect(h[n - 1], vs[n])
    <3> SUFFICES ASSUME NEW n \in 0 .. k
                 PROVE  h[n] = IF n = 0 THEN EmptyGraph
                               ELSE Effect(h[n - 1], vs[n])
      OBVIOUS
    <3>1. CASE n = 0
      <4>1. g[0] = EmptyGraph
        BY <1>2, Zenon
      <4> QED BY <3>1, <4>1
    <3>2. CASE n # 0
      <4>1. n \in 1 .. k /\ n \in 1 .. m /\ n - 1 \in 0 .. k
        BY <1>1, <3>2
      <4>2. g[n] = Effect(g[n - 1], ws[n])
        BY <1>2, <4>1, Zenon
      <4>3. g[n] = Effect(g[n - 1], vs[n])
        BY <1>1, <4>1, <4>2, Zenon
      <4> QED BY <3>2, <4>1, <4>3
    <3> QED BY <3>1, <3>2
  <2> HIDE DEF h, vs
  <2>2. h = [n \in 0 .. k |-> h[n]]
    BY DEF h
  <2> QED BY <2>1, <2>2 DEF IsGraphs
<1>4. GraphOf(vs) = h[k]
  <2> HIDE DEF h, vs
  <2>1. Len(vs) \in Nat
    BY <1>1
  <2>2. IsGraphs(h, vs, Len(vs))
    BY <1>1, <1>3, Zenon
  <2>3. GraphOf(vs) = h[Len(vs)]
    BY <2>1, <2>2, GraphOfValue, Zenon
  <2> QED BY <1>1, <2>3, Zenon
<1> QED BY <1>1, <1>4

\* The graph of no writes is empty, and every write has its effect.
LEMMA GraphOfSteps ==
    ASSUME NEW ws \in Seq(Write)
    PROVE  /\ GraphOf(SubSeq(ws, 1, 0)) = EmptyGraph
           /\ \A n \in 1 .. Len(ws) :
                 GraphOf(SubSeq(ws, 1, n)) =
                     Effect(GraphOf(SubSeq(ws, 1, n - 1)), ws[n])
<1>1. Len(ws) \in Nat
  OBVIOUS
<1>2. PICK g : IsGraphs(g, ws, Len(ws))
  BY <1>1, GraphsExist
<1>3. 0 \in 0 .. Len(ws)
  BY <1>1
<1>4. GraphOf(SubSeq(ws, 1, 0)) = EmptyGraph
  <2>1. g[0] = EmptyGraph
    BY <1>1, <1>2, GraphsSteps, Zenon
  <2> QED BY <1>2, <1>3, <2>1, GraphOfPrefix, Zenon
<1>5. ASSUME NEW n \in 1 .. Len(ws)
      PROVE  GraphOf(SubSeq(ws, 1, n)) =
                 Effect(GraphOf(SubSeq(ws, 1, n - 1)), ws[n])
  <2>1. n \in 0 .. Len(ws) /\ n - 1 \in 0 .. Len(ws)
    BY <1>1
  <2>2. GraphOf(SubSeq(ws, 1, n)) = g[n]
    BY <1>2, <2>1, GraphOfPrefix, Zenon
  <2>3. GraphOf(SubSeq(ws, 1, n - 1)) = g[n - 1]
    BY <1>2, <2>1, GraphOfPrefix, Zenon
  <2>4. g[n] = Effect(g[n - 1], ws[n])
    BY <1>1, <1>2, GraphsSteps, Zenon
  <2> QED BY <2>2, <2>3, <2>4, Zenon
<1> QED BY <1>4, <1>5, Zenon
-----------------------------------------------------------------------------
(* The control of a store                                                  *)

\* The types of what a store knows of its own call.
ControlTypes ==
    /\ pc \in [Stores -> PCs]
    /\ job \in [Stores -> {"none", "read", "direct", "emit", "replay"}]
    /\ todo \in [Stores -> Seq(Write)]
    /\ outcome \in [Stores -> {"none", "ok", "raised", "unrecorded"}]

\* A step of s that leaves its control consistent and that of the others alone.
Moves(s) ==
    /\ ControlTypes'
    /\ ControlOK(s)'
    /\ \A t \in Stores \ {s} :
          pc'[t] = pc[t] /\ job'[t] = job[t] /\ todo'[t] = todo[t]

\* Such a step preserves the control invariant of every store.
LEMMA MovesPreserveControl ==
    ASSUME \A t \in Stores : ControlOK(t), NEW s \in Stores, Moves(s)
    PROVE  \A t \in Stores : ControlOK(t)'
<1> SUFFICES ASSUME NEW t \in Stores, t # s
             PROVE  ControlOK(t)'
  BY DEF Moves
<1> QED BY DEF Moves, ControlOK

\* The call goes on.
LEMMA GotoMoves ==
    ASSUME ControlTypes, NEW s \in Stores, NEW p \in PCs, Goto(s, p),
           /\ p \in {"closed", "create", "idle"} => job[s] = "none"
           /\ p = "read" => job[s] = "read"
           /\ p \in {"check", "write", "upsert"} =>
                 job[s] \in {"direct", "emit", "replay"} /\ todo[s] # <<>>
           /\ p = "upsert" => Head(todo[s]).op = "remove_object"
           /\ p \in {"del_relation", "del_patch", "del_vertex"} =>
                 job[s] \in {"direct", "replay"}
           /\ p \in {"rebuild", "events", "ready", "failing"} =>
                 job[s] = "replay"
           /\ p \notin {"check", "write", "upsert", "failing"} =>
                 todo[s] = <<>>
           /\ job[s] \in {"direct", "emit", "replay"} => s \in Writers
    PROVE  Moves(s)
BY DEF ControlTypes, Goto, Moves, ControlOK

\* The call ends.
LEMMA ReturnsMoves ==
    ASSUME ControlTypes, NEW s \in Stores,
           NEW o \in {"none", "ok", "raised", "unrecorded"}, Returns(s, o)
    PROVE  Moves(s)
<1>1. ControlTypes'
  BY DEF ControlTypes, Returns, PCs
<1>2. pc'[s] = "idle" /\ job'[s] = "none" /\ todo'[s] = <<>>
  BY DEF ControlTypes, Returns
<1>3. \A t \in Stores \ {s} :
         pc'[t] = pc[t] /\ job'[t] = job[t] /\ todo'[t] = todo[t]
  BY DEF ControlTypes, Returns
<1> QED BY <1>1, <1>2, <1>3 DEF Moves, ControlOK

\* The call fails.
LEMMA RaisesMoves ==
    ASSUME ControlTypes, NEW s \in Stores, ControlOK(s), Raises(s)
    PROVE  Moves(s)
<1>1. CASE job[s] = "replay"
  <2>1. Goto(s, "failing")
    BY <1>1 DEF Raises
  <2> QED BY <1>1, <2>1, GotoMoves DEF ControlOK, PCs
<1>2. CASE job[s] # "replay"
  <2>1. Returns(s, "raised")
    BY <1>2 DEF Raises
  <2> QED BY <2>1, ReturnsMoves
<1> QED BY <1>1, <1>2

\* The first write is done.
LEMMA AdvanceMoves ==
    ASSUME ControlTypes, NEW s \in Stores, ControlOK(s),
           pc[s] \in {"write", "upsert"}, Advance(s)
    PROVE  Moves(s)
<1>1. CASE Len(todo[s]) = 1 /\ job[s] # "replay"
  <2>1. Returns(s, "ok")
    BY <1>1 DEF Advance
  <2> QED BY <2>1, ReturnsMoves
<1>2. CASE ~(Len(todo[s]) = 1 /\ job[s] # "replay")
  <2>1. /\ todo[s] \in Seq(Write) /\ todo[s] # <<>>
        /\ job[s] \in {"direct", "emit", "replay"} /\ s \in Writers
    BY DEF ControlTypes, ControlOK
  <2>2. /\ Tail(todo[s]) \in Seq(Write)
        /\ Tail(todo[s]) = <<>> <=> Len(todo[s]) = 1
    <3>1. /\ Tail(todo[s]) \in Seq(Write)
          /\ Len(Tail(todo[s])) = Len(todo[s]) - 1
      BY <2>1, HeadTailProperties
    <3>2. Len(todo[s]) \in Nat
      BY <2>1
    <3>3. Tail(todo[s]) = <<>> <=> Len(Tail(todo[s])) = 0
      BY <3>1, EmptySeq
    <3> QED BY <3>1, <3>2, <3>3
  <2>3. /\ pc' = [pc EXCEPT ![s] =
                     IF Len(todo[s]) = 1 THEN "ready" ELSE "check"]
        /\ todo' = [todo EXCEPT ![s] = Tail(todo[s])]
        /\ outcome' = [outcome EXCEPT ![s] = "none"]
        /\ job' = job
    BY <1>2 DEF Advance
  <2>4. ControlTypes'
    BY <2>2, <2>3 DEF ControlTypes, PCs
  <2>5. /\ pc'[s] = IF Len(todo[s]) = 1 THEN "ready" ELSE "check"
        /\ todo'[s] = Tail(todo[s]) /\ job'[s] = job[s]
    BY <2>3 DEF ControlTypes
  <2>6. \A t \in Stores \ {s} :
           pc'[t] = pc[t] /\ job'[t] = job[t] /\ todo'[t] = todo[t]
    BY <2>3 DEF ControlTypes
  <2> QED BY <1>2, <2>1, <2>2, <2>4, <2>5, <2>6 DEF Moves, ControlOK
<1> QED BY <1>1, <1>2

\* A write is done, whether or not the store hears of it.
LEMMA DoneMoves ==
    ASSUME ControlTypes, NEW s \in Stores, ControlOK(s),
           pc[s] \in {"write", "upsert"}, Done(s)
    PROVE  Moves(s)
BY AdvanceMoves, RaisesMoves DEF Done

\* A failed query and a closed store.
LEMMA InterruptMoves ==
    ASSUME ControlTypes, NEW s \in Stores, ControlOK(s),
           QueryFails(s) \/ Close(s)
    PROVE  Moves(s)
<1>1. CASE QueryFails(s) /\ pc[s] # "create"
  BY <1>1, RaisesMoves DEF QueryFails
<1>2. CASE QueryFails(s) /\ pc[s] = "create"
  BY <1>2 DEF QueryFails, ControlTypes, Moves, ControlOK, PCs
<1>3. CASE Close(s)
  <2>1. ControlTypes'
    BY <1>3 DEF Close, ControlTypes, PCs
  <2>2. pc'[s] = "closed" /\ job'[s] = "none" /\ todo'[s] = <<>>
    BY <1>3 DEF Close, ControlTypes
  <2>3. \A t \in Stores \ {s} :
           pc'[t] = pc[t] /\ job'[t] = job[t] /\ todo'[t] = todo[t]
    BY <1>3 DEF Close, ControlTypes
  <2> QED BY <2>1, <2>2, <2>3 DEF Moves, ControlOK
<1> QED BY <1>1, <1>2, <1>3
-----------------------------------------------------------------------------
(* The tables                                                              *)

\* The types of the tables and of a store's flag, and the endpoints.
TablesOK ==
    /\ status \in Statuses \cup {None}
    /\ vertex \in [Objects -> Contents \cup {Placeholder, None}]
    /\ relation \in [Relations -> Ends \cup {None}]
    /\ patch \in [Patches -> Contents \cup {None}]
    /\ rebuilding_here \in [Stores -> BOOLEAN]
    /\ EndpointsHaveVertices

\* Its arguments are those of the call.
LEMMA WriteFields ==
    ASSUME NEW w \in Write
    PROVE  /\ w.op \in {"put_object", "remove_object", "put_relation",
                        "remove_relation", "put_patch", "remove_patch"}
           /\ w.op = "put_object" => w.id \in Objects /\ w.value \in Contents
           /\ w.op = "remove_object" => w.id \in Objects
           /\ w.op = "put_relation" => w.id \in Relations /\ w.value \in Ends
           /\ w.op = "remove_relation" => w.id \in Relations
           /\ w.op = "put_patch" => w.id \in Patches /\ w.value \in Contents
           /\ w.op = "remove_patch" => w.id \in Patches
BY DEF Write

\* A store about to write has a write to make.
LEMMA HeadIsWrite ==
    ASSUME ControlTypes, NEW s \in Stores, ControlOK(s),
           pc[s] \in {"check", "write", "upsert"}
    PROVE  Head(todo[s]) \in Write /\ todo[s] \in Seq(Write) /\ todo[s] # <<>>
<1>1. todo[s] \in Seq(Write) /\ todo[s] # <<>>
  BY DEF ControlTypes, ControlOK
<1> QED BY <1>1, HeadTailProperties

\* Every write, clear and status change of a store keeps the tables in order.
LEMMA StoreStepTables ==
    ASSUME ControlTypes, NEW s \in Stores, ControlOK(s), TablesOK, StoreStep(s)
    PROVE  TablesOK'
<1>1. CASE EnsureProjectionRecord(s)
  BY <1>1 DEF EnsureProjectionRecord, TablesOK, EndpointsHaveVertices, tables,
              Statuses
<1>2. CASE ServeRead(s)
  BY <1>2 DEF ServeRead, TablesOK, EndpointsHaveVertices, tables
<1>3. CASE AssertWritable(s)
  BY <1>3 DEF AssertWritable, TablesOK, EndpointsHaveVertices, tables
<1>4. CASE PutObject(s)
  <2> DEFINE w == Head(todo[s])
  <2>1. w \in Write /\ w.op = "put_object"
    BY <1>4, HeadIsWrite DEF PutObject, Writing
  <2>2. w.id \in Objects /\ w.value \in Contents
    BY <2>1, WriteFields
  <2> HIDE DEF w
  <2>3. /\ vertex' = [vertex EXCEPT ![w.id] = w.value]
        /\ UNCHANGED <<status, relation, patch, rebuilding_here>>
    BY <1>4 DEF PutObject, w
  <2> QED BY <2>2, <2>3, ContentsAssumption
          DEF TablesOK, EndpointsHaveVertices
<1>5. CASE RemoveObject(s)
  BY <1>5 DEF RemoveObject, TablesOK, EndpointsHaveVertices, tables
<1>6. CASE PutPlaceholder(s)
  <2> DEFINE w == Head(todo[s])
  <2>1. w \in Write /\ w.op = "remove_object"
    BY <1>6, HeadIsWrite DEF PutPlaceholder, ControlOK
  <2>2. w.id \in Objects
    BY <2>1, WriteFields
  <2> HIDE DEF w
  <2>3. /\ vertex' = [vertex EXCEPT ![w.id] = Placeholder]
        /\ UNCHANGED <<status, relation, patch, rebuilding_here>>
    BY <1>6 DEF PutPlaceholder, w
  <2>4. Placeholder # None
    BY ContentsAssumption
  <2> QED BY <2>2, <2>3, <2>4 DEF TablesOK, EndpointsHaveVertices
<1>7. CASE PutRelation(s)
  <2> DEFINE w == Head(todo[s])
  <2>1. w \in Write /\ w.op = "put_relation"
    BY <1>7, HeadIsWrite DEF PutRelation, Writing
  <2>2. w.id \in Relations /\ w.value \in Ends
    BY <2>1, WriteFields
  <2> HIDE DEF w
  <2>3. /\ vertex' = EnsurePlaceholders(w.value)
        /\ relation' = [relation EXCEPT ![w.id] = w.value]
        /\ UNCHANGED <<status, patch, rebuilding_here>>
    BY <1>7 DEF PutRelation, w
  <2>4. w.value.source \in Objects /\ w.value.target \in Objects
    BY <2>2 DEF Ends
  <2>5. Placeholder # None
    BY ContentsAssumption
  <2>6. /\ vertex' \in [Objects -> Contents \cup {Placeholder, None}]
        /\ relation' \in [Relations -> Ends \cup {None}]
    BY <2>2, <2>3 DEF TablesOK, EnsurePlaceholders
  <2>7. \A o \in Objects : vertex[o] # None => vertex'[o] # None
    BY <2>3 DEF EnsurePlaceholders
  <2>8. vertex'[w.value.source] # None /\ vertex'[w.value.target] # None
    BY <2>3, <2>4, <2>5 DEF EnsurePlaceholders
  <2>9. EndpointsHaveVertices'
    <3> SUFFICES ASSUME NEW k \in Relations, relation'[k] # None
                 PROVE  /\ vertex'[relation'[k].source] # None
                        /\ vertex'[relation'[k].target] # None
      BY DEF EndpointsHaveVertices
    <3>1. CASE k = w.id
      <4>1. relation'[k] = w.value
        BY <2>2, <2>3, <3>1 DEF TablesOK
      <4> QED BY <2>8, <4>1
    <3>2. CASE k # w.id
      <4>1. relation'[k] = relation[k]
        BY <2>2, <2>3, <3>2 DEF TablesOK
      <4>2. relation[k] \in Ends
        BY <4>1 DEF TablesOK
      <4>3. relation[k].source \in Objects /\ relation[k].target \in Objects
        BY <4>2 DEF Ends
      <4>4. /\ vertex[relation[k].source] # None
            /\ vertex[relation[k].target] # None
        BY <4>1 DEF TablesOK, EndpointsHaveVertices
      <4> QED BY <2>7, <4>1, <4>3, <4>4
    <3> QED BY <3>1, <3>2
  <2> QED BY <2>3, <2>6, <2>9 DEF TablesOK
<1>8. CASE RemoveRelation(s)
  <2> DEFINE w == Head(todo[s])
  <2>1. w \in Write /\ w.op = "remove_relation"
    BY <1>8, HeadIsWrite DEF RemoveRelation, Writing
  <2>2. w.id \in Relations
    BY <2>1, WriteFields
  <2> HIDE DEF w
  <2>3. /\ relation' = [relation EXCEPT ![w.id] = None]
        /\ UNCHANGED <<status, vertex, patch, rebuilding_here>>
    BY <1>8 DEF RemoveRelation, w
  <2> QED BY <2>2, <2>3 DEF TablesOK, EndpointsHaveVertices
<1>9. CASE PutPatch(s)
  <2> DEFINE w == Head(todo[s])
  <2>1. w \in Write /\ w.op = "put_patch"
    BY <1>9, HeadIsWrite DEF PutPatch, Writing
  <2>2. w.id \in Patches /\ w.value \in Contents
    BY <2>1, WriteFields
  <2> HIDE DEF w
  <2>3. /\ patch' = [patch EXCEPT ![w.id] = w.value]
        /\ UNCHANGED <<status, vertex, relation, rebuilding_here>>
    BY <1>9 DEF PutPatch, w
  <2> QED BY <2>2, <2>3 DEF TablesOK, EndpointsHaveVertices
<1>10. CASE RemovePatch(s)
  <2> DEFINE w == Head(todo[s])
  <2>1. w \in Write /\ w.op = "remove_patch"
    BY <1>10, HeadIsWrite DEF RemovePatch, Writing
  <2>2. w.id \in Patches
    BY <2>1, WriteFields
  <2> HIDE DEF w
  <2>3. /\ patch' = [patch EXCEPT ![w.id] = None]
        /\ UNCHANGED <<status, vertex, relation, rebuilding_here>>
    BY <1>10 DEF RemovePatch, w
  <2> QED BY <2>2, <2>3 DEF TablesOK, EndpointsHaveVertices
<1>11. CASE BeginRebuild(s)
  BY <1>11 DEF BeginRebuild, TablesOK, EndpointsHaveVertices, tables, Statuses
<1>12. CASE ClearRelations(s)
  BY <1>12 DEF ClearRelations, TablesOK, EndpointsHaveVertices
<1>13. CASE ClearPatches(s)
  BY <1>13 DEF ClearPatches, TablesOK, EndpointsHaveVertices
<1>14. CASE ClearVertices(s)
  BY <1>14 DEF ClearVertices, TablesOK, EndpointsHaveVertices
<1>15. CASE MarkReady(s)
  BY <1>15 DEF MarkReady, TablesOK, EndpointsHaveVertices, tables, Statuses
<1>16. CASE MarkFailed(s)
  BY <1>16 DEF MarkFailed, TablesOK, EndpointsHaveVertices, tables, Statuses
<1> QED BY <1>1, <1>2, <1>3, <1>4, <1>5, <1>6, <1>7, <1>8, <1>9, <1>10,
           <1>11, <1>12, <1>13, <1>14, <1>15, <1>16 DEF StoreStep

\* Every step of a call keeps the control of its store in order.
LEMMA StoreStepMoves ==
    ASSUME ControlTypes, NEW s \in Stores, ControlOK(s), StoreStep(s)
    PROVE  Moves(s)
<1>1. CASE EnsureProjectionRecord(s)
  <2>1. Goto(s, "idle") /\ job[s] = "none" /\ todo[s] = <<>>
    BY <1>1 DEF EnsureProjectionRecord, ControlOK
  <2> QED BY <2>1, GotoMoves DEF PCs
<1>2. CASE ServeRead(s)
  BY <1>2, ReturnsMoves DEF ServeRead
<1>3. CASE AssertWritable(s)
  <2>1. CASE Goto(s, "write")
    <3>1. /\ job[s] \in {"direct", "emit", "replay"}
          /\ todo[s] # <<>> /\ s \in Writers
      BY <1>3 DEF AssertWritable, ControlOK
    <3> QED BY <2>1, <3>1, GotoMoves DEF PCs
  <2>2. CASE Raises(s)
    BY <2>2, RaisesMoves
  <2> QED BY <1>3, <2>1, <2>2 DEF AssertWritable
<1>4. CASE \/ PutObject(s) \/ PutPlaceholder(s) \/ PutRelation(s)
           \/ RemoveRelation(s) \/ PutPatch(s) \/ RemovePatch(s)
  <2>1. pc[s] \in {"write", "upsert"} /\ Done(s)
    BY <1>4 DEF PutObject, PutPlaceholder, PutRelation, RemoveRelation,
                PutPatch, RemovePatch, Writing
  <2> QED BY <2>1, DoneMoves
<1>5. CASE RemoveObject(s)
  <2>1. /\ pc[s] = "write" /\ Head(todo[s]).op = "remove_object"
        /\ Advance(s) \/ Goto(s, "upsert")
    BY <1>5 DEF RemoveObject, Writing
  <2>2. CASE Advance(s)
    BY <2>1, <2>2, AdvanceMoves
  <2>3. CASE Goto(s, "upsert")
    <3>1. /\ job[s] \in {"direct", "emit", "replay"}
          /\ todo[s] # <<>> /\ s \in Writers
      BY <2>1 DEF ControlOK
    <3> QED BY <2>1, <2>3, <3>1, GotoMoves DEF PCs
  <2> QED BY <2>1, <2>2, <2>3
<1>6. CASE BeginRebuild(s)
  <2>1. job[s] = "replay" /\ todo[s] = <<>> /\ s \in Writers
    BY <1>6 DEF BeginRebuild, ControlOK
  <2>2. CASE Goto(s, "del_relation")
    BY <2>1, <2>2, GotoMoves DEF PCs
  <2>3. CASE Raises(s)
    BY <2>3, RaisesMoves
  <2> QED BY <1>6, <2>2, <2>3 DEF BeginRebuild
<1>7. CASE ClearRelations(s) \/ ClearPatches(s)
  <2>1. job[s] \in {"direct", "replay"} /\ todo[s] = <<>> /\ s \in Writers
    BY <1>7 DEF ClearRelations, ClearPatches, ControlOK
  <2>2. CASE Goto(s, "del_patch")
    BY <2>1, <2>2, GotoMoves DEF PCs
  <2>3. CASE Goto(s, "del_vertex")
    BY <2>1, <2>3, GotoMoves DEF PCs
  <2>4. CASE Raises(s)
    BY <2>4, RaisesMoves
  <2> QED BY <1>7, <2>2, <2>3, <2>4 DEF ClearRelations, ClearPatches
<1>8. CASE ClearVertices(s)
  <2>1. job[s] \in {"direct", "replay"} /\ todo[s] = <<>> /\ s \in Writers
    BY <1>8 DEF ClearVertices, ControlOK
  <2>2. CASE Goto(s, "events") /\ job[s] = "replay"
    BY <2>1, <2>2, GotoMoves DEF PCs
  <2>3. CASE Returns(s, "ok")
    BY <2>3, ReturnsMoves
  <2>4. CASE Raises(s)
    BY <2>4, RaisesMoves
  <2> QED BY <1>8, <2>2, <2>3, <2>4 DEF ClearVertices, Cleared
<1>9. CASE MarkReady(s)
  BY <1>9, ReturnsMoves, RaisesMoves DEF MarkReady
<1>10. CASE MarkFailed(s)
  BY <1>10, ReturnsMoves DEF MarkFailed
<1> QED BY <1>1, <1>2, <1>3, <1>4, <1>5, <1>6, <1>7, <1>8, <1>9, <1>10
        DEF StoreStep
-----------------------------------------------------------------------------
(* Types, control and endpoints, for any number of writers                 *)

\* The parts of the invariant.
LEMMA StoresInvParts ==
    StoresInv <=>
        /\ ControlTypes /\ TablesOK
        /\ \A s \in Stores : ControlOK(s)
        /\ log \in Seq(Events)
        /\ current \in [Writers -> BOOLEAN]
        /\ settled \in BOOLEAN
BY DEF StoresInv, TypeOK, StoreTypeOK, ControlTypes, TablesOK

\* Together they make the invariant of the next state.
LEMMA StoresInvNextParts ==
    ASSUME ControlTypes', TablesOK', \A s \in Stores : ControlOK(s)',
           log' \in Seq(Events), current' \in [Writers -> BOOLEAN],
           settled' \in BOOLEAN
    PROVE  StoresInv'
BY DEF StoresInv, TypeOK, StoreTypeOK, ControlTypes, TablesOK

\* A log is a sequence of events.
LEMMA LogIsEvents ==
    ASSUME log \in Seq(Events)
    PROVE  log \in Seq(Event)
<1>1. Len(log) \in Nat /\ log \in [1 .. Len(log) -> Events]
  OBVIOUS
<1>2. \A i \in 1 .. Len(log) : log[i] \in Event
  BY <1>1, ReplayAssumption
<1>3. log = [i \in 1 .. Len(log) |-> log[i]]
  BY <1>1
<1> QED BY <1>1, <1>2, <1>3

\* Every initial state.
LEMMA StoresInvInit == Init => StoresInv
<1> SUFFICES ASSUME Init PROVE StoresInv
  OBVIOUS
<1>1. ControlTypes /\ \A s \in Stores : ControlOK(s)
  BY DEF Init, StoreInit, ControlTypes, ControlOK, PCs
<1>2. TablesOK
  BY DEF Init, StoreInit, TablesOK, EndpointsHaveVertices
<1>3. log \in Seq(Events)
  BY ReplayAssumption DEF Init
<1>4. current \in [Writers -> BOOLEAN] /\ settled \in BOOLEAN
  BY DEF Init
<1> QED BY <1>1, <1>2, <1>3, <1>4, StoresInvParts

\* The calls of a writer.
LEMMA StoresInvWriter ==
    ASSUME StoresInv, NEW s \in Writers,
           \/ \E e \in Events : Emit(s, e) \/ EmitUnheard(s, e)
           \/ EmitRejected(s)
           \/ \E w \in DirectWrites : DirectWrite(s, w)
           \/ DirectClear(s)
           \/ Truncate(s)
           \/ StartReplay(s)
    PROVE  StoresInv'
<1>1. /\ ControlTypes /\ TablesOK /\ log \in Seq(Events)
      /\ current \in [Writers -> BOOLEAN] /\ settled \in BOOLEAN
      /\ \A t \in Stores : ControlOK(t)
      /\ s \in Stores
  BY StoresInvParts, ReplayAssumption
<1>2. ASSUME NEW j \in {"emit", "direct"}, NEW ws \in Seq(Write),
             StartWrites(s, j, ws)
      PROVE  Moves(s) /\ TablesOK'
  <2>1. ControlTypes'
    BY <1>1, <1>2 DEF StartWrites, ControlTypes, PCs
  <2>2. /\ pc'[s] = IF ws = <<>> THEN "idle" ELSE "check"
        /\ job'[s] = IF ws = <<>> THEN "none" ELSE j
        /\ todo'[s] = ws
    BY <1>1, <1>2 DEF StartWrites, ControlTypes
  <2>3. \A t \in Stores \ {s} :
           pc'[t] = pc[t] /\ job'[t] = job[t] /\ todo'[t] = todo[t]
    BY <1>1, <1>2 DEF StartWrites, ControlTypes
  <2>4. TablesOK'
    BY <1>1, <1>2 DEF StartWrites, TablesOK, EndpointsHaveVertices, tables
  <2> QED BY <2>1, <2>2, <2>3, <2>4 DEF Moves, ControlOK
<1>3. ASSUME NEW j, NEW p,
             \/ j = "direct" /\ p = "del_relation"
             \/ j = "replay" /\ p = "rebuild",
             StartJob(s, j, p)
      PROVE  Moves(s) /\ TablesOK'
  <2>1. ControlTypes'
    BY <1>1, <1>3 DEF StartJob, ControlTypes, PCs
  <2>2. pc'[s] = p /\ job'[s] = j /\ todo'[s] = <<>>
    BY <1>1, <1>3 DEF StartJob, ControlTypes, ControlOK
  <2>3. \A t \in Stores \ {s} :
           pc'[t] = pc[t] /\ job'[t] = job[t] /\ todo'[t] = todo[t]
    BY <1>1, <1>3 DEF StartJob, ControlTypes
  <2>4. TablesOK'
    BY <1>1, <1>3 DEF StartJob, TablesOK, EndpointsHaveVertices, tables
  <2> QED BY <1>3, <2>1, <2>2, <2>3, <2>4 DEF Moves, ControlOK
<1>4. ASSUME Moves(s), TablesOK', log' \in Seq(Events),
             current' \in [Writers -> BOOLEAN], settled' \in BOOLEAN
      PROVE  StoresInv'
  <2>1. \A t \in Stores : ControlOK(t)'
    BY <1>1, <1>4, MovesPreserveControl
  <2> QED BY <1>4, <2>1, StoresInvNextParts DEF Moves
<1>5. CASE \E e \in Events : Emit(s, e)
  <2>1. PICK e \in Events : Emit(s, e)
    BY <1>5
  <2>2. e.writes \in Seq(Write)
    BY ReplayAssumption DEF Event
  <2>3. Moves(s) /\ TablesOK'
    BY <1>2, <2>1, <2>2 DEF Emit
  <2>4. log' \in Seq(Events)
    BY <1>1, <2>1 DEF Emit
  <2>5. current' \in [Writers -> BOOLEAN] /\ settled' \in BOOLEAN
    BY <1>1, <2>1 DEF Emit, Commit
  <2> QED BY <1>4, <2>3, <2>4, <2>5
<1>6. CASE \E e \in Events : EmitUnheard(s, e)
  <2>1. PICK e \in Events : EmitUnheard(s, e)
    BY <1>6
  <2>2. Moves(s)
    BY <1>1, <2>1, ReturnsMoves DEF EmitUnheard
  <2>3. TablesOK'
    BY <1>1, <2>1 DEF EmitUnheard, TablesOK, EndpointsHaveVertices, tables
  <2>4. log' \in Seq(Events)
    BY <1>1, <2>1 DEF EmitUnheard
  <2>5. current' \in [Writers -> BOOLEAN] /\ settled' \in BOOLEAN
    BY <1>1, <2>1 DEF EmitUnheard, Commit
  <2> QED BY <1>4, <2>2, <2>3, <2>4, <2>5
<1>7. CASE EmitRejected(s)
  <2>1. Moves(s)
    BY <1>1, <1>7, ReturnsMoves DEF EmitRejected
  <2>2. TablesOK'
    BY <1>1, <1>7 DEF EmitRejected, TablesOK, EndpointsHaveVertices, tables
  <2> QED BY <1>1, <1>4, <1>7, <2>1, <2>2 DEF EmitRejected
<1>8. CASE \E w \in DirectWrites : DirectWrite(s, w)
  <2>1. PICK w \in DirectWrites : DirectWrite(s, w)
    BY <1>8
  <2>2. <<w>> \in Seq(Write)
    BY ReplayAssumption
  <2>3. Moves(s) /\ TablesOK'
    BY <1>2, <2>1, <2>2 DEF DirectWrite
  <2> QED BY <1>1, <1>4, <2>1, <2>3 DEF DirectWrite
<1>9. CASE DirectClear(s)
  <2>1. Moves(s) /\ TablesOK'
    BY <1>3, <1>9 DEF DirectClear
  <2> QED BY <1>1, <1>4, <1>9, <2>1 DEF DirectClear
<1>10. CASE Truncate(s)
  <2>1. UNCHANGED storeVars /\ settled' = FALSE
    BY <1>10 DEF Truncate
  <2>2. log' \in Seq(Events)
    BY <1>1, <1>10 DEF Truncate
  <2>3. current' \in [Writers -> BOOLEAN]
    BY <1>10 DEF Truncate, Commit
  <2>4. ControlTypes' /\ TablesOK'
    BY <1>1, <2>1 DEF storeVars, ControlTypes, TablesOK, EndpointsHaveVertices
  <2>5. \A t \in Stores : ControlOK(t)'
    BY <1>1, <2>1 DEF storeVars, ControlOK
  <2> QED BY <2>1, <2>2, <2>3, <2>4, <2>5, StoresInvNextParts
<1>11. CASE StartReplay(s)
  <2>1. Moves(s) /\ TablesOK'
    BY <1>3, <1>11 DEF StartReplay
  <2> QED BY <1>1, <1>4, <1>11, <2>1 DEF StartReplay
<1> QED BY <1>5, <1>6, <1>7, <1>8, <1>9, <1>10, <1>11

\* The steps of any store.
LEMMA StoresInvStore ==
    ASSUME StoresInv, NEW s \in Stores,
           \/ Continue(s)
           \/ Interrupt(s)
           \/ Open(s)
           \/ StartRead(s) /\ UNCHANGED <<log, current, settled>>
    PROVE  StoresInv'
<1>1. /\ ControlTypes /\ TablesOK /\ log \in Seq(Events)
      /\ current \in [Writers -> BOOLEAN] /\ settled \in BOOLEAN
      /\ \A t \in Stores : ControlOK(t)
  BY StoresInvParts
<1>2. ASSUME Moves(s), TablesOK', log' \in Seq(Events),
             current' \in [Writers -> BOOLEAN], settled' \in BOOLEAN
      PROVE  StoresInv'
  <2>1. \A t \in Stores : ControlOK(t)'
    BY <1>1, <1>2, MovesPreserveControl
  <2> QED BY <1>2, <2>1, StoresInvNextParts DEF Moves
<1>3. Settles(s) => settled' \in BOOLEAN
  BY DEF Settles
<1>4. CASE ReadEvents(s)
  <2>1. job[s] = "replay" /\ todo[s] = <<>> /\ s \in Writers
    BY <1>1, <1>4 DEF ReadEvents, ControlOK
  <2>2. TablesOK' /\ UNCHANGED <<log, current, settled>>
    BY <1>1, <1>4 DEF ReadEvents, TablesOK, EndpointsHaveVertices, tables
  <2>3. CASE Raises(s)
    BY <1>1, <1>2, <2>2, <2>3, RaisesMoves
  <2>4. CASE ~Raises(s)
    <3> DEFINE ws == WritesOf(log)
    <3>1. ws \in Seq(Write)
      BY <1>1, LogIsEvents, WritesOfType
    <3>2. /\ todo' = [todo EXCEPT ![s] = ws]
          /\ pc' = [pc EXCEPT ![s] = IF ws = <<>> THEN "ready" ELSE "check"]
          /\ outcome' = [outcome EXCEPT ![s] = "none"]
          /\ job' = job
      BY <1>4, <2>4 DEF ReadEvents
    <3> HIDE DEF ws
    <3>3. ControlTypes'
      BY <1>1, <3>1, <3>2 DEF ControlTypes, PCs
    <3>4. /\ pc'[s] = IF ws = <<>> THEN "ready" ELSE "check"
          /\ job'[s] = "replay" /\ todo'[s] = ws
      BY <1>1, <2>1, <3>2 DEF ControlTypes
    <3>5. \A t \in Stores \ {s} :
             pc'[t] = pc[t] /\ job'[t] = job[t] /\ todo'[t] = todo[t]
      BY <1>1, <3>2 DEF ControlTypes
    <3>6. Moves(s)
      BY <2>1, <3>3, <3>4, <3>5 DEF Moves, ControlOK
    <3> QED BY <1>1, <1>2, <2>2, <3>6
  <2> QED BY <2>3, <2>4
<1>5. CASE StoreStep(s) /\ Settles(s) /\ UNCHANGED <<log, current>>
  <2>1. Moves(s) /\ TablesOK'
    BY <1>1, <1>5, StoreStepMoves, StoreStepTables
  <2> QED BY <1>1, <1>2, <1>3, <1>5, <2>1
<1>6. CASE Interrupt(s)
  <2>1. Moves(s)
    BY <1>1, <1>6, InterruptMoves DEF Interrupt
  <2>2. TablesOK'
    BY <1>1, <1>6 DEF Interrupt, QueryFails, Close, TablesOK,
                      EndpointsHaveVertices, tables
  <2>3. current' \in [Writers -> BOOLEAN] /\ log' = log /\ Settles(s)
    BY <1>6 DEF Interrupt
  <2> QED BY <1>1, <1>2, <1>3, <2>1, <2>2, <2>3
<1>7. CASE Open(s)
  <2>1. job[s] = "none" /\ todo[s] = <<>>
    BY <1>1, <1>7 DEF Open, OpenStore, ControlOK
  <2>2. Goto(s, "create") \/ Goto(s, "idle")
    BY <1>7 DEF Open, OpenStore
  <2>3. Moves(s)
    BY <1>1, <2>1, <2>2, GotoMoves DEF PCs
  <2>4. TablesOK'
    BY <1>1, <1>7 DEF Open, OpenStore, TablesOK, EndpointsHaveVertices, tables
  <2>5. current' \in [Writers -> BOOLEAN] /\ UNCHANGED <<log, settled>>
    BY <1>1, <1>7 DEF Open
  <2> QED BY <1>1, <1>2, <2>3, <2>4, <2>5
<1>8. CASE StartRead(s) /\ UNCHANGED <<log, current, settled>>
  <2>1. TablesOK'
    BY <1>1, <1>8 DEF StartRead, TablesOK, EndpointsHaveVertices, tables
  <2>2. CASE Readable(s)
    <3>1. /\ pc' = [pc EXCEPT ![s] = "read"]
          /\ job' = [job EXCEPT ![s] = "read"]
          /\ outcome' = [outcome EXCEPT ![s] = "none"]
          /\ todo' = todo /\ todo[s] = <<>>
      BY <1>1, <1>8, <2>2 DEF StartRead, ControlOK
    <3>2. Moves(s)
      BY <1>1, <3>1 DEF Moves, ControlTypes, ControlOK, PCs
    <3> QED BY <1>1, <1>2, <1>8, <2>1, <3>2
  <2>3. CASE ~Readable(s)
    <3>1. Moves(s)
      BY <1>1, <1>8, <2>3, ReturnsMoves DEF StartRead
    <3> QED BY <1>1, <1>2, <1>8, <2>1, <3>1
  <2> QED BY <2>2, <2>3
<1> QED BY <1>4, <1>5, <1>6, <1>7, <1>8 DEF Continue

\* Every step, and none.
LEMMA StoresInvNext ==
    ASSUME StoresInv, [Next]_vars
    PROVE  StoresInv'
<1>1. CASE Next
  BY <1>1, StoresInvStore, StoresInvWriter DEF Next
<1>2. CASE UNCHANGED vars
  BY <1>2 DEF vars, StoresInv, TypeOK, StoreTypeOK, ControlOK,
              EndpointsHaveVertices
<1> QED BY <1>1, <1>2

\* However many stores open and read the projection while its one writer
\* writes, rebuilds, fails and is closed, the types hold, the control of each store is consistent, and the endpoints of every
\* relation have a vertex record (graph_store.py, runtime.py).
THEOREM StoresInvariant == Spec => []StoresInv
BY StoresInvInit, StoresInvNext, PTL DEF Spec

\* Every variable keeps to the values the code gives it.
THEOREM ReplayTypeCorrect == Spec => []TypeOK
<1>1. StoresInv => TypeOK
  BY DEF StoresInv
<1> QED BY <1>1, StoresInvariant, PTL

\* A relation never outlives the vertex records of its endpoints while the run
\* has one writer, for any objects, relations and logs (put_relation,
\* remove_object, clear).  With a second writer the atomic step for
\* put_relation would claim too much.
THEOREM EndpointsAlwaysHaveVertices == Spec => []EndpointsHaveVertices
<1>1. StoresInv => EndpointsHaveVertices
  BY DEF StoresInv
<1> QED BY <1>1, StoresInvariant, PTL
-----------------------------------------------------------------------------
(* What a write does to the graph                                          *)

\* The graph of all writes, and of none.
LEMMA GraphOfWhole ==
    ASSUME NEW ws \in Seq(Write)
    PROVE  SubSeq(ws, 1, Len(ws)) = ws /\ GraphOf(<<>>) = EmptyGraph
<1>1. SubSeq(ws, 1, Len(ws)) = ws
  OBVIOUS
<1>2. SubSeq(<<>>, 1, 0) = <<>> /\ <<>> \in Seq(Write)
  OBVIOUS
<1>3. GraphOf(SubSeq(<<>>, 1, 0)) = EmptyGraph
  BY <1>2, GraphOfSteps
<1> QED BY <1>1, <1>2, <1>3

\* A put_relation, and each of the other writes, changes the graph that
\* readers see as the reference says; the placeholders it makes are no objects.
LEMMA WriteHasEffect ==
    ASSUME ControlTypes, TablesOK, NEW s \in Stores, ControlOK(s),
           \/ PutObject(s) \/ PutPlaceholder(s) \/ PutRelation(s)
           \/ RemoveRelation(s) \/ PutPatch(s) \/ RemovePatch(s)
    PROVE  Visible' = Effect(Visible, Head(todo[s]))
<1> DEFINE w == Head(todo[s])
<1>1. w \in Write
  BY HeadIsWrite DEF PutObject, PutPlaceholder, PutRelation, RemoveRelation,
                     PutPatch, RemovePatch, Writing
<1>2. CASE PutObject(s)
  <2>1. w.op = "put_object" /\ w.id \in Objects /\ w.value \in Contents
    BY <1>1, <1>2, WriteFields DEF PutObject, Writing
  <2>2. /\ vertex' = [vertex EXCEPT ![w.id] = w.value]
        /\ relation' = relation /\ patch' = patch
    BY <1>2 DEF PutObject
  <2> HIDE DEF w
  <2>3. w.value # Placeholder
    BY <2>1, ContentsAssumption
  <2> QED BY <2>1, <2>2, <2>3 DEF Visible, Effect, TablesOK, w
<1>3. CASE PutPlaceholder(s)
  <2>1. w.op = "remove_object" /\ w.id \in Objects
    BY <1>1, <1>3, WriteFields DEF PutPlaceholder, ControlOK
  <2>2. /\ vertex' = [vertex EXCEPT ![w.id] = Placeholder]
        /\ relation' = relation /\ patch' = patch
    BY <1>3 DEF PutPlaceholder
  <2> QED BY <2>1, <2>2 DEF Visible, Effect, TablesOK
<1>4. CASE PutRelation(s)
  <2>1. w.op = "put_relation" /\ w.id \in Relations
    BY <1>1, <1>4, WriteFields DEF PutRelation, Writing
  <2>2. /\ vertex' = EnsurePlaceholders(w.value)
        /\ relation' = [relation EXCEPT ![w.id] = w.value]
        /\ patch' = patch
    BY <1>4 DEF PutRelation
  <2>3. \A o \in Objects :
           \/ vertex'[o] = vertex[o]
           \/ vertex'[o] = Placeholder /\ vertex[o] = None
    BY <2>2 DEF EnsurePlaceholders
  <2>4. Visible'.object = Visible.object
    BY <2>3 DEF Visible
  <2> QED BY <2>1, <2>2, <2>4 DEF Visible, Effect, TablesOK
<1>5. CASE RemoveRelation(s)
  <2>1. w.op = "remove_relation" /\ w.id \in Relations
    BY <1>1, <1>5, WriteFields DEF RemoveRelation, Writing
  <2>2. /\ relation' = [relation EXCEPT ![w.id] = None]
        /\ vertex' = vertex /\ patch' = patch
    BY <1>5 DEF RemoveRelation
  <2> QED BY <2>1, <2>2 DEF Visible, Effect, TablesOK
<1>6. CASE PutPatch(s)
  <2>1. w.op = "put_patch" /\ w.id \in Patches
    BY <1>1, <1>6, WriteFields DEF PutPatch, Writing
  <2>2. /\ patch' = [patch EXCEPT ![w.id] = w.value]
        /\ vertex' = vertex /\ relation' = relation
    BY <1>6 DEF PutPatch
  <2> QED BY <2>1, <2>2 DEF Visible, Effect, TablesOK
<1>7. CASE RemovePatch(s)
  <2>1. w.op = "remove_patch" /\ w.id \in Patches
    BY <1>1, <1>7, WriteFields DEF RemovePatch, Writing
  <2>2. /\ patch' = [patch EXCEPT ![w.id] = None]
        /\ vertex' = vertex /\ relation' = relation
    BY <1>7 DEF RemovePatch
  <2> QED BY <2>1, <2>2 DEF Visible, Effect, TablesOK
<1> QED BY <1>2, <1>3, <1>4, <1>5, <1>6, <1>7

\* An object without a record needs no write to be absent.
LEMMA AbsentObjectHasNoEffect ==
    ASSUME ControlTypes, TablesOK, NEW s \in Stores, ControlOK(s),
           Writing(s, "remove_object"), vertex[Head(todo[s]).id] = None
    PROVE  Visible = Effect(Visible, Head(todo[s]))
<1> DEFINE w == Head(todo[s])
<1>1. w \in Write
  BY HeadIsWrite DEF Writing
<1>2. w.op = "remove_object" /\ w.id \in Objects
  BY <1>1, WriteFields DEF Writing
<1>3. Visible.object[w.id] = None
  BY <1>2 DEF Visible
<1> QED BY <1>2, <1>3 DEF Visible, Effect

\* A prefix of the log that is not the whole of it grows by the first write
\* that is left.
LEMMA PrefixGrows ==
    ASSUME log \in Seq(Events), NEW s, HoldsPrefix(s), todo[s] # <<>>
    PROVE  LET H == WritesOf(log)
           IN  \E n \in 1 .. Len(H) :
                  /\ Effect(Visible, Head(todo[s])) = GraphOf(SubSeq(H, 1, n))
                  /\ Tail(todo[s]) = SubSeq(H, n + 1, Len(H))
                  /\ Len(todo[s]) = Len(H) - n + 1
<1> DEFINE H == WritesOf(log)
<1>1. H \in Seq(Write)
  BY LogIsEvents, WritesOfType
<1>2. PICK n \in 0 .. Len(H) :
         /\ Visible = GraphOf(SubSeq(H, 1, n))
         /\ todo[s] = SubSeq(H, n + 1, Len(H))
  BY DEF HoldsPrefix
<1> HIDE DEF H
<1>3. Len(H) \in Nat /\ n \in Nat /\ n < Len(H)
  <2>1. Len(H) \in Nat /\ n \in Nat /\ n <= Len(H)
    BY <1>1
  <2>2. n # Len(H)
    BY <1>1, <1>2, <2>1
  <2> QED BY <2>1, <2>2
<1>4. /\ Head(todo[s]) = H[n + 1]
      /\ Len(todo[s]) = Len(H) - n
  BY <1>1, <1>2, <1>3
<1>5. Tail(todo[s]) = SubSeq(H, n + 2, Len(H))
  BY <1>1, <1>2, <1>3
<1>6. GraphOf(SubSeq(H, 1, n + 1)) = Effect(Visible, Head(todo[s]))
  <2>1. n + 1 \in 1 .. Len(H) /\ (n + 1) - 1 = n
    BY <1>3
  <2>2. GraphOf(SubSeq(H, 1, n + 1)) =
           Effect(GraphOf(SubSeq(H, 1, (n + 1) - 1)), H[n + 1])
    BY <1>1, <2>1, GraphOfSteps, Zenon
  <2> QED BY <1>2, <1>4, <2>1, <2>2, Zenon
<1>7. /\ n + 1 \in 1 .. Len(H)
      /\ Tail(todo[s]) = SubSeq(H, (n + 1) + 1, Len(H))
      /\ Len(todo[s]) = Len(H) - (n + 1) + 1
  BY <1>3, <1>4, <1>5
<1>8. \E k \in 1 .. Len(H) :
         /\ Effect(Visible, Head(todo[s])) = GraphOf(SubSeq(H, 1, k))
         /\ Tail(todo[s]) = SubSeq(H, k + 1, Len(H))
         /\ Len(todo[s]) = Len(H) - k + 1
  BY <1>6, <1>7, Zenon
<1> QED BY <1>8 DEF H

\* A prefix with nothing left is the log.
LEMMA PrefixIsWhole ==
    ASSUME log \in Seq(Events), NEW s, HoldsPrefix(s), todo[s] = <<>>
    PROVE  Visible = GraphOf(WritesOf(log))
<1> DEFINE H == WritesOf(log)
<1>1. H \in Seq(Write)
  BY LogIsEvents, WritesOfType
<1>2. PICK n \in 0 .. Len(H) :
         /\ Visible = GraphOf(SubSeq(H, 1, n))
         /\ todo[s] = SubSeq(H, n + 1, Len(H))
  BY DEF HoldsPrefix
<1> HIDE DEF H
<1>3. n = Len(H)
  BY <1>1, <1>2
<1> QED BY <1>1, <1>2, <1>3, GraphOfWhole DEF H
-----------------------------------------------------------------------------
(* One writer: the projection and the log                                  *)

\* The parts of the invariant that relate the projection to the log.
AbsentOK ==
    status = None =>
        /\ Visible = EmptyGraph
        /\ settled => log = <<>>
        /\ \A s \in Stores : pc[s] \in {"closed", "create"}

EmitOK(s) ==
    status = "ready" /\ settled /\ job[s] = "emit" => HoldsPrefix(s)

DirectOK(s) == job[s] = "direct" => ~settled

SettledOK ==
    status = "ready" /\ settled /\ (\A s \in Writers : job[s] # "emit") =>
        Visible = GraphOf(WritesOf(log))

\* They make the invariant, in this state and in the next.
LEMMA ProjectionInvParts ==
    /\ ProjectionInv <=>
          /\ StoresInv /\ AbsentOK /\ SettledOK
          /\ \A s \in Writers : ReplayOK(s) /\ DirectOK(s) /\ EmitOK(s)
    /\ ProjectionInv' <=>
          /\ StoresInv' /\ AbsentOK' /\ SettledOK'
          /\ \A s \in Writers : ReplayOK(s)' /\ DirectOK(s)' /\ EmitOK(s)'
<1>1. ProjectionInv <=>
          /\ StoresInv /\ AbsentOK /\ SettledOK
          /\ \A s \in Writers : ReplayOK(s) /\ DirectOK(s) /\ EmitOK(s)
  BY Zenon DEF ProjectionInv, AbsentOK, SettledOK, DirectOK, EmitOK
<1>2. ProjectionInv' <=>
          /\ StoresInv' /\ AbsentOK' /\ SettledOK'
          /\ \A s \in Writers : ReplayOK(s)' /\ DirectOK(s)' /\ EmitOK(s)'
  BY Zenon DEF ProjectionInv, AbsentOK, SettledOK, DirectOK, EmitOK
<1> QED BY <1>1, <1>2

\* A step of the one writer has to be looked at for that writer only.
LEMMA OneWriterParts ==
    ASSUME OneWriter, NEW s \in Writers, StoresInv', status' # None,
           ReplayOK(s)', DirectOK(s)', EmitOK(s)', SettledOK'
    PROVE  ProjectionInv'
<1>1. \A t \in Writers : t = s
  BY DEF OneWriter
<1>2. AbsentOK'
  BY DEF AbsentOK
<1>3. \A t \in Writers : ReplayOK(t)' /\ DirectOK(t)' /\ EmitOK(t)'
  BY <1>1
<1> QED BY <1>2, <1>3, ProjectionInvParts

\* What the writer relies on when it moves.
LEMMA WriterFacts ==
    ASSUME ProjectionInv, NEW s \in Writers
    PROVE  /\ s \in Stores /\ ControlTypes /\ TablesOK /\ ControlOK(s)
           /\ log \in Seq(Events) /\ settled \in BOOLEAN
           /\ ReplayOK(s) /\ DirectOK(s) /\ EmitOK(s) /\ SettledOK
           /\ pc[s] \notin {"closed", "create"} => status # None
<1>1. /\ StoresInv /\ AbsentOK /\ SettledOK
      /\ ReplayOK(s) /\ DirectOK(s) /\ EmitOK(s)
  BY ProjectionInvParts
<1>2. s \in Stores
  BY ReplayAssumption
<1>3. pc[s] \notin {"closed", "create"} => status # None
  BY <1>1, <1>2 DEF AbsentOK
<1> QED BY <1>1, <1>2, <1>3, StoresInvParts

\* Tables and log are untouched.
LEMMA SameTables ==
    ASSUME UNCHANGED <<vertex, relation, patch>>
    PROVE  Visible' = Visible
BY DEF Visible

\* The step of a store that writes nothing: a constructor, a read, a call that
\* is refused.
LEMMA Bystander ==
    ASSUME ProjectionInv, StoresInv', NEW s \in Stores, Moves(s),
           UNCHANGED <<vertex, relation, patch, log, settled>>,
           job[s] \in {"none", "read"}, job'[s] \in {"none", "read"},
           \/ status' = status
           \/ status = None /\ status' = "ready",
           status' = None => pc'[s] \in {"closed", "create"}
    PROVE  ProjectionInv'
<1>1. /\ StoresInv /\ AbsentOK /\ SettledOK
      /\ \A t \in Writers : ReplayOK(t) /\ DirectOK(t) /\ EmitOK(t)
  BY ProjectionInvParts
<1>2. Visible' = Visible /\ log' = log /\ settled' = settled
  BY SameTables
<1>3. \A t \in Stores \ {s} :
         pc'[t] = pc[t] /\ job'[t] = job[t] /\ todo'[t] = todo[t]
  BY DEF Moves
<1>4. None # "ready"
  BY ContentsAssumption DEF Statuses
<1>5. AbsentOK'
  <2> SUFFICES ASSUME status' = None
               PROVE  /\ Visible' = EmptyGraph
                      /\ settled' => log' = <<>>
                      /\ \A t \in Stores : pc'[t] \in {"closed", "create"}
    BY DEF AbsentOK
  <2>1. status = None
    BY <1>4
  <2> QED BY <1>1, <1>2, <1>3, <2>1 DEF AbsentOK
<1>6. status = None => \A t \in Stores : job[t] = "none"
  BY <1>1 DEF AbsentOK, StoresInv, ControlOK
<1>7. ASSUME NEW t \in Writers
      PROVE  ReplayOK(t)' /\ DirectOK(t)' /\ EmitOK(t)'
  <2>1. t \in Stores
    BY ReplayAssumption
  <2>2. CASE t = s
    BY <2>2 DEF ReplayOK, DirectOK, EmitOK
  <2>3. CASE t # s
    <3>1. pc'[t] = pc[t] /\ job'[t] = job[t] /\ todo'[t] = todo[t]
      BY <1>3, <2>1, <2>3
    <3>2. HoldsPrefix(t) => HoldsPrefix(t)'
      BY <1>2, <3>1 DEF HoldsPrefix
    <3>3. CASE status' # status
      BY <1>6, <2>1, <3>1, <3>3 DEF ReplayOK, DirectOK, EmitOK
    <3>4. CASE status' = status
      <4>1. DirectOK(t)' /\ EmitOK(t)'
        BY <1>1, <1>2, <3>1, <3>2, <3>4 DEF DirectOK, EmitOK
      <4>2. ReplayOK(t)'
        BY <1>1, <1>2, <3>1, <3>2, <3>4 DEF ReplayOK
      <4> QED BY <4>1, <4>2
    <3> QED BY <3>3, <3>4
  <2> QED BY <2>2, <2>3
<1>8. SettledOK'
  <2> SUFFICES ASSUME status' = "ready", settled',
                      \A t \in Writers : job'[t] # "emit"
               PROVE  Visible' = GraphOf(WritesOf(log'))
    BY DEF SettledOK
  <2>1. CASE status = None
    <3>1. Visible = EmptyGraph /\ log = <<>>
      BY <1>1, <1>2, <2>1 DEF AbsentOK
    <3>2. GraphOf(<<>>) = EmptyGraph
      <4>1. <<>> \in Seq(Write)
        OBVIOUS
      <4> QED BY <4>1, GraphOfWhole
    <3> QED BY <1>2, <3>1, <3>2, WritesOfEmpty
  <2>2. CASE status # None
    <3>1. \A t \in Writers : job[t] # "emit"
      BY <1>3, ReplayAssumption
    <3> QED BY <1>1, <1>2, <2>2, <3>1 DEF SettledOK
  <2> QED BY <2>1, <2>2
<1> QED BY <1>1, <1>5, <1>7, <1>8, ProjectionInvParts

\* An error leaves the writer's call: an emit is no longer settled, and a
\* replay goes on to mark_failed.
LEMMA RaisedWrite ==
    ASSUME OneWriter, ProjectionInv, StoresInv', NEW s \in Writers, Raises(s),
           job[s] \in {"direct", "emit", "replay"}, status' # None,
           settled' => settled /\ job[s] # "emit", log' = log,
           status' = "ready" /\ settled /\ job[s] = "replay" =>
               Visible' = GraphOf(WritesOf(log))
    PROVE  ProjectionInv'
<1>1. /\ s \in Stores /\ ControlTypes /\ DirectOK(s)
  BY WriterFacts
<1>2. CASE job[s] = "replay"
  <2>1. pc'[s] = "failing" /\ job'[s] = "replay"
    BY <1>1, <1>2 DEF Raises, Goto, ControlTypes
  <2>2. ReplayOK(s)' /\ DirectOK(s)' /\ EmitOK(s)'
    BY <2>1 DEF ReplayOK, DirectOK, EmitOK
  <2>3. SettledOK'
    BY <1>2 DEF SettledOK
  <2> QED BY <2>2, <2>3, OneWriterParts
<1>3. CASE job[s] # "replay"
  <2>1. job'[s] = "none"
    BY <1>1, <1>3 DEF Raises, Returns, ControlTypes
  <2>2. ~settled'
    BY <1>1, <1>3 DEF DirectOK
  <2>3. ReplayOK(s)' /\ DirectOK(s)' /\ EmitOK(s)'
    BY <2>1 DEF ReplayOK, DirectOK, EmitOK
  <2>4. SettledOK'
    BY <2>2 DEF SettledOK
  <2> QED BY <2>3, <2>4, OneWriterParts
<1> QED BY <1>2, <1>3

\* The history variable after an error.
LEMMA RaisesUnsettles ==
    ASSUME ControlTypes, NEW s \in Stores, Raises(s), Settles(s)
    PROVE  settled' => settled /\ job[s] # "emit"
<1>1. CASE job[s] = "replay"
  <2>1. job'[s] = "replay"
    BY <1>1 DEF Raises, Goto, ControlTypes
  <2> QED BY <1>1, <2>1 DEF Settles
<1>2. CASE job[s] # "replay"
  <2>1. job'[s] = "none" /\ outcome'[s] = "raised"
    BY <1>2 DEF Raises, Returns, ControlTypes
  <2> QED BY <1>2, <2>1 DEF Settles
<1> QED BY <1>1, <1>2
\* A write of the one writer is done and acknowledged.
LEMMA AdvancedWrite ==
    ASSUME OneWriter, ProjectionInv, StoresInv', NEW s \in Writers,
           pc[s] \in {"write", "upsert"}, Advance(s), Settles(s),
           UNCHANGED <<log, status>>,
           Visible' = Effect(Visible, Head(todo[s]))
    PROVE  ProjectionInv'
<1> DEFINE H == WritesOf(log)
<1>1. /\ s \in Stores /\ ControlTypes /\ ControlOK(s) /\ log \in Seq(Events)
      /\ settled \in BOOLEAN
      /\ ReplayOK(s) /\ DirectOK(s) /\ EmitOK(s) /\ status # None
  BY WriterFacts
<1>2. todo[s] # <<>> /\ job[s] \in {"direct", "emit", "replay"}
  BY <1>1 DEF ControlOK
<1>3. H \in Seq(Write)
  BY <1>1, LogIsEvents, WritesOfType
<1> HIDE DEF H
<1>4. ASSUME HoldsPrefix(s)
      PROVE  \E n \in 1 .. Len(H) :
                /\ Visible' = GraphOf(SubSeq(H, 1, n))
                /\ Tail(todo[s]) = SubSeq(H, n + 1, Len(H))
                /\ Len(todo[s]) = Len(H) - n + 1
  BY <1>1, <1>2, <1>4, PrefixGrows DEF H
<1>5. CASE Len(todo[s]) = 1 /\ job[s] # "replay"
  <2>1. job'[s] = "none" /\ outcome'[s] = "ok"
    BY <1>1, <1>5 DEF Advance, Returns, ControlTypes
  <2>2. settled' => settled
    BY <1>5 DEF Settles
  <2>3. ReplayOK(s)' /\ DirectOK(s)' /\ EmitOK(s)'
    BY <2>1 DEF ReplayOK, DirectOK, EmitOK
  <2>4. SettledOK'
    <3> SUFFICES ASSUME status = "ready", settled
                 PROVE  Visible' = GraphOf(WritesOf(log'))
      BY <2>2 DEF SettledOK
    <3>1. job[s] = "emit"
      BY <1>1, <1>2, <1>5 DEF DirectOK
    <3>2. PICK n \in 1 .. Len(H) :
             /\ Visible' = GraphOf(SubSeq(H, 1, n))
             /\ Len(todo[s]) = Len(H) - n + 1
      BY <1>1, <1>4, <3>1 DEF EmitOK
    <3>3. n = Len(H)
      <4>1. Len(H) \in Nat
        BY <1>3
      <4>2. 1 = Len(H) - n + 1
        BY <1>5, <3>2
      <4> HIDE DEF H
      <4> QED BY <4>1, <4>2
    <3>4. Visible' = GraphOf(H)
      BY <1>3, <3>2, <3>3, GraphOfWhole
    <3> QED BY <3>4 DEF H
  <2> QED BY <1>1, <2>3, <2>4, OneWriterParts
<1>6. CASE ~(Len(todo[s]) = 1 /\ job[s] # "replay")
  <2>1. /\ pc'[s] \in {"ready", "check"}
        /\ job'[s] = job[s] /\ todo'[s] = Tail(todo[s])
    BY <1>1, <1>6 DEF Advance, ControlTypes
  <2>2. settled' => settled
    BY <1>2, <2>1 DEF Settles
  <2>3. HoldsPrefix(s) => HoldsPrefix(s)'
    <3> SUFFICES ASSUME HoldsPrefix(s) PROVE HoldsPrefix(s)'
      OBVIOUS
    <3>1. PICK n \in 1 .. Len(H) :
             /\ Visible' = GraphOf(SubSeq(H, 1, n))
             /\ Tail(todo[s]) = SubSeq(H, n + 1, Len(H))
      BY <1>4
    <3>2. n \in 0 .. Len(H)
      BY <1>3
    <3>3. \E k \in 0 .. Len(H) :
             /\ Visible' = GraphOf(SubSeq(H, 1, k))
             /\ todo'[s] = SubSeq(H, k + 1, Len(H))
      BY <2>1, <3>1, <3>2
    <3>4. H = WritesOf(log')
      BY DEF H
    <3> QED BY <3>3, <3>4 DEF HoldsPrefix
  <2>4. ReplayOK(s)'
    <3> SUFFICES ASSUME job'[s] = "replay"
                 PROVE  /\ status' = "rebuilding"
                        /\ HoldsPrefix(s)' /\ ~Compacted(log')
      BY <2>1 DEF ReplayOK
    <3>1. /\ status = "rebuilding"
          /\ HoldsPrefix(s) /\ ~Compacted(log)
      BY <1>1, <2>1 DEF ReplayOK
    <3> QED BY <2>3, <3>1
  <2>5. DirectOK(s)' /\ EmitOK(s)'
    BY <1>1, <2>1, <2>2, <2>3 DEF DirectOK, EmitOK
  <2>6. SettledOK'
    <3> SUFFICES ASSUME status = "ready", settled, job'[s] # "emit"
                 PROVE  FALSE
      BY <2>2 DEF SettledOK
    <3> QED BY <1>1, <1>2, <2>1 DEF DirectOK, ReplayOK
  <2> QED BY <1>1, <2>4, <2>5, <2>6, OneWriterParts
<1> QED BY <1>5, <1>6

\* The call goes from one of the queries of a write to the next.
LEMMA WriteContinues ==
    ASSUME OneWriter, ProjectionInv, StoresInv', NEW s \in Writers,
           NEW p \in {"write", "upsert"}, pc[s] \in {"check", "write"},
           Goto(s, p), Settles(s), UNCHANGED <<log, status>>,
           Visible' = Visible
    PROVE  ProjectionInv'
<1>1. /\ s \in Stores /\ ControlTypes /\ ControlOK(s) /\ settled \in BOOLEAN
      /\ ReplayOK(s) /\ DirectOK(s) /\ EmitOK(s) /\ SettledOK /\ status # None
  BY WriterFacts
<1>2. job[s] \in {"direct", "emit", "replay"}
  BY <1>1 DEF ControlOK
<1>3. pc'[s] = p /\ job'[s] = job[s] /\ todo'[s] = todo[s]
  BY <1>1 DEF Goto, ControlTypes
<1>4. settled' => settled
  BY <1>2, <1>3 DEF Settles
<1>5. HoldsPrefix(s) => HoldsPrefix(s)'
  BY <1>3 DEF HoldsPrefix
<1>6. ReplayOK(s)'
  <2> SUFFICES ASSUME job'[s] = "replay"
               PROVE  /\ status' = "rebuilding"
                      /\ HoldsPrefix(s)' /\ ~Compacted(log')
    BY <1>3 DEF ReplayOK
  <2>1. status = "rebuilding" /\ HoldsPrefix(s) /\ ~Compacted(log)
    BY <1>1, <1>3 DEF ReplayOK
  <2> QED BY <1>5, <2>1
<1>7. DirectOK(s)' /\ EmitOK(s)'
  BY <1>1, <1>3, <1>4, <1>5 DEF DirectOK, EmitOK
<1>8. SettledOK'
  <2> SUFFICES ASSUME status = "ready", settled, job'[s] # "emit"
               PROVE  FALSE
    BY <1>4 DEF SettledOK
  <2> QED BY <1>1, <1>2, <1>3 DEF DirectOK, ReplayOK
<1> QED BY <1>1, <1>6, <1>7, <1>8, OneWriterParts

\* A replay goes on, with the status rebuilding.
LEMMA ReplayContinues ==
    ASSUME OneWriter, ProjectionInv, StoresInv', NEW s \in Writers,
           job'[s] = "replay", status' = "rebuilding", ReplayOK(s)'
    PROVE  ProjectionInv'
<1>1. status' # None /\ status' # "ready"
  BY ContentsAssumption DEF Statuses
<1>2. DirectOK(s)' /\ EmitOK(s)' /\ SettledOK'
  BY <1>1 DEF DirectOK, EmitOK, SettledOK
<1> QED BY <1>1, <1>2, OneWriterParts

\* A clear that no event stands behind goes on or ends.
LEMMA DirectContinues ==
    ASSUME OneWriter, ProjectionInv, StoresInv', NEW s \in Writers,
           job'[s] \in {"none", "direct"}, status' # None, ~settled'
    PROVE  ProjectionInv'
<1>1. ReplayOK(s)' /\ DirectOK(s)' /\ EmitOK(s)' /\ SettledOK'
  BY DEF ReplayOK, DirectOK, EmitOK, SettledOK
<1> QED BY <1>1, OneWriterParts
\* The steps of the calls in progress.
LEMMA ProjectionInvStoreStep ==
    ASSUME OneWriter, ProjectionInv, StoresInv', NEW s \in Stores,
           StoreStep(s), Settles(s), log' = log
    PROVE  ProjectionInv'
<1>1. /\ StoresInv /\ ControlTypes /\ TablesOK /\ ControlOK(s)
      /\ settled \in BOOLEAN /\ log \in Seq(Events)
  BY ProjectionInvParts, StoresInvParts
<1>2. Moves(s)
  BY <1>1, StoreStepMoves
<1>3. None \notin Statuses
  BY ContentsAssumption
<1>4. CASE EnsureProjectionRecord(s)
  <2>1. job[s] = "none"
    BY <1>1, <1>4 DEF EnsureProjectionRecord, ControlOK
  <2>2. job'[s] = "none" /\ UNCHANGED <<vertex, relation, patch>>
    BY <1>1, <1>4, <2>1 DEF EnsureProjectionRecord, Goto, ControlTypes, tables
  <2>3. settled' = settled
    BY <1>1, <2>1, <2>2 DEF Settles
  <2>4. /\ \/ status' = status
           \/ status = None /\ status' = "ready"
        /\ status' # None
    BY <1>3, <1>4 DEF EnsureProjectionRecord, Statuses
  <2> QED BY <1>2, <2>1, <2>2, <2>3, <2>4, Bystander
<1>5. CASE ServeRead(s)
  <2>1. job[s] = "read" /\ pc[s] = "read"
    BY <1>1, <1>5 DEF ServeRead, ControlOK
  <2>2. /\ job'[s] = "none"
        /\ UNCHANGED <<status, vertex, relation, patch>>
    BY <1>1, <1>5 DEF ServeRead, Returns, ControlTypes, tables
  <2>3. settled' = settled
    BY <1>1, <2>1 DEF Settles
  <2>4. status # None
    BY <2>1, ProjectionInvParts DEF AbsentOK
  <2> QED BY <1>2, <2>1, <2>2, <2>3, <2>4, Bystander
<1>6. SUFFICES ASSUME ~EnsureProjectionRecord(s), ~ServeRead(s)
               PROVE  ProjectionInv'
  BY <1>4, <1>5
<1>7. /\ pc[s] \in {"check", "write", "upsert", "rebuild", "del_relation",
                    "del_patch", "del_vertex", "ready", "failing"}
      /\ job[s] \in {"direct", "emit", "replay"} /\ s \in Writers
  <2>1. pc[s] \in {"check", "write", "upsert", "rebuild", "del_relation",
                   "del_patch", "del_vertex", "ready", "failing"}
    BY <1>6 DEF StoreStep, AssertWritable, PutObject, RemoveObject,
          PutPlaceholder, PutRelation, RemoveRelation, PutPatch, RemovePatch,
          Writing, BeginRebuild, ClearRelations, ClearPatches, ClearVertices,
          MarkReady, MarkFailed
  <2> QED BY <1>1, <2>1 DEF ControlOK
<1>8. /\ ReplayOK(s) /\ DirectOK(s) /\ EmitOK(s) /\ SettledOK
      /\ status # None
  BY <1>7, WriterFacts
<1>9. ASSUME Raises(s), status' = status,
             pc[s] \notin {"rebuild", "failing"}
      PROVE  ProjectionInv'
  <2>1. settled' => settled /\ job[s] # "emit"
    BY <1>1, <1>9, RaisesUnsettles
  <2>2. job[s] = "replay" => status' # "ready"
    BY <1>8, <1>9 DEF ReplayOK
  <2> QED BY <1>7, <1>8, <1>9, <2>1, <2>2, RaisedWrite
<1>10. CASE AssertWritable(s)
  <2>1. pc[s] = "check" /\ UNCHANGED <<status, vertex, relation, patch>>
    BY <1>10 DEF AssertWritable, tables
  <2>2. CASE Goto(s, "write")
    BY <1>7, <2>1, <2>2, SameTables, WriteContinues
  <2>3. CASE Raises(s)
    BY <1>9, <2>1, <2>3
  <2> QED BY <1>10, <2>2, <2>3 DEF AssertWritable
<1>11. CASE \/ PutObject(s) \/ PutPlaceholder(s) \/ PutRelation(s)
            \/ RemoveRelation(s) \/ PutPatch(s) \/ RemovePatch(s)
  <2>1. /\ pc[s] \in {"write", "upsert"} /\ status' = status
        /\ Advance(s) \/ Raises(s)
    BY <1>11 DEF PutObject, PutPlaceholder, PutRelation, RemoveRelation,
                 PutPatch, RemovePatch, Writing, Done
  <2>2. Visible' = Effect(Visible, Head(todo[s]))
    BY <1>1, <1>11, WriteHasEffect
  <2>3. CASE Advance(s)
    BY <1>7, <2>1, <2>2, <2>3, AdvancedWrite
  <2>4. CASE Raises(s)
    BY <1>9, <2>1, <2>4
  <2> QED BY <2>1, <2>3, <2>4
<1>12. CASE RemoveObject(s)
  <2>1. /\ pc[s] = "write" /\ UNCHANGED <<status, vertex, relation, patch>>
        /\ Writing(s, "remove_object")
    BY <1>12 DEF RemoveObject, Writing, tables
  <2>2. CASE vertex[Head(todo[s]).id] = None
    <3>1. Advance(s)
      BY <1>12, <2>2 DEF RemoveObject
    <3>2. Visible' = Effect(Visible, Head(todo[s]))
      BY <1>1, <2>1, <2>2, SameTables, AbsentObjectHasNoEffect
    <3> QED BY <1>7, <2>1, <3>1, <3>2, AdvancedWrite
  <2>3. CASE vertex[Head(todo[s]).id] # None
    <3>1. Goto(s, "upsert")
      BY <1>12, <2>3 DEF RemoveObject
    <3> QED BY <1>7, <2>1, <3>1, SameTables, WriteContinues
  <2> QED BY <2>2, <2>3
<1>13. CASE BeginRebuild(s)
  <2>1. job[s] = "replay" /\ status' = "rebuilding" /\ status' # None
    BY <1>1, <1>3, <1>13 DEF BeginRebuild, ControlOK, Statuses
  <2>2. CASE Goto(s, "del_relation")
    <3>1. pc'[s] = "del_relation" /\ job'[s] = "replay"
      BY <1>1, <1>7, <2>1, <2>2 DEF Goto, ControlTypes
    <3>2. ReplayOK(s)'
      BY <2>1, <3>1 DEF ReplayOK
    <3> QED BY <1>7, <2>1, <3>1, <3>2, ReplayContinues
  <2>3. CASE Raises(s)
    <3>1. settled' => settled /\ job[s] # "emit"
      BY <1>1, <2>3, RaisesUnsettles
    <3> QED BY <1>7, <2>1, <2>3, <3>1, RaisedWrite
  <2> QED BY <1>13, <2>2, <2>3 DEF BeginRebuild
<1>14. CASE ClearRelations(s) \/ ClearPatches(s) \/ ClearVertices(s)
  <2>1. /\ pc[s] \in {"del_relation", "del_patch", "del_vertex"}
        /\ status' = status
    BY <1>14 DEF ClearRelations, ClearPatches, ClearVertices
  <2>2. job[s] \in {"direct", "replay"}
    BY <1>1, <2>1 DEF ControlOK
  <2>3. CASE Raises(s)
    BY <1>9, <2>1, <2>3
  <2>4. CASE ~Raises(s) /\ job[s] = "direct"
    <3>1. job'[s] \in {"none", "direct"}
      BY <1>1, <1>14, <2>4 DEF ClearRelations, ClearPatches, ClearVertices,
             Cleared, Goto, Returns, ControlTypes
    <3>2. ~settled'
      BY <1>8, <2>4 DEF Settles, DirectOK
    <3> QED BY <1>7, <1>8, <2>1, <3>1, <3>2, DirectContinues
  <2>5. CASE ~Raises(s) /\ job[s] = "replay"
    <3>1. status = "rebuilding"
      BY <1>8, <2>1, <2>5 DEF ReplayOK
    <3>2. CASE ClearRelations(s)
      <4>1. /\ pc'[s] = "del_patch" /\ job'[s] = "replay"
            /\ relation' = [k \in Relations |-> None]
        BY <1>1, <2>5, <3>2 DEF ClearRelations, Goto, ControlTypes
      <4>2. ReplayOK(s)'
        BY <2>1, <3>1, <4>1 DEF ReplayOK, EmptyGraph
      <4> QED BY <1>7, <2>1, <3>1, <4>1, <4>2, ReplayContinues
    <3>3. CASE ClearPatches(s)
      <4>1. /\ pc'[s] = "del_vertex" /\ job'[s] = "replay"
            /\ patch' = [p \in Patches |-> None] /\ relation' = relation
            /\ pc[s] = "del_patch"
        BY <1>1, <2>5, <3>3 DEF ClearPatches, Goto, ControlTypes
      <4>2. relation' = EmptyGraph.relation
        BY <1>8, <2>5, <4>1 DEF ReplayOK
      <4>3. ReplayOK(s)'
        BY <2>1, <3>1, <4>1, <4>2 DEF ReplayOK, EmptyGraph
      <4> QED BY <1>7, <2>1, <3>1, <4>1, <4>3, ReplayContinues
    <3>4. CASE ClearVertices(s)
      <4>1. /\ pc'[s] = "events" /\ job'[s] = "replay"
            /\ vertex' = [o \in Objects |-> None]
            /\ relation' = [k \in Relations |-> None]
            /\ patch' = patch
            /\ pc[s] = "del_vertex"
        BY <1>1, <2>5, <3>4 DEF ClearVertices, Cleared, Goto, ControlTypes
      <4>2. patch = [p \in Patches |-> None]
        BY <1>8, <2>5, <4>1 DEF ReplayOK, EmptyGraph
      <4>3. Visible' = EmptyGraph
        BY <4>1, <4>2 DEF Visible, EmptyGraph
      <4>4. ReplayOK(s)'
        BY <2>1, <3>1, <4>1, <4>3 DEF ReplayOK
      <4> QED BY <1>7, <2>1, <3>1, <4>1, <4>4, ReplayContinues
    <3> QED BY <1>14, <3>2, <3>3, <3>4
  <2> QED BY <2>2, <2>3, <2>4, <2>5
<1>15. CASE MarkReady(s)
  <2>1. /\ job[s] = "replay" /\ todo[s] = <<>> /\ pc[s] = "ready"
        /\ status' = "ready" /\ UNCHANGED <<vertex, relation, patch>>
    BY <1>1, <1>15 DEF MarkReady, ControlOK, tables
  <2>2. HoldsPrefix(s)
    BY <1>8, <2>1 DEF ReplayOK
  <2>3. Visible' = GraphOf(WritesOf(log)) /\ status' # None
    BY <1>1, <1>3, <2>1, <2>2, PrefixIsWhole, SameTables DEF Statuses
  <2>4. CASE Returns(s, "ok")
    <3>1. job'[s] = "none"
      BY <1>1, <1>7, <2>4 DEF Returns, ControlTypes
    <3>2. ReplayOK(s)' /\ DirectOK(s)' /\ EmitOK(s)'
      BY <3>1 DEF ReplayOK, DirectOK, EmitOK
    <3>3. SettledOK'
      BY <2>3 DEF SettledOK
    <3> QED BY <1>7, <2>3, <3>2, <3>3, OneWriterParts
  <2>5. CASE Raises(s)
    <3>1. settled' => settled /\ job[s] # "emit"
      BY <1>1, <2>5, RaisesUnsettles
    <3> QED BY <1>7, <2>3, <2>5, <3>1, RaisedWrite
  <2> QED BY <1>15, <2>4, <2>5 DEF MarkReady
<1>16. CASE MarkFailed(s)
  <2>1. /\ job[s] = "replay" /\ UNCHANGED <<vertex, relation, patch>>
        /\ status' \in {status, "failed"}
    BY <1>1, <1>16 DEF MarkFailed, ControlOK, tables
  <2>2. job'[s] = "none" /\ outcome'[s] # "ok"
    BY <1>1, <1>16 DEF MarkFailed, Returns, ControlTypes
  <2>3. settled' => settled
    BY <2>1, <2>2 DEF Settles
  <2>4. ReplayOK(s)' /\ DirectOK(s)' /\ EmitOK(s)'
    BY <2>2 DEF ReplayOK, DirectOK, EmitOK
  <2>5. SettledOK'
    <3> SUFFICES ASSUME status = "ready", settled
                 PROVE  Visible' = GraphOf(WritesOf(log'))
      BY <2>1, <2>3 DEF SettledOK
    <3>1. \A t \in Writers : job[t] # "emit"
      BY <1>7, <2>1 DEF OneWriter
    <3> QED BY <1>8, <2>1, <3>1, SameTables DEF SettledOK
  <2>6. status' # None
    BY <1>3, <1>8, <2>1 DEF Statuses
  <2> QED BY <1>7, <2>4, <2>5, <2>6, OneWriterParts
<1> QED BY <1>6, <1>10, <1>11, <1>12, <1>13, <1>14, <1>15, <1>16 DEF StoreStep
\* The replay reads the log into its empty tables.
LEMMA ProjectionInvReadEvents ==
    ASSUME OneWriter, ProjectionInv, StoresInv', NEW s \in Stores,
           ReadEvents(s)
    PROVE  ProjectionInv'
<1> DEFINE H == WritesOf(log)
<1>1. /\ StoresInv /\ ControlTypes /\ ControlOK(s)
      /\ settled \in BOOLEAN /\ log \in Seq(Events)
  BY ProjectionInvParts, StoresInvParts
<1>2. /\ pc[s] = "events" /\ job[s] = "replay" /\ s \in Writers
      /\ UNCHANGED <<status, vertex, relation, patch, log, settled>>
  BY <1>1 DEF ReadEvents, ControlOK, tables
<1>3. ReplayOK(s) /\ status # None
  BY <1>2, WriterFacts
<1>4. status = "rebuilding" /\ Visible = EmptyGraph /\ Visible' = Visible
  BY <1>2, <1>3, SameTables DEF ReplayOK
<1>5. CASE Raises(s)
  BY <1>2, <1>3, <1>4, <1>5, RaisedWrite
<1>6. CASE ~Raises(s)
  <2>1. H \in Seq(Write)
    BY <1>1, LogIsEvents, WritesOfType
  <2>2. /\ pc'[s] \in {"ready", "check"} /\ job'[s] = "replay"
        /\ todo'[s] = H /\ ~Compacted(log)
    BY <1>1, <1>2, <1>6 DEF ReadEvents, ControlTypes
  <2> HIDE DEF H
  <2>3. /\ 0 \in 0 .. Len(H) /\ 0 + 1 = 1
        /\ SubSeq(H, 1, Len(H)) = H
    BY <2>1
  <2>4. GraphOf(SubSeq(H, 1, 0)) = EmptyGraph
    BY <2>1, GraphOfSteps, Zenon
  <2>5. \E n \in 0 .. Len(H) :
           /\ Visible' = GraphOf(SubSeq(H, 1, n))
           /\ todo'[s] = SubSeq(H, n + 1, Len(H))
    BY <1>4, <2>2, <2>3, <2>4
  <2>6. H = WritesOf(log')
    BY <1>2 DEF H
  <2>7. HoldsPrefix(s)'
    BY <2>5, <2>6 DEF HoldsPrefix
  <2>8. ReplayOK(s)'
    BY <1>2, <1>4, <2>2, <2>7 DEF ReplayOK
  <2> QED BY <1>2, <1>4, <2>2, <2>8, ReplayContinues
<1> QED BY <1>5, <1>6

\* A query fails, or the store is closed.
LEMMA ProjectionInvInterrupt ==
    ASSUME OneWriter, ProjectionInv, StoresInv', NEW s \in Stores,
           Interrupt(s)
    PROVE  ProjectionInv'
<1>1. /\ StoresInv /\ ControlTypes /\ ControlOK(s)
      /\ settled \in BOOLEAN /\ AbsentOK
  BY ProjectionInvParts, StoresInvParts
<1>2. /\ UNCHANGED <<status, vertex, relation, patch, log>>
      /\ Settles(s) /\ Moves(s) /\ Visible' = Visible
  BY <1>1, InterruptMoves, SameTables
     DEF Interrupt, QueryFails, Close, tables
<1>3. CASE job[s] \in {"none", "read"}
  <2>1. /\ job'[s] \in {"none", "read"}
        /\ pc'[s] \in {"closed", "idle"}
    BY <1>1, <1>3 DEF Interrupt, QueryFails, Close, Raises, Returns,
                      ControlTypes
  <2>2. settled' = settled
    BY <1>1, <1>2, <1>3 DEF Settles
  <2>3. status = None => pc'[s] = "closed"
    BY <1>1 DEF AbsentOK, Interrupt, QueryFails, Close, ControlTypes
  <2> QED BY <1>2, <1>3, <2>1, <2>2, <2>3, Bystander
<1>4. CASE job[s] \notin {"none", "read"}
  <2>1. job[s] \in {"direct", "emit", "replay"} /\ s \in Writers
    BY <1>1, <1>4 DEF ControlTypes, ControlOK
  <2>2. pc[s] \notin {"closed", "create", "idle", "read"}
    BY <1>1, <1>4 DEF ControlOK
  <2>3. ReplayOK(s) /\ DirectOK(s) /\ EmitOK(s) /\ SettledOK /\ status # None
    BY <2>1, <2>2, WriterFacts
  <2>4. job[s] # "emit" => \A t \in Writers : job[t] # "emit"
    BY <2>1 DEF OneWriter
  <2>5. CASE QueryFails(s)
    <3>1. Raises(s)
      BY <2>2, <2>5 DEF QueryFails
    <3>2. settled' => settled /\ job[s] # "emit"
      BY <1>1, <1>2, <3>1, RaisesUnsettles
    <3>3. status' = "ready" /\ settled /\ job[s] = "replay" =>
             Visible' = GraphOf(WritesOf(log))
      BY <1>2, <2>3, <2>4 DEF SettledOK
    <3> QED BY <1>2, <2>1, <2>3, <3>1, <3>2, <3>3, RaisedWrite
  <2>6. CASE Close(s)
    <3>1. job'[s] = "none" /\ outcome'[s] = "none"
      BY <1>1, <2>6 DEF Close, ControlTypes
    <3>2. settled' => settled /\ job[s] # "emit"
      BY <1>2, <3>1 DEF Settles
    <3>3. ReplayOK(s)' /\ DirectOK(s)' /\ EmitOK(s)'
      BY <3>1 DEF ReplayOK, DirectOK, EmitOK
    <3>4. SettledOK'
      BY <1>2, <2>3, <2>4, <3>2 DEF SettledOK
    <3> QED BY <1>2, <2>1, <2>3, <3>3, <3>4, OneWriterParts
  <2> QED BY <2>5, <2>6 DEF Interrupt
<1> QED BY <1>3, <1>4

\* A store is opened, or reads.
LEMMA ProjectionInvReader ==
    ASSUME ProjectionInv, StoresInv', NEW s \in Stores,
           \/ Open(s)
           \/ StartRead(s) /\ UNCHANGED <<log, current, settled>>
    PROVE  ProjectionInv'
<1>1. /\ StoresInv /\ ControlTypes /\ ControlOK(s) /\ AbsentOK
  BY ProjectionInvParts, StoresInvParts
<1>2. job[s] = "none" /\ todo[s] = <<>>
  BY <1>1 DEF Open, OpenStore, StartRead, ControlOK
<1>3. UNCHANGED <<status, vertex, relation, patch, log, settled>>
  BY DEF Open, OpenStore, StartRead, tables
<1>4. job'[s] \in {"none", "read"}
  BY <1>1, <1>2 DEF Open, OpenStore, Goto, StartRead, Returns, ControlTypes
<1>5. \A t \in Stores \ {s} :
         pc'[t] = pc[t] /\ job'[t] = job[t] /\ todo'[t] = todo[t]
  BY <1>1 DEF Open, OpenStore, Goto, StartRead, Returns, ControlTypes
<1>6. Moves(s)
  BY <1>5 DEF Moves, StoresInv, TypeOK, StoreTypeOK, ControlTypes
<1>7. status = None => pc'[s] \in {"closed", "create"}
  BY <1>1 DEF AbsentOK, Open, OpenStore, Goto, StartRead, ControlTypes
<1> QED BY <1>2, <1>3, <1>4, <1>6, <1>7, Bystander

\* The calls of the writer begin.
LEMMA ProjectionInvWriter ==
    ASSUME OneWriter, ProjectionInv, StoresInv', NEW s \in Writers,
           \/ \E e \in Events : Emit(s, e) \/ EmitUnheard(s, e)
           \/ EmitRejected(s)
           \/ \E w \in DirectWrites : DirectWrite(s, w)
           \/ DirectClear(s)
           \/ Truncate(s)
           \/ StartReplay(s)
    PROVE  ProjectionInv'
<1>1. /\ s \in Stores /\ ControlTypes /\ ControlOK(s) /\ log \in Seq(Events)
      /\ SettledOK
  BY WriterFacts
<1>2. pc[s] = "idle"
  BY DEF Emit, StartWrites, EmitUnheard, EmitRejected, DirectWrite,
         DirectClear, StartJob, Truncate, StartReplay
<1>3. job[s] = "none" /\ status # None
  BY <1>1, <1>2, WriterFacts DEF ControlOK
<1>4. UNCHANGED <<status, vertex, relation, patch>>
  BY DEF Emit, StartWrites, EmitUnheard, EmitRejected, DirectWrite,
         DirectClear, StartJob, Truncate, StartReplay, tables, storeVars
<1>5. Visible' = Visible
  BY <1>4, SameTables
<1>6. \A t \in Writers : job[t] # "emit"
  BY <1>3 DEF OneWriter
<1>7. CASE \E e \in Events : Emit(s, e)
  <2>1. PICK e \in Events : Emit(s, e)
    BY <1>7
  <2> DEFINE H == WritesOf(log)
             ws == e.writes
  <2>2. e \in Event /\ ws \in Seq(Write)
    BY ReplayAssumption DEF Event
  <2>3. H \in Seq(Write)
    BY <1>1, LogIsEvents, WritesOfType
  <2>4. WritesOf(log') = H \o ws
    BY <1>1, <2>1, <2>2, LogIsEvents, WritesOfAppend DEF Emit
  <2>5. /\ job'[s] = IF ws = <<>> THEN "none" ELSE "emit"
        /\ todo'[s] = ws /\ settled' = settled
    BY <1>1, <2>1 DEF Emit, StartWrites, ControlTypes
  <2>6. status' = "ready" /\ settled' => Visible' = GraphOf(H)
    BY <1>1, <1>4, <1>5, <1>6, <2>5 DEF SettledOK
  <2> HIDE DEF H, ws
  <2>7. ReplayOK(s)' /\ DirectOK(s)'
    BY <2>5 DEF ReplayOK, DirectOK
  <2>8. EmitOK(s)'
    <3> SUFFICES ASSUME status' = "ready", settled' PROVE HoldsPrefix(s)'
      BY DEF EmitOK
    <3> DEFINE L == H \o ws
    <3>1. /\ Len(H) \in 0 .. Len(L)
          /\ SubSeq(L, 1, Len(H)) = H
          /\ SubSeq(L, Len(H) + 1, Len(L)) = ws
      BY <2>2, <2>3
    <3> HIDE DEF L
    <3>2. \E n \in 0 .. Len(L) :
             /\ Visible' = GraphOf(SubSeq(L, 1, n))
             /\ todo'[s] = SubSeq(L, n + 1, Len(L))
      BY <2>5, <2>6, <3>1
    <3>3. L = WritesOf(log')
      BY <2>4 DEF L
    <3> QED BY <3>2, <3>3 DEF HoldsPrefix
  <2>9. SettledOK'
    <3> SUFFICES ASSUME status' = "ready", settled', job'[s] # "emit"
                 PROVE  Visible' = GraphOf(WritesOf(log'))
      BY DEF SettledOK
    <3>1. ws = <<>>
      BY <2>5
    <3>2. H \o ws = H
      BY <2>3, <3>1
    <3> QED BY <2>4, <2>6, <3>2
  <2> QED BY <1>3, <1>4, <2>7, <2>8, <2>9, OneWriterParts
<1>8. CASE EmitRejected(s)
  <2>1. /\ job'[s] = "none" /\ UNCHANGED <<log, settled>>
    BY <1>1, <1>8 DEF EmitRejected, Returns, ControlTypes
  <2>2. Moves(s)
    BY <1>1, <1>8, ReturnsMoves DEF EmitRejected
  <2> QED BY <1>1, <1>3, <1>4, <2>1, <2>2, Bystander
<1>9. CASE \/ \E e \in Events : EmitUnheard(s, e)
           \/ \E w \in DirectWrites : DirectWrite(s, w)
           \/ DirectClear(s)
           \/ Truncate(s)
  <2>1. job'[s] \in {"none", "direct"}
    BY <1>1, <1>3, <1>9 DEF EmitUnheard, Returns, DirectWrite, StartWrites,
         DirectClear, StartJob, Truncate, storeVars, ControlTypes
  <2>2. ~settled'
    BY <1>9 DEF EmitUnheard, DirectWrite, DirectClear, Truncate
  <2> QED BY <1>3, <1>4, <2>1, <2>2, DirectContinues
<1>10. CASE StartReplay(s)
  <2>1. /\ pc'[s] = "rebuild" /\ job'[s] = "replay"
        /\ UNCHANGED <<log, settled>>
    BY <1>1, <1>10 DEF StartReplay, StartJob, ControlTypes
  <2>2. ReplayOK(s)' /\ DirectOK(s)' /\ EmitOK(s)'
    BY <2>1 DEF ReplayOK, DirectOK, EmitOK
  <2>3. SettledOK'
    BY <1>1, <1>4, <1>5, <1>6, <2>1 DEF SettledOK
  <2> QED BY <1>3, <1>4, <2>2, <2>3, OneWriterParts
<1> QED BY <1>7, <1>8, <1>9, <1>10

\* Every initial state.
LEMMA ProjectionInvInit == Init => ProjectionInv
<1> SUFFICES ASSUME Init PROVE ProjectionInv
  OBVIOUS
<1>1. status = None /\ None # "ready"
  BY ContentsAssumption DEF Init, StoreInit, Statuses
<1>2. \A s \in Stores : pc[s] = "closed" /\ job[s] = "none"
  BY DEF Init, StoreInit
<1>3. Visible = EmptyGraph /\ (settled => log = <<>>)
  BY DEF Init, StoreInit, Visible, EmptyGraph
<1>4. AbsentOK /\ SettledOK
  BY <1>1, <1>2, <1>3 DEF AbsentOK, SettledOK
<1>5. \A s \in Writers : ReplayOK(s) /\ DirectOK(s) /\ EmitOK(s)
  BY <1>1, <1>2, ReplayAssumption DEF ReplayOK, DirectOK, EmitOK
<1> QED BY <1>4, <1>5, StoresInvInit, ProjectionInvParts

\* Every step, and none.
LEMMA ProjectionInvNext ==
    ASSUME OneWriter, ProjectionInv, [Next]_vars
    PROVE  ProjectionInv'
<1>1. StoresInv'
  BY ProjectionInvParts, StoresInvNext
<1>2. CASE \E s \in Stores :
              \/ Continue(s)
              \/ Interrupt(s)
              \/ Open(s)
              \/ StartRead(s) /\ UNCHANGED <<log, current, settled>>
  <2>1. PICK s \in Stores :
           \/ Continue(s)
           \/ Interrupt(s)
           \/ Open(s)
           \/ StartRead(s) /\ UNCHANGED <<log, current, settled>>
    BY <1>2
  <2>2. CASE Continue(s)
    BY <1>1, <2>2, ProjectionInvReadEvents, ProjectionInvStoreStep
       DEF Continue
  <2>3. CASE Interrupt(s)
    BY <1>1, <2>3, ProjectionInvInterrupt
  <2>4. CASE \/ Open(s)
             \/ StartRead(s) /\ UNCHANGED <<log, current, settled>>
    BY <1>1, <2>4, ProjectionInvReader
  <2> QED BY <2>1, <2>2, <2>3, <2>4
<1>3. CASE \E s \in Writers :
              \/ \E e \in Events : Emit(s, e) \/ EmitUnheard(s, e)
              \/ EmitRejected(s)
              \/ \E w \in DirectWrites : DirectWrite(s, w)
              \/ DirectClear(s)
              \/ Truncate(s)
              \/ StartReplay(s)
  BY <1>1, <1>3, ProjectionInvWriter
<1>4. CASE UNCHANGED vars
  <2>1. UNCHANGED <<status, vertex, relation, patch, pc, job, todo, log,
                    settled>>
    BY <1>4 DEF vars
  <2>2. Visible' = Visible
    BY <2>1, SameTables
  <2>3. \A s \in Writers : HoldsPrefix(s)' <=> HoldsPrefix(s)
    BY <2>1, <2>2 DEF HoldsPrefix
  <2>4. AbsentOK' /\ SettledOK'
    BY <2>1, <2>2, ProjectionInvParts DEF AbsentOK, SettledOK
  <2>5. \A s \in Writers : ReplayOK(s)' /\ DirectOK(s)' /\ EmitOK(s)'
    BY <2>1, <2>2, <2>3, ProjectionInvParts DEF ReplayOK, DirectOK, EmitOK
  <2> QED BY <1>1, <2>4, <2>5, ProjectionInvParts
<1> QED BY <1>2, <1>3, <1>4 DEF Next

\* While a run has one writer, its projection holds what ProjectionInv says,
\* through lost answers, failed queries, closed stores and failed replays
\* (emit, replay_graph, begin_rebuild, clear, mark_ready, mark_failed).
THEOREM ProjectionInvariant == Spec => []ProjectionInv
<1>1. ProjectionInv /\ [Next]_vars => ProjectionInv'
  BY ProjectionInvNext, OneWriterAssumption
<1> QED BY <1>1, ProjectionInvInit, PTL DEF Spec

\* A ready and quiet projection of a run with one writer shows the graph that
\* replaying the log gives, unless an event's projection failed or was bypassed since the last replay
\* (replay_graph, put_*, remove_*, clear).
THEOREM ReadyIsReplayed == Spec => []ReadyMeansReplayed
<1>1. ProjectionInv => ReadyMeansReplayed
  <2>1. ProjectionInv => SettledOK
    BY ProjectionInvParts
  <2> QED BY <2>1 DEF ReadyMeansReplayed, Quiet, SettledOK
<1> QED BY <1>1, ProjectionInvariant, PTL

\* A projection that is being rebuilt or whose rebuild failed becomes ready
\* only when a replay has applied the whole log to empty tables
\* (begin_rebuild, clear, replay_graph, _ensure_projection_record).
THEOREM RevivalIsReplay == Spec => RevivedOnlyByReplay
<1> DEFINE A == (status \in {"rebuilding", "failed"} /\ status' = "ready") =>
          /\ \E s \in Writers : job[s] = "replay" /\ pc[s] = "ready"
          /\ Visible' = GraphOf(WritesOf(log))
          /\ log # <<>> => log[1].type # "runtime.snapshot"
<1>1. ASSUME ProjectionInv, [Next]_vars PROVE A
  <2> SUFFICES ASSUME status \in {"rebuilding", "failed"}, status' = "ready"
               PROVE  /\ \E s \in Writers : job[s] = "replay" /\ pc[s] = "ready"
                      /\ Visible' = GraphOf(WritesOf(log))
                      /\ log # <<>> => log[1].type # "runtime.snapshot"
    OBVIOUS
  <2>1. status # None /\ status' # status
    BY ContentsAssumption DEF Statuses
  <2>2. Next
    BY <1>1, <2>1 DEF vars
  <2>3. PICK s \in Stores : StoreStep(s)
    <3>1. ASSUME NEW s \in Writers,
                 \/ \E e \in Events : Emit(s, e) \/ EmitUnheard(s, e)
                 \/ EmitRejected(s)
                 \/ \E w \in DirectWrites : DirectWrite(s, w)
                 \/ DirectClear(s)
                 \/ Truncate(s)
                 \/ StartReplay(s)
          PROVE  FALSE
      BY <2>1, <3>1 DEF Emit, StartWrites, EmitUnheard, EmitRejected,
           DirectWrite, DirectClear, StartJob, Truncate, StartReplay, storeVars
    <3>2. ASSUME NEW s \in Stores,
                 \/ Interrupt(s) \/ Open(s) \/ StartRead(s) \/ ReadEvents(s)
          PROVE  FALSE
      BY <2>1, <3>2 DEF Interrupt, QueryFails, Close, Open, OpenStore,
           StartRead, ReadEvents
    <3> QED BY <2>2, <3>1, <3>2 DEF Next, Continue
  <2>4. MarkReady(s)
    BY <2>1, <2>3 DEF StoreStep, EnsureProjectionRecord, ServeRead,
         AssertWritable, PutObject, RemoveObject, PutPlaceholder, PutRelation,
         RemoveRelation, PutPatch, RemovePatch, BeginRebuild, ClearRelations,
         ClearPatches, ClearVertices, MarkFailed
  <2>5. /\ ControlOK(s) /\ log \in Seq(Events)
        /\ \A t \in Writers : ReplayOK(t)
    BY <1>1, ProjectionInvParts, StoresInvParts
  <2>6. /\ pc[s] = "ready" /\ job[s] = "replay" /\ todo[s] = <<>>
        /\ s \in Writers /\ UNCHANGED <<vertex, relation, patch>>
    BY <2>4, <2>5 DEF MarkReady, ControlOK, tables
  <2>7. HoldsPrefix(s) /\ ~Compacted(log)
    BY <2>5, <2>6 DEF ReplayOK
  <2>8. Visible' = GraphOf(WritesOf(log))
    BY <2>5, <2>6, <2>7, PrefixIsWhole, SameTables
  <2> QED BY <2>6, <2>7, <2>8 DEF Compacted
<1>2. ProjectionInv /\ [Next]_vars => A
  BY <1>1
<1>3. ProjectionInv /\ [Next]_vars => [A]_vars
  BY <1>2
<1> QED BY <1>3, ProjectionInvariant, PTL DEF Spec, RevivedOnlyByReplay
=============================================================================
