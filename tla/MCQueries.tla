------------------------------ MODULE MCQueries -----------------------------
(* Instances of module Queries for TLC. *)
EXTENDS Queries

\* claim#1, task#2 and claim#3, whose lexicographic order is not the order of
\* their creation.
ThreeIds == <<[type |-> "claim", counter |-> 1, rank |-> 1],
              [type |-> "task", counter |-> 2, rank |-> 3],
              [type |-> "claim", counter |-> 3, rank |-> 2]>>

\* Both directions, a cycle of three and a loop.
FiveLinks ==
    {[source |-> ThreeIds[p[1]], target |-> ThreeIds[p[2]]] :
        p \in {<<1, 2>>, <<2, 3>>, <<3, 2>>, <<3, 1>>, <<2, 2>>}}

\* A negative depth is taken as zero.
WalkDepths == {-1, 1, 2}

=============================================================================
