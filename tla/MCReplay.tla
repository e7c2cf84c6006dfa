------------------------------ MODULE MCReplay ------------------------------
(* Instances of module Replay for TLC. *)
EXTENDS Replay, TLC

CONSTANTS s1, s2, o1, o2, k1, p1, v1, v2

Put(o, v) == [op |-> "put_object", id |-> o, value |-> v]
Remove(o) == [op |-> "remove_object", id |-> o]
Relate(a, b) ==
    [op |-> "put_relation", id |-> k1, value |-> [source |-> a, target |-> b]]

GraphEvent(ws) == [type |-> "graph", writes |-> ws]

\* Creating an object that is related to one that does not exist, changing and
\* removing it, undoing the rest; and a compacted log.
AllEvents ==
    {GraphEvent(<<Put(o1, v1), Relate(o1, o2)>>),
     GraphEvent(<<Put(o1, v2),
                  [op |-> "put_patch", id |-> p1, value |-> v2]>>),
     GraphEvent(<<Remove(o1)>>),
     GraphEvent(<<[op |-> "remove_relation", id |-> k1],
                  [op |-> "remove_patch", id |-> p1]>>),
     [type |-> "runtime.snapshot", writes |-> <<>>]}

OneEvent == {GraphEvent(<<Put(o1, v1)>>)}

\* A relation of an object that no event creates.
Ghosts == {Relate(o2, o2)}

=============================================================================
