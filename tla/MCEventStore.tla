---------------------------- MODULE MCEventStore ----------------------------
(* Instances of EventStore for TLC. *)
EXTENDS EventStoreInv, TLC

\* A reload upserts nothing but created_at.
ReloadPatches == {NoMeta}

\* A reload, and a caller that relabels the run.
LabelPatches == {NoMeta} \cup {[NoMeta EXCEPT !.label = l] : l \in Labels}

Symmetry == Permutations(Handles) \cup Permutations(Runs)
                \cup Permutations(EventIds)
=============================================================================
