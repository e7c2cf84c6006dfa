------------------------------ MODULE MCSchema ------------------------------
(* Instances of module Schema for TLC. *)
EXTENDS Schema, TLC

CONSTANTS c1, c2, c3

\* Two connections of one release beside one of the next.
Releases == (c1 :> 2) @@ (c2 :> 2) @@ (c3 :> 3)

\* As in schema.surql, later additions stand beside the tables they extend.
File == <<1, 2, 3, 1, 2>>

\* A fresh database; one written by the older, the newer or a later release;
\* one that predates the supported minimum.
FreshOrCurrent == {None, 0, 2, 3, 4}

\* A database two releases behind the newer one.
FirstVersion == {1}

=============================================================================
