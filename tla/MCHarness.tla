----------------------------- MODULE MCHarness ------------------------------
(* Instances of module Harness for TLC. *)
EXTENDS Harness, TLC

CONSTANTS r1, r2, r3, core, mcp

\* Two checkouts lack a pack each.
SomePacks == (r1 :> {core, mcp}) @@ (r2 :> {core}) @@ (r3 :> {mcp})

CoreFirst == {<<>>, <<core, mcp>>, <<core, core>>}

=============================================================================
