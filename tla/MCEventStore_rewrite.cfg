\* One run whose tail is cut off and replaced while others read, write and
\* relabel it.
CONSTANTS
    Handles = {h1, h2}
    Runs = {r1}
    EventIds = {e1, e2}
    EventTypes = {"runtime.snapshot", "object.created"}
    Labels = {l1}
    Patches <- LabelPatches
    None = None
SYMMETRY Symmetry
SPECIFICATION Spec
INVARIANTS IInv CutsAgree
PROPERTIES WritesOnObservedLog VerifiedReadIsAtomic
