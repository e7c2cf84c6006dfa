\* Two runs: a fork races appends, truncations, constructors and another fork.
CONSTANTS
    Handles = {h1, h2}
    Runs = {r1, r2}
    EventIds = {e1, e2}
    EventTypes = {"object.created"}
    Labels = {}
    Patches <- ReloadPatches
    None = None
SYMMETRY Symmetry
SPECIFICATION Spec
INVARIANTS LedgerIntact RInv
PROPERTIES WritesOnObservedLog ForkCopiesInclusivePrefix ImplementsEventLog
