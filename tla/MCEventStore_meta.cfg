\* Labelled forks, reloads, relabelling and compacted logs; every call ends,
\* under weak fairness.
CONSTANTS
    Handles = {h1, h2}
    Runs = {r1, r2}
    EventIds = {e1}
    EventTypes = {"runtime.snapshot", "object.created"}
    Labels = {l1}
    Patches <- LabelPatches
    None = None
SPECIFICATION FairSpec
INVARIANTS TypeOK
PROPERTIES MetadataNeverCleared ImplementsEventLog CallsTerminate
