\* What LedgerIntegrityError is documented to mean.
CONSTANTS
    Handles = {h1, h2}
    Runs = {r1}
    EventIds = {e1}
    EventTypes = {"object.created"}
    Labels = {}
    Patches <- ReloadPatches
    None = None
SPECIFICATION Spec
INVARIANTS IntegrityErrorMeansDamage
