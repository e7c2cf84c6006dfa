SPECIFICATION FairSpec
CONSTANTS
    r1 = r1
    r2 = r2
    r3 = r3
    core = core
    mcp = mcp
    None = None
    Roots = {r1, r2, r3}
    Packs = {core, mcp}
    Provides <- SomePacks
    ModuleLists <- CoreFirst
    Polls = 3
INVARIANTS
    TypeOK
    HInv
    NoSocketLeaks
    PacksOfOneCheckout
PROPERTIES
    CallsEnd
