SPECIFICATION Spec
CONSTANTS
    None = None
    Ids <- ThreeIds
    Relations = {k1, k2}
    Links <- FiveLinks
    Depths <- WalkDepths
    Disturbances = 2
INVARIANTS
    TypeOK
    NeighborhoodIsBracketed
    QueriesMatchMemory
    WalkInv
