SPECIFICATION Spec
CONSTANTS
    c1 = c1
    c2 = c2
    c3 = c3
    None = None
    Connections = {c1, c2, c3}
    release <- Releases
    Statements <- File
    InitialVersions <- FreshOrCurrent
INVARIANTS
    TypeOK
    VersionIsBacked
    NewerDatabaseIsRejected
    UpwardInv
