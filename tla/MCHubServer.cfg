SPECIFICATION ServerSpec
CONSTANTS
    Users = {u1}
    PermissionSets <- MCPermissionSets
    HttpRoutes = {"service", "permissions", "brainforge", "rename"}
    AccessTtl = 2
    RefreshTtl = 3
    MaxTokens = 2
    MaxPending = 2
    MaxTime = 2
    Names = {n1}
    Blank = blank
    TooLong = tooLong
    DefaultName = hub
    Adjectives = {a1, a2}
    Nouns = {w}
    Engines = {e1, e2}
    DefaultTts = d1
    DefaultStt = d2
    None = None
    Null = Null
SYMMETRY MCSymmetry
INVARIANTS
    ServerTypeOK
    NodeScope
    MemoryMatchesDisk
    ReportsEngines
PROPERTIES
    RenamedByAdministrator
    KeepsPromise
CHECK_DEADLOCK FALSE
