SPECIFICATION Spec
CONSTANTS
    Instances = {i1, i2}
    Users = {u1, u2}
    Clients = {c1}
    AccessTtl = 2
    RefreshTtl = 3
    MaxTokens = 2
    MaxTime = 2
    None = None
INVARIANTS
    TypeOK
    UncontendedIsStored
    TokensHaveUsers
PROPERTIES
    KeepsTokenStore
CHECK_DEADLOCK FALSE
