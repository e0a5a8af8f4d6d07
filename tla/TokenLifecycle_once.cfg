SPECIFICATION Spec
CONSTANTS
    Instances = {i1}
    Users = {u1}
    Clients = {c1}
    AccessTtl = 2
    RefreshTtl = 3
    MaxTokens = 3
    MaxTime = 1
    None = None
INVARIANTS
    RefreshOnce
CHECK_DEADLOCK FALSE
