SPECIFICATION FairSpec
CONSTANTS
    c1 = c1
    c2 = c2
    t1 = t1
    None = None
    Clients = {c1, c2}
    Threads = {t1}
    Workers = 1
    Settings <- MCSettings
INVARIANTS
    TypeOK
    InterimCodesAreUsers
    SuccessIsServed
    SilenceIsNoSuccess
PROPERTIES
    RequestsAreAnswered
    LoopComesBack
