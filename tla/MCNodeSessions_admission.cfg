SPECIFICATION Spec
CONSTANTS
    c1 = c1
    c2 = c2
    n3 = n3
    s3 = s3
    None = None
    Clients = {c1, c2}
    NodeSockets = {n1, n3}
    StreamSockets = {s1, s2, s3}
    Consumers = {}
    Owner <- MCOwner
    MaxStreams = 1
    WaitSeconds = 1
    MaxChunks = 1
    Overlap = FALSE
    InputErrors = FALSE
CHECK_DEADLOCK FALSE
INVARIANTS
    SlotsMatchStreams
PROPERTIES
    AdmissionSpec
