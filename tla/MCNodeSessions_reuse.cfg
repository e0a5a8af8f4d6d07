SPECIFICATION Spec
CONSTANTS
    c1 = c1
    c2 = c2
    n3 = n3
    s3 = s3
    None = None
    Clients = {c1}
    NodeSockets = {n1}
    StreamSockets = {s1, s2}
    Consumers = {k1}
    Owner <- MCOwner
    MaxStreams <- NoLimit
    WaitSeconds = 1
    MaxChunks = 1
    Overlap = FALSE
    InputErrors = FALSE
CHECK_DEADLOCK FALSE
INVARIANTS
    ResponseAudioHasStream
