SPECIFICATION Spec
CONSTANTS
    Parts = {"Retry", "PeekTrailers", "NgRecv", "LongBody", "NgBody", "NgServe",
             "NgClient", "StreamMetrics", "Sensors", "Tracked"}
    Bodies <- SmallBodies
    Responses <- SmallResponses
    Transports = {TRUE, FALSE}
    MaxBytes = 3
    MaxRetries = 2
    Streams = {s1, s2}
    MaxData = 1
    ConnWindow = 2
    Chunks = 4
    Window = 2
    MayDie = TRUE
    SendChunks = 2
    Cap = 1
    Endings = {"eof", "trailers", "error"}
    Requests = {r1, r2, r3}
    QueueCap = 2
    MayEof = TRUE
SYMMETRY Symmetry
INVARIANTS
    ReplayFaithful
    StreamsFaithful
    
    
    MetricsExact
