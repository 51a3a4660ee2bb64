SPECIFICATION Spec
CONSTANTS
    Parts = {"Retry"}
    Bodies <- SmallBodies
    Responses <- SmallResponses
    Transports = {FALSE}
    MaxBytes = 3
    MaxRetries = 2
    Streams = {s1, s2}
    MaxData = 2
    ConnWindow = 3
    Chunks = 4
    Window = 2
    MayDie = TRUE
    SendChunks = 2
    Cap = 1
    Endings = {"eof", "trailers", "error"}
    Requests = {r1, r2, r3}
    QueueCap = 2
    MayEof = TRUE
INVARIANT SentFaithfulAny
