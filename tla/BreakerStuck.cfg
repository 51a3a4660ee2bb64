SPECIFICATION FairSpec
CONSTANTS
    Parts = {"Breaker"}
    Clones = {c1}
    Requests = {r1, r2}
    MaxFailures = 2
    ThresholdNum = 0
    ThresholdDen = 2
    MinRequests = 3
    Strict = FALSE
    MayCancel = TRUE
    ChannelCapacity = 2
    MaxSamples = 3
    MaxProbations = 2
    Buckets = 3
    BucketWidth = 2
    CountMax = 2
    MaxTime = 11
    MaxRecords = 3
    DurationMax = 12
    PowMax = 7
    Jitter = 1
    IterationMax = 5
    a1 = a1
    a2 = a2
    m1 = m1
    Gone = Gone
    Addrs = {a1, a2}
    Valid = {a1, a2}
    Metas = {m1}
    MaxBackoff = 2
    MaxChanges = 2
    MaxFaults = 2
    Off = Off
    Initial = 2
    Idle = 3
    Lifetime = 6
    Modes = {"spawn_watch", "spawn_with_init"}
    MaxVersion = 3
    MaxLosses = 2
    LossesEnd = TRUE
    MaxDelays = 2
    Clients = {"c1", "c2", "c3"}
    Shedding = {"c3"}
    Capacity = 1
    BackoffLen = 1
    MaxDials = 2
CHECK_DEADLOCK FALSE
PROPERTY ProbationEnds
