SPECIFICATION Spec
CONSTANTS
    Parts = {"Breaker", "SuccessRate", "ExpBackoff", "Resolution", "StreamLimits", "StreamWatch",
             "ForwardQueue", "EndpointLoad"}
    Clones = {c1, c2}
    Requests = {r1, r2}
    MaxFailures = 2
    ThresholdNum = 1
    ThresholdDen = 2
    MinRequests = 3
    Strict = TRUE
    MayCancel = TRUE
    ChannelCapacity = 2
    MaxSamples = 3
    MaxProbations = 2
    Buckets = 3
    BucketWidth = 2
    CountMax = 2
    MaxTime = 11
    MaxRecords = 3
    DurationMax = 12
    PowMax = 7
    Jitter = 1
    IterationMax = 5
    a1 = a1
    a2 = a2
    bad = bad
    m1 = m1
    m2 = m2
    Gone = Gone
    Addrs = {a1, a2, bad}
    Valid = {a1, a2}
    Metas = {m1, m2}
    MaxBackoff = 2
    MaxChanges = 2
    MaxFaults = 3
    Off = Off
    Initial = 2
    Idle = 3
    Lifetime = 6
    Modes = {"spawn_watch", "spawn_with_init"}
    MaxVersion = 3
    MaxLosses = 3
    LossesEnd = TRUE
    MaxDelays = 2
    Clients = {"c1", "c2", "c3"}
    Shedding = {"c3"}
    Capacity = 1
    BackoffLen = 1
    MaxDials = 2
SYMMETRY Symmetry
CHECK_DEADLOCK FALSE
INVARIANTS
    BreakerSafe
    ResolutionSafe
    QueueSafe
PROPERTIES
    
    WatchFaithful
    MeasuresExact
