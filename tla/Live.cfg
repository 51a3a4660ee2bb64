SPECIFICATION LiveSpec
CONSTANTS
    Parts = {"InboundPolicy", "Breaker", "ExpBackoff", "Resolution", "StreamWatch", "FaultyWatch",
             "NgBody", "NgServe", "NgClient", "DmaIo", "ForwardQueue"}
    Gone = Gone
    id1 = id1
    near = near
    far = far
    Conns = {c1}
    Ids = {id1}
    Nets = {near, far}
    Kinds = {"get"}
    Defaults <- LiveDefaults
    Policies <- LivePolicies
    MaxChanges = 1
    Off = Off
    NoRoute = NoRoute
    NoRequest = NoRequest
    NoId = NoId
CHECK_DEADLOCK FALSE
PROPERTIES
    WithdrawnCloses
    EjectionEnds
    Converges
    TasksEnd
    
    QueueDrains
