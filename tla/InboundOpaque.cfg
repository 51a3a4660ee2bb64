SPECIFICATION ServicesSpec
CONSTANTS
    Parts = {"InboundPolicy"}
    id1 = id1
    near = near
    far = far
    get = get
    put = put
    Conns = {c1}
    Ids = {id1}
    Nets = {near, far}
    Kinds = {get, put}
    Defaults <- MCDefaults
    Policies <- MCPolicies
    MaxChanges = 2
    Off = Off
    NoRoute = NoRoute
    NoRequest = NoRequest
    NoId = NoId
CHECK_DEADLOCK FALSE
INVARIANT OpaqueNeverHttp
