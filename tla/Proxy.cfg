SPECIFICATION Spec
CONSTANTS
    Parts = {"Hop", "Timeouts", "Identity", "Accept", "Gateways", "Config", "Lifecycle"}
    Connections = {1, 2}
    Workers <- OneWorker
    Grace = 1
    LocalId = "me"
    Sources <- Providers
    Answers <- CertifyAnswers
    Updates <- AgentUpdates
    ClientPeers <- TlsClients
    ServerPeers <- TlsServers
    Targets = {{"you"}, {}}
    TlsConns = {"c"}
    MaxAge = 3
    MaxUpdates = 2
    Gates = {"g1", "g2"}
    Allowed = {"a"}
    Refused = {"x"}
    SwitchAfter = 1
    MaxClock = 2
    MaxRequests = 2
CHECK_DEADLOCK FALSE
INVARIANTS
    
    ConfigSound
    
PROPERTIES
    
    IdentitySound
    GatewaysSound
