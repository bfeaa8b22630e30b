SPECIFICATION NamesSpec
CONSTANTS
    Pods = {"p1", "p2"}
    Owners = {"o1", "o2"}
    Ips = {"x", "y"}
    maxOwnerChainDepth = 3
    ClusterWorlds <- MCClusterWorlds
    Addresses = {"i1", "i2", "i3"}
    Domains = {"a", "b"}
    NoName = "none"
    Getters = {"g"}
    FQDNCacheTTL = 1
    FQDNCacheMaxEntries = 2
    EvictBatch = 1
    RecencyResolution = 0
    MaxNow = 3
    Handlers = {"events", "llm"}
    CallsOf <- MCCallsOf
    MaxHTTPPathsPerDestination = 1
    MaxFQDNsPerContainer = 1
    Conns = {1, 2}
    MaxBytes = 1
    NoDomain = "none"
    TrafficWorlds <- MCTrafficWorlds
INVARIANTS
    NamedAfterTop NamesAreCurrent
    SeriesAccounted
    NamedAfterOwnHost
PROPERTIES
    CacheFaithful
    
CHECK_DEADLOCK FALSE
