SPECIFICATION LiveSpec
CONSTANTS
    Pods = {"p1", "p2"}
    Owners = {}
    Ips = {"x"}
    maxOwnerChainDepth = 3
    ClusterWorlds <- MCClusterWorlds
    HostAddresses = {"a1", "a2"}
    Private = {"a1"}
    DnsNames = {"d"}
    MaxMoves = 1
    MaxListFailures = 1
    Conns = {1, 2}
    MaxBytes = 1
    NoDomain = "none"
    TrafficWorlds <- MCTrafficWorlds
    Talks <- MCTalks
    maxRequests = 1
    LlmSockets = {1, 2}
    FdOf <- MCFdOf
    MaxChunks = 1
    maxLLMCaptures = 1
    Peers <- MCPeers
    SpoolWorlds <- MCSpoolWorlds
    MaxScrapes = 2
    maxSpoolSize = 2
    OsPids = {1, 2}
    ContainerWorlds <- MCContainerWorlds
    MaxStarts = 2
    MaxContainers = 2
    MaxTold = 2
    ListenPids = {1, 2}
    ListenAddrs = {"a"}
    ListenWorlds <- MCListenWorlds
    Executables = {1, 2}
    openSslMaxChecks = 1
    MaxLives = 1
    MaxExecs = 1
    UprobeWorlds <- MCUprobeWorlds
PROPERTIES
    EndpointsNamed
    LlmReleased
    SpoolDrains
    DeadContainerClosed
    ListensFollow
    TlsFollowsExec
CHECK_DEADLOCK FALSE
