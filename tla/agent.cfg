SPECIFICATION AgentSpec
CONSTANTS
    FieldNames = {"n", "long"}
    FieldValues = {"v", "w"}
    NameLen <- MCNameLen
    ValueLen <- MCValueLen
    hpackEntryOverhead = 1
    hpackDefaultTableSize = 5
    hpackMaxTableSize = 7
    TableSizes <- MCTableSizes
    FrameWorlds <- MCFrameWorlds
    maxPartial = 4
    H2Ids = {1, 2, 3}
    maxActiveRequests = 2
    http2DecoderGcInterval = 1
    KernelWrap = 16
    MaxKernelTime = 5
    Manners = {"late", "lossy", "partial"}
    Talks <- MCTalks
    maxRequests = 1
    LlmSockets = {1, 2, 3}
    FdOf <- MCFdOf
    MaxChunks = 1
    maxLLMCaptures = 1
    Peers <- MCPeers
    SpoolWorlds <- MCSpoolWorlds
    MaxScrapes = 5
    maxSpoolSize = 2
    OsPids = {1, 2}
    ContainerWorlds <- MCContainerWorlds
    MaxStarts = 3
    MaxContainers = 3
    MaxTold = 2
    Executables = {1, 2}
    openSslMaxChecks = 1
    MaxLives = 2
    MaxExecs = 1
    UprobeWorlds <- MCUprobeWorlds
    HostPids = {1, 2}
    EventsCap = 1
    MaxConnects = 1
    StatsWorlds <- MCStatsWorlds
    MaxTurns = 2
    MaxDelay = 2
    PingTargets = {"a", "b"}
    PingWorlds <- MCPingWorlds
    MaxPingClock = 2
    MaxRounds = 2
    Seekers = {1, 2}
    SymbolWorlds <- MCSymbolWorlds
    symbolCacheSize = 3
    MaxLookups = 6
    MaxReplaced = 2
    UnitContainers = {1, 2}
    Units = {"u", "v"}
    JournalWorlds <- MCJournalWorlds
    MaxEntries = 3
    Gpus = {1, 2}
    GpuChanCap = 1
    gpuStatsWindow = 2
    MaxGpuClock = 4
    MaxSamples = 2
    MountIds = {1, 2}
    MountPids = {1, 2}
    MaxOpens = 2
    MountWorlds <- MCMountWorlds
INVARIANTS
    NeverWrong Converges TableFollows
    ExchangesReported 
    MapsLeadToOpen LinksOwned StartComplete 
    RttHonest LookupRight NeverSendsToStopped  
PROPERTIES
    
    SpoolFaithful
CHECK_DEADLOCK FALSE
