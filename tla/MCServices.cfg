INIT Init
NEXT Next
CONSTANTS
    SafeNames = {"received_file.bin"}
    UnsafeNames = {"con"}
    DefaultName = "received_file.bin"
    MaxFileSize = 2
    MaxChunkSize = 2
    ChunkHeader = 1
    MaxCommandPayload = 2
    MaxSendQueue = 2
    MaxTransfers = 2
    MaxFileFaults = 2
    TelemetrySessions = {s1, s2}
    Producers = {p1, p2}
    TornRecord = TornRecord
    Contents = {a, b}
    MaxSequence = 2
    MaxContexts = 1
    MaxGenerations = 1
    MaxHashes = 1
    MaxSegmentRecords = 1
    SegmentCount = 2
    MaxQueuedBatches = 1
    MaxReceived = 3
    MaxTelemetryFaults = 2
    MaxVersion = 2
    PackageUnits = 2
    MaxDownloads = 2
    MaxStagingFaults = 3
    IntentIds = {i1, i2}
    Nonces = {n1, n2}
    Operations = {"restart_client"}
    MaxClock = 3
    MaxLifetime = 1
    ClockSkew = 1
    ReplayCapacity = 1
    MaxIntents = 2
    MaxIntentFaults = 1
    SpoolCapacity = 3
    ChunkRecords = 2
    AuditBurst = 2
    FileLines = 2
    SinkFiles = 2
    MaxRecords = 4
    MaxUploads = 2
    MaxAuditFaults = 2
    MaxCaptures = 2
    MaxFrameFragments = 2
    FramesInFlight = 1
    RecentCapacity = 1
    JitterFrames = 2
    MaxFailures = 2
    MaxOpens = 2
    MaxTime = 1
    Streams = {1, 2}
    ReorderWindow = 3
    MaxForwardJump = 6
    MaxPacket = 9
    MaxSessions = 3
    MaxRemoteCommands = 2
    MaxRemoteFaults = 2
    RamSizes = {2048, 8192}
    FreeDiskSizes = {1024, 40000}
    OverlaySizes = {2048}
    ThresholdLevels = {0, 1024, 8000}
    DefenderPaths <- DefenderFolders
    MaxFilterCalls = 2
    MaxFilterFaults = 2
    MaxAgentMessages = 3
    MaxPosted = 5
    MaxAgentFaults = 1
    ClientOffsets = {1}
    DiscoverySources = {"client", "other"}
    SweepSource = "client"
    ControlPorts = {1, 2}
    MaximumClockSkew = 1
    DiscoveryCapacity = 1
    MaximumSources = 1
    MaximumFailures = 2
    LimiterWindow = 2
    LimiterBlock = 2
    EndpointLimit = 1
    MaxSweeps = 2
    MaxSteady = 3
    MaxDiscoveryFaults = 2
INVARIANTS PublishedAsSent AcceptedOnce InstalledIsSigned IntentRunsOnce RecordAccountedFor PicturesWholeInOrder LossExact NothingLeftBehind FilterArmedSafely StudentReleased OneAnswerPerSweep
CHECK_DEADLOCK FALSE
