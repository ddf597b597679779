SPECIFICATION ServicesSpec
CONSTANTS
    \* audit logger
    BatchSize = 2
    QueueMaxSize = 2
    RetentionDays = 1
    TicksPerDay = 2
    Callers = {"c1"}
    MayClose = TRUE
    MaySync = TRUE
    MaxEntries = 3
    MaxClock = 3
    \* model calls and streams
    RouterAgents = {"tech", "test"}
    MaxToolTurns = 1
    MaxLLMRetries = 1
    SdkRetries = 1
    ContextLimit = 4
    Conversations <- MCConversations
    MaxCalls = 2
    MaxToolsPerTurn = 2
    ToolIds = {"i1", "i2"}
    MaxStreamEvents = 5
    \* backup: without tasks, whose checksum never verifies
    GraphKinds = {"json", "sqlite", "postgres"}
    Included = {"graph", "custom_agents"}
    KeepDays = 1
    MaxGraphWrites = 1
    MaxBackupFaults = 1
    MaxDamage = 1
    \* webhook
    Deliveries = {"d1", "d2"}
    MaxRemembered = 1
    MaxSends = 3
    MaxHookRestarts = 2
    \* resolver
    Failing = {"a", "b"}
    Registered = {"a", "b", "c"}
    MaxTries = 2
    \* request pipeline
    Requests = {"r1", "r2"}
    RequestKinds <- MCRequestKinds
    PipelineSettings <- MCPipelineSettings
    Burst = 1
    Window = 2
    CleanupInterval = 1
    MaxTicks = 3
    \* event bus
    Subscribers = {"s1", "s2", "s3"}
    Publications = {"p1"}
    WantedBy <- MCWantedBy
    MaxClears = 1
    \* Redis lock, where commands are prompt and Redis answers
    None = "nobody"
    Processes = {"p1", "p2"}
    Clients = {"a1", "a2", "a3"}
    ProcessOf <- MCProcessOf
    Reachable = TRUE
    Prompt = TRUE
    MayCrash = TRUE
INVARIANTS
    EachInOnePlace NewestKept
    CallsSound
    StreamWellFormed
    ArchivesFaithful
    OneReviewPerMemory
    ResolutionSound
    RequestsApart BucketBounded
    EachHeardOnce
    MutualExclusion
PROPERTIES
    EveryEntryFlushed
    WholeArchiveStays
    WorkEnds
\* Bounds end the runs.
CHECK_DEADLOCK FALSE
