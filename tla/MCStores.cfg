SPECIFICATION StoresSpec
CONSTANTS
    None = None
    \* task store: one id, which every submission may name again
    Users = {"ann", "bob"}
    TenantAdmins = {}
    PlatformAdmins = {}
    SharedSets = {{}, {"bob"}}
    Workers = {"w1"}
    Ids = {"t1"}
    Requests = {"q1", "q2"}
    Threaded = FALSE
    MayReuseId = TRUE
    MaxTimeline = 2
    \* quotas
    QuotaTasks = {"t1", "t2", "t3"}
    QuotaUsers = {"u", "v"}
    QuotaAgents = {"tech"}
    Departments = {"dev"}
    TaskUser <- MCTaskUser
    TaskAgent <- MCTaskAgent
    UserDepartment <- MCUserDepartment
    MaxUserTasks = 1
    MaxDepartmentTasks = 1
    MaxUserCost = 3
    MaxDepartmentCost = 4
    MaxSystemCost = 5
    MaxUserQueued = 1
    MaxDepartmentQueued = 2
    Estimate = 1
    Racing = 2
    MaxDays = 2
    MaxSpent = 2
    \* rate limits
    Callers = {"c1", "c2"}
    Replicas = {"r1"}
    RateUsers = {"ann"}
    Scopes = {"auth", "default"}
    UserLimit <- MCUserLimit
    IpLimit <- MCIpLimit
    Window = 1
    WatchRetries = 2
    \* graph, its stores and the data migration
    GraphTasks = {"a"}
    MaxExecutions = 2
    MaxGraphFaults = 1
    MaxStarts = 2
    MaxRemovals = 1
    StoreNodes = {"n1", "n2"}
    Versions = 1
    MaxStoreFaults = 1
    MaxMigrations = 2
    Names = {"n1", "n2", "n3"}
    BatchSize = 2
    MaxMigrated = 4
    MaxRuns = 3
    MaxEdits = 1
    MaxCopyFaults = 1
    \* signing keys, the kid of a rotation being renamed with its secret
    AuthReplicas = {"k1", "k2"}
    Generations = 3
    TokenTtl = 2
    KidPolicy = "renamed"
    \* custom agents
    Definitions <- MCDefinitions
    Folder <- MCFolder
    MaxChanges = 5
    MaxCustomRuns = 1
    MaxFaults = 2
    \* configuration
    ConfigTenants = {"acme", "beta"}
    Values = {"v", "w"}
    FromEnv = {"none", "e"}
    MaxWrites = 4
INVARIANTS
    AdmissionSound
    WindowsBounded
    GraphSound
    StoresAgree
    RunsConverge
    KeysHonoured
    DefinitionsKept
    ValuesAnswered
PROPERTIES
    OwnersReplacedWhole
\* Bounds end the runs.
CHECK_DEADLOCK FALSE
