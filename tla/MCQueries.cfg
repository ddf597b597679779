SPECIFICATION QueriesSpec
CONSTANTS
    \* task list
    Users <- MCUsers
    TaskSpaces <- MCTaskSpaces
    TaskStatuses = {"completed", "failed"}
    PageSize = 2
    MaxListed = 3
    MaxUpdates = 1
    \* audit queries
    AuditUsers = {"u", "v"}
    AuditKinds = {"denied", "deleted"}
    DayLength = 2
    MaxLate = 1
    QueryLimit = 2
    SpikeThreshold = 2
    SpikeWindow = 1
    MaxInstant = 2
    MaxEntries = 3
    MaxTears = 1
    \* the query language of the graph
    QueryNodes = {"n1", "n2", "n3", "n4"}
    Statuses = {1, 2}
    RowLimits = {1, 2}
    MaxVisited = 2
    MaxEdges = 3
    \* in-process locks
    None = None
    Coroutines = {"c1", "c2", "c3"}
    Holders = {"ann", "bob", "cid"}
    HolderOf <- MCOwnHolders
    Resources = {"file", "task"}
    Ttls = {1, 2}
    MaxClock = 4
INVARIANTS
    LeaseExclusive
    ListsRight
    QueriesExact
    AnswersExact
PROPERTIES
    ImplementsLock
\* Bounds end the runs.
CHECK_DEADLOCK FALSE
