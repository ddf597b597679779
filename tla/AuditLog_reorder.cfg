SPECIFICATION AuditSpec
CONSTANTS
    BatchSize = 2
    QueueMaxSize = 3
    RetentionDays = 1
    TicksPerDay = 1
    Callers = {}
    MayClose = TRUE
    MaySync = FALSE
    MaxEntries = 3
    MaxClock = 0
INVARIANT Chronological
CHECK_DEADLOCK FALSE
