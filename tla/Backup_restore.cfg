SPECIFICATION BackupSpec
CONSTANTS
    GraphKinds = {"json"}
    Included = {"graph", "tasks", "custom_agents"}
    KeepDays = 1
    MaxGraphWrites = 1
    MaxBackupFaults = 0
    MaxDamage = 0
INVARIANT CleanArchiveVerifies
\* Bounds end the run.
CHECK_DEADLOCK FALSE
