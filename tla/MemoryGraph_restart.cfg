SPECIFICATION GraphSpec
CONSTANTS
    GraphTasks = {"a"}
    MaxExecutions = 1
    MaxGraphFaults = 0
    MaxStarts = 2
    MaxRemovals = 0
PROPERTY LoadedOnStartup
\* Bounds end the run.
CHECK_DEADLOCK FALSE
