SPECIFICATION FairSpec
CONSTANTS
    r1 = r1
    r2 = r2
    r3 = r3
    t1 = t1
    t2 = t2
    None = None
    Runs = {r1, r2}
    TaskIds = {t1, t2}
    IdOf <- MCOwnIds
    MaxRetries = 2
    Escalating = TRUE
    DiskRaises = TRUE
    SaveFails = TRUE
    MayCrash = FALSE
    Offered = {}
INVARIANT CallsBounded
INVARIANT ProgressTellsAnswer
PROPERTY EveryRunEnds
CHECK_DEADLOCK FALSE
