SPECIFICATION Spec
CONSTANTS
    r1 = r1
    r2 = r2
    r3 = r3
    t1 = t1
    t2 = t2
    None = None
    Runs = {r1, r2, r3}
    TaskIds = {t1, t2}
    IdOf <- MCSharedId
    MaxRetries = 2
    Escalating = FALSE
    DiskRaises = FALSE
    SaveFails = TRUE
    MayCrash = TRUE
    Offered = {t1}
INVARIANT VerdictTold
INVARIANT NeverStuck
CHECK_DEADLOCK FALSE
