SPECIFICATION FairSpec
CONSTANTS
    c1 = c1
    c2 = c2
    c3 = c3
    p1 = p1
    p2 = p2
    None = None
    Processes = {p1, p2}
    Clients = {c1, c2, c3}
    ProcessOf <- MCProcessOf
    Reachable = FALSE
    Prompt = FALSE
    MayCrash = TRUE
PROPERTY ImplementsLock
PROPERTY AbandonedLockEnds
