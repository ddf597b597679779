SPECIFICATION FairSpec
CONSTANTS
    ann = ann
    bob = bob
    w1 = w1
    t1 = t1
    t2 = t2
    r1 = r1
    r2 = r2
    None = None
    Users = {ann, bob}
    TenantAdmins = {}
    PlatformAdmins = {}
    SharedSets <- MCSharedSets
    Workers = {w1}
    Ids = {t1, t2}
    Requests = {r1, r2}
    Threaded = FALSE
    MayReuseId = FALSE
    MaxTimeline = 2
INVARIANT TimelineReplays
PROPERTY AnswerIsRecorded
PROPERTY ImplementsBoard
PROPERTY AcceptedTaskFinishes
