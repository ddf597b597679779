SPECIFICATION FairSpec
CONSTANTS
    ann = ann
    bob = bob
    None = None
    Users = {ann, bob}
    TenantAdmins = {}
    PlatformAdmins = {}
    SharedSets <- MCSharedSets
    Workers = {w1}
    Ids = {t1}
    Requests = {r1}
    Threaded = TRUE
    MayReuseId = FALSE
    MaxTimeline = 2
PROPERTY AcceptedTaskFinishes
\* The bound on the timeline ends the run.
CHECK_DEADLOCK FALSE
