CONSTANTS
    Jobs = {j1}
    Procs = {p1, p2}
    Reapers = {p2}
    Ids = {w1}
    None = None
    WorkerId <- SharedId
    Shell = {}
    Llm = {j1}
    Dog = {}
    Kind <- Kinds
    CronJobs = {}
    Legacy = {}
    RateKeyed = {}
    Priority <- SamePriority
    Pools <- OnePerPool
    MaxAttempts = 2
    RateLimit = 0
    RateWindow = 1
    CandidateMax = 100
    LeaseMs = 1
    MaxLag = 1
    MaxCrashes = 1
SPECIFICATION FairSpec
INVARIANTS
    ResultPublishedOnce
PROPERTIES
    TurnNeverRequeued
    
