CONSTANTS
    Jobs = {j1}
    Procs = {p1, p2}
    Reapers = {}
    Ids = {w1}
    None = None
    WorkerId <- SharedId
    Shell = {j1}
    Llm = {}
    Dog = {}
    Kind <- Kinds
    CronJobs = {j1}
    Legacy = {}
    RateKeyed = {}
    Priority <- SamePriority
    Pools <- OnePerPool
    MaxAttempts = 2
    RateLimit = 0
    RateWindow = 1
    CandidateMax = 100
    LeaseMs = 1
    MaxLag = 4
    MaxCrashes = 1
SPECIFICATION Spec
SYMMETRY SameProcs
INVARIANTS
    TypeOK
    AttemptsExecuteOnce
    OneAuthority
PROPERTIES
    RowsLive
