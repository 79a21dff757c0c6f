CONSTANTS
    Jobs = {j1, j2, j3, j4}
    Procs = {p1, p2}
    Reapers = {}
    Ids = {w1}
    None = None
    WorkerId <- SharedId
    Shell = {j2, j3}
    Llm = {}
    Dog = {j1, j4}
    Kind <- Kinds
    CronJobs = {}
    Legacy = {j4}
    RateKeyed = {j1, j2, j3}
    Priority <- SamePriority
    Pools <- OnePerPool
    MaxAttempts = 1
    RateLimit = 1
    RateWindow = 1
    CandidateMax = 100
    LeaseMs = 1
    MaxLag = 0
    MaxCrashes = 1
SPECIFICATION Spec
SYMMETRY SameProcsAndShells
INVARIANTS
    CapacityOvershootBounded
    RateOvershootBounded
