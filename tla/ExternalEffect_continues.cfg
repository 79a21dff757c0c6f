SPECIFICATION FairSpec
CONSTANTS
    Effects = {e1}
    Resolvers = {u1}
    Sweepers = {}
    Fencers = {}
    Readers = {}
    Processes = {"gateway", "loop"}
    Proc <- MCTwoProcesses
    MaxCrashes = 0
    MaxReadback = 0
PROPERTIES
    ApprovedContinuationRuns
CHECK_DEADLOCK FALSE
