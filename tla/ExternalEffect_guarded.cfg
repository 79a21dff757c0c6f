SPECIFICATION FairSpec
CONSTANTS
    Effects = {e1}
    Resolvers = {u1, u2}
    Sweepers = {s1}
    Fencers = {}
    Readers = {}
    Processes = {"host"}
    Proc <- MCOneProcess
    MaxCrashes = 2
    MaxReadback = 0

    
    
PROPERTIES
    
    ApprovalWaitEnds
    
CHECK_DEADLOCK FALSE
