SPECIFICATION Spec
CONSTANTS
    Effects = {e1}
    Resolvers = {u1}
    Sweepers = {s1}
    Fencers = {f1}
    Readers = {r1}
    Processes = {"gateway", "loop"}
    Proc <- MCTwoProcesses
    MaxCrashes = 1
    MaxReadback = 1
INVARIANTS
    TypeOK
    AcceptedOnce
    AcceptNeedsApproval
CHECK_DEADLOCK FALSE
