SPECIFICATION FairSpec
CONSTANTS
    Last = 3
    Kind <- NewTextStop
    Assessments = {"not-applicable", "closure-pending", "ambiguous"}
    Stored = TRUE
    TransitionRows = 2
    HeldRows = 2
    MaxFaults = 1
INVARIANTS
    TypeOK
    QueuedOnce
    ActiveIsProven
    OneTargetPerUpdate
    CommitIsAcknowledged

    
    
