SPECIFICATION Spec
CONSTANTS
    i1 = i1
    i2 = i2
    i3 = i3
    l1 = l1
    l2 = l2
    Items = {i1, i2}
    Created <- MCCreated
    Lanes = {l1}
    Lane <- MCLane
    Classes = {"interactive"}
    Class <- MCClass
    Runners = {r1, r2}
    Stamps = {1, 2}
    Platforms = {"unix"}
    Limit <- MCLimit
    MaxAttempts = 1
    Waiting = {}
    LeaseTicks = 1
    MaxCrashes = 1
INVARIANTS
    OneChildPerLane
PROPERTIES
    CompletedTurnNotRepeated
    
SYMMETRY MCSameRunners
