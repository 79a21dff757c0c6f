SPECIFICATION Spec
CONSTANTS
    i1 = i1
    i2 = i2
    i3 = i3
    l1 = l1
    l2 = l2
    Items = {i1}
    Created <- MCCreated
    Lanes = {l1}
    Lane <- MCLane
    Classes = {"interactive"}
    Class <- MCClass
    Runners = {r1}
    Stamps = {1, 2}
    Platforms = {"unix"}
    Limit <- MCLimit
    MaxAttempts = 2
    Waiting = {}
    LeaseTicks = 1
    MaxCrashes = 0
PROPERTIES
    BackoffHonoured
