SPECIFICATION FairSpec
CONSTANTS
  w1 = w1
  w2 = w2
  g1 = g1
  g2 = g2
  k1 = k1
  c1 = c1
  c2 = c2
  c3 = c3
  None = None
  Waits = {w1}
  Groups = {g1}
  Coordinators = {k1}
  Children = {c1, c2}
  GroupOf <- MCGroupOf
  CoordOf <- MCCoordOf
  Kids <- MCKids
  MaxAttempts = 2
  Deadline = 4
  MaxOthers = 1
  MaxCrashes = 1
  MaxReadmits = 1
  CanSkip = TRUE
CHECK_DEADLOCK FALSE
INVARIANT TypeOK
INVARIANT OneContinuationPerWait
INVARIANT QuarantineSuppresses
 
INVARIANT ConsumedIsAcked
PROPERTY AckUnderLease
 
PROPERTY WatchdogSettles
