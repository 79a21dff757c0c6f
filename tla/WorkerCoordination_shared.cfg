SPECIFICATION Spec
CONSTANTS
  w1 = w1
  w2 = w2
  g1 = g1
  g2 = g2
  k1 = k1
  c1 = c1
  c2 = c2
  c3 = c3
  None = None
  Waits = {w1, w2}
  Groups = {g1, g2}
  Coordinators = {k1}
  Children = {c1, c3}
  GroupOf <- MCGroupOf
  CoordOf <- MCCoordOf
  Kids <- MCKids
  MaxAttempts = 2
  Deadline = 4
  MaxOthers = 1
  MaxCrashes = 0
  MaxReadmits = 0
  CanSkip = FALSE
CHECK_DEADLOCK FALSE
INVARIANT ClaimHasContinuation
SYMMETRY MCSameWaits
