SPECIFICATION Spec
CONSTANTS
  c1 = c1
  c2 = c2
  None = None
  Calls = {c1, c2}
  Endpoints = {1, 2}
  FailureThreshold = 1
  Cooldown = 1
  MaxAttempts = 2
  MaxIdle = 1
  MaxTime = 1
SYMMETRY CallSymmetry
ACTION_CONSTRAINT CallBound
INVARIANTS OneKeeper DrainLeavesNothing LeaseBalance
PROPERTY NoReplay
CHECK_DEADLOCK FALSE
