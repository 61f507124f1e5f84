CONSTANTS
  Features = {21, 17}
  Requests <- SameAndDifferent
  MaxInstalls = 3
  MaxRemovals = 1
  MaxCrashes = 1
SPECIFICATION Spec
INVARIANT SweepSparesInstalls
CHECK_DEADLOCK FALSE
