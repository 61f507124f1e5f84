CONSTANTS
  Features = {21, 17}
  Requests <- SameAndDifferent
  MaxInstalls = 3
  MaxRemovals = 1
  MaxCrashes = 1
SPECIFICATION Spec
INVARIANTS TypeOK OneInstallPerRelease HomeIsVerified PreviousIsKept
PROPERTY SweepIsThorough
CHECK_DEADLOCK FALSE
