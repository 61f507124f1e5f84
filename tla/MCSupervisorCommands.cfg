CONSTANTS
  t1 = t1
  t2 = t2
  Monitor = monitor
  Tasks <- TwoTasks
  Policies <- CrashOnly
  CrashLimit = 1
  LaunchFailureLimit = 2
  MaxCommands = 2
  MaxFaults = 1
  MaxShutdowns = 0
  MaxUnread = 1
SPECIFICATION Spec
SYMMETRY TaskSymmetry
INVARIANTS TypeOK UpdateExclusion RelaunchBudget
PROPERTIES UncontendedStopIsFinal PromiseSpec
CHECK_DEADLOCK FALSE
