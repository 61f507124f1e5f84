CONSTANTS
  t1 = t1
  t2 = t2
  Monitor = monitor
  Tasks <- OneTask
  Policies <- AllPolicies
  CrashLimit = 1
  LaunchFailureLimit = 1
  MaxCommands = 2
  MaxFaults = 1
  MaxShutdowns = 0
  MaxUnread = 1
SPECIFICATION FairSpec
PROPERTIES SupervisedIsAnswered StatusIsThisRuns
CHECK_DEADLOCK FALSE
