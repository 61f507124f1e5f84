CONSTANTS
  t1 = t1
  t2 = t2
  Monitor = monitor
  Tasks <- OneTask
  Policies <- CrashOnly
  CrashLimit = 1
  LaunchFailureLimit = 1
  MaxCommands = 2
  MaxFaults = 0
  MaxShutdowns = 1
  MaxUnread = 1
SPECIFICATION FairSpec
PROPERTY ShutdownFinishes
CHECK_DEADLOCK FALSE
