CONSTANTS
  r1 = r1
  Instances <- TwoInstances
  Requests <- NoRequest
  MaxConns = 2
  MaxProcs = 1
  MaxHubRestarts = 0
  MaxConsoleStops = 1
  MaxRevocations = 0
SPECIFICATION FairSpec
PROPERTY RestoreFinishes
CHECK_DEADLOCK FALSE
