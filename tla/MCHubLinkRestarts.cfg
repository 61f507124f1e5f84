CONSTANTS
  r1 = r1
  Instances <- OneInstance
  Requests <- OneRequest
  MaxConns = 2
  MaxProcs = 2
  MaxHubRestarts = 1
  MaxConsoleStops = 0
  MaxRevocations = 1
SPECIFICATION Spec
INVARIANTS TypeOK CallsAwaitTheLiveLink NewestServes
PROPERTY RecordedStopIsFinal
CHECK_DEADLOCK FALSE
