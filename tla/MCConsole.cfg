CONSTANTS
  Browsers = {b1}
  QueueMax = 2
  MaxFiles = 2
  MaxHalves = 4
  MaxSockets = 2
  MaxTails = 1
  MaxVisits = 1
SPECIFICATION FairSpec
INVARIANTS TypeOK LinesAreWhole BacklogIsLatest
PROPERTIES LinesFollowOn NewestIsSent
CHECK_DEADLOCK FALSE
