CONSTANTS
  MaxRows = 2
  MaxStarts = 1
  MaxFaults = 1
SPECIFICATION FairSpec
INVARIANTS TypeOK OneBuilder FailureLeavesNothing
PROPERTIES ConfigurationRunEnds CreationSpec BuildEnds
CHECK_DEADLOCK FALSE
