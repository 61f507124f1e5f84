CONSTANTS
  a = "paper.jar"
  b = b
  Files = {"paper.jar", b}
  e1 = e1
  e2 = e2
  u1 = u1
  u2 = u2
  Extractions = {}
  Saves = {}
  Renames = {}
  Deletions = {}
  Edits = {x1}
  Updates = {u1}
  MaxRequests = 2
  Commands <- SomeCommands
  JarPaths = {}
  Found = found
  Nobody = nobody
  MaxCrashes = 0
SPECIFICATION Spec
INVARIANT RecordedIsWhatRuns
CHECK_DEADLOCK FALSE
