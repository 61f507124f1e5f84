CONSTANTS
  a = "paper.jar"
  b = b
  Files = {"paper.jar", b}
  e1 = e1
  e2 = e2
  u1 = u1
  u2 = u2
  Extractions <- TwoExtractions
  Saves = {s1}
  Renames = {m1}
  Deletions = {d1}
  Edits = {x1}
  Updates <- TwoUpdates
  MaxRequests = 3
  Commands <- SomeCommands
  JarPaths = {"unknown"}
  Found = found
  Nobody = nobody
  MaxCrashes = 1
SPECIFICATION Spec
SYMMETRY Same
INVARIANTS TypeOK MembersAreWhole RecordedIsInstalled
PROPERTIES UndoSparesFound
CHECK_DEADLOCK FALSE
