SPECIFICATION Spec
CONSTANTS
  w1 = w1
  w2 = w2
  c1 = c1
  c2 = c2
  c3 = c3
  v1 = v1
  v2 = v2
  NoCommit = NoCommit
  VersionOf <- MCVersionOf
  Version = v1
  Runs = {w1, w2}
  Commits = {c1, c2, c3}
  Refs = {"full", "short"}
  InputVersions = {v1, v2}
  MaxAttempts = 2
  MaxMoves = 2
SYMMETRY RunSymmetry
CHECK_DEADLOCK FALSE
INVARIANTS IndexIsOneBuild PublishedWasTagged ReleaseMatchesIndex
PROPERTY MovedTagStopsJob
