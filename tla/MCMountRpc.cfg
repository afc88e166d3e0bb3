SPECIFICATION FairSpec
CONSTANTS
  p1 = p1
  p2 = p2
  Procs = {p1, p2}
  None = None
  NTags = 4
  MaxFree = 0
  MaxIntr <- Intrs
  MaxVersions = 1
INVARIANTS OneReader TagsSafe
PROPERTIES IsRpc Returns
