SPECIFICATION FairSpec
CONSTANTS
  o1 = o1
  o2 = o2
  o3 = o3
  s1 = s1
  s2 = s2
  f1 = f1
  None = None
  Objects = {o1, o2, o3}
  Slots = {s1, s2}
  Fields = {f1}
  MaxDepth = 1
  MaxRef = 2
INVARIANTS  RefsCover
PROPERTY GarbageFreed
