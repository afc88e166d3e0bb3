SPECIFICATION FairSpec
CONSTANTS
  ReqTags = {1, 2}
  FlushTags = {2, 3}
  NSlaves = 2
INVARIANTS   Findable
PROPERTIES IsStyx FlushAnswered
CHECK_DEADLOCK FALSE
