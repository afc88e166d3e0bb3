SPECIFICATION FairSpec
CONSTANTS
  ReqTags = {1}
  FlushTags = {2, 3}
  NSlaves = 1
PROPERTY FlushAlwaysAnswered
CHECK_DEADLOCK FALSE
