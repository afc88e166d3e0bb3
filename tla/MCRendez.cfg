CONSTANTS
  w1 = w1
  w2 = w2
  i1 = i1
  i2 = i2
  Wakers = {w1, w2}
  Intrs = {i1, i2}
  None = None
  Sleeper = Sleeper
SPECIFICATION FairSpec
INVARIANTS OnePostPerSleep NothingLost SignalExpected
PROPERTIES Woken Leaves
