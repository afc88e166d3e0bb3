SPECIFICATION Spec
CONSTANTS
  r1 = r1
  w1 = w1
  w2 = w2
  r2 = r2
  None = None
  Readers = {r1, r2}
  Writers = {w1}
  Limit = 3
  Maxatomic = 2
  ReadSizes = {1}
  WriteSizes = {1}
  MaxBlocks = 2
  Interrupted = {}
  Modes = {"ekbd"}
INVARIANT EventReaderWoken
