SPECIFICATION FairSpec
CONSTANTS
  r1 = r1
  r2 = r2
  w1 = w1
  w2 = w2
  None = None
  Readers = {r1}
  Writers = {w1, w2}
  Limit = 3
  Maxatomic = 2
  ReadSizes = {1, 2}
  WriteSizes = {3}
  Interrupted = {w1}
  MaxBlocks = 2
  Modes = {"pipe", "kbd", "ekbd", "msg", "kprint"}
INVARIANTS  ReaderWoken WriterWoken
PROPERTIES  WriterGoesOn
