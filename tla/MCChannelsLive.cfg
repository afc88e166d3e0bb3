CONSTANTS
  p1 = p1
  p2 = p2
  p3 = p3
  p4 = p4
  a = a
  b = b
  None = None
  Progs = {p1, p2}
  Chans = {a, b}
  Kchans = {a}
  Freeable = {b}
  Cap <- Caps
  Alts <- PlainAlts
  AltRefs = TRUE
  Marks = 0
SPECIFICATION FairSpec
PROPERTY KilledDies
CHECK_DEADLOCK FALSE
