CONSTANTS
  p1 = p1
  p2 = p2
  p3 = p3
  p4 = p4
  a = a
  b = b
  None = None
  Progs = {p1, p2, p3}
  Chans = {a, b}
  Kchans = {a}
  Freeable = {b}
  Cap <- Caps
  Alts <- PlainAlts
  AltRefs = TRUE
  Marks = 2
SPECIFICATION Spec
SYMMETRY Sym
INVARIANTS RunqExact  NoMissedMeeting Fifo NoOrphanSleeper
CHECK_DEADLOCK FALSE
