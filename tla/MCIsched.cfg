CONSTANTS
  Progs = {a, b}
  Interps = {i1, i2, i3}
  Kprocs = {k1}
  Boot = i1
  Root = a
  YieldAfter = 2
  Finalizers = TRUE
  None = None
SPECIFICATION Spec
SYMMETRY Sym
INVARIANTS OneToken IdleIsTemporary ProgsAccounted ReleaseTakesOwn CollectorAlone InterpsBounded
CHECK_DEADLOCK FALSE
