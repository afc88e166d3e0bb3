CONSTANTS
  Progs = {a, b}
  Interps = {i1, i2, i3}
  Kprocs = {}
  Boot = i1
  Root = a
  YieldAfter = 2
  None = None
  Finalizers = FALSE
SPECIFICATION FairSpec
PROPERTIES IsVmToken AcquirerServed 
CHECK_DEADLOCK FALSE
