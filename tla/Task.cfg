SPECIFICATION FairSpec
CONSTANTS
  t1 = t1
  t2 = t2
  t3 = t3
  t4 = t4
  Tasks = {t1, t2, t3, t4}
  Child <- Chain
  Prestarted = {}
  Spawned = {t4}
  Cancellable = {t1}
  None = None
CHECK_DEADLOCK FALSE
INVARIANTS
  TaskInv
PROPERTIES
  DestroyedOnlyWhenOver
  AwaitReturns
