SPECIFICATION FairSpec
CONSTANTS
  t1 = t1
  t2 = t2
  c1 = c1
  c2 = c2
  c3 = c3
  x1 = x1
  x2 = x2
  g1 = g1
  g2 = g2
  Threads = {t1, t2}
  Coros = {c1, c2, c3}
  Awaits <- MCAwaits
  call <- MCCall
  Tasks = {x1, x2}
  GroupOf <- MCGroupOf
  All = All
  MayDo <- MCMayDo
INVARIANTS
  TaskManagerInv
  JoinWaits
PROPERTY BlockOnReturns
CHECK_DEADLOCK FALSE
