SPECIFICATION FairSpec
CONSTANTS
  Tasks = {t1, t2, t3}
  Delays = {0, 1, 2}
  MaxTime = 3
INVARIANT ExecutorsInv
PROPERTIES
  ImplementsDelayedExecutor
  AcceptedRuns
CHECK_DEADLOCK FALSE
