SPECIFICATION FairSpec
CONSTANTS
  Workers = {w1, w2}
  Timer = timer
  Clients = {c1, c2}
  Immediate = {t1}
  d1 = d1
  d2 = d2
  Delay <- TwoDelays
  MaxTime = 2
  None = None
CHECK_DEADLOCK FALSE
INVARIANTS
  PoolInv
  NobodyOversleeps
PROPERTIES
  ImplementsDelayedExecutor
  AcceptedRuns
  ShutdownReturns
