SPECIFICATION FairSpec
CONSTANTS
  Coros = {c1, c2, c3, c4, c5}
  None = None
INVARIANTS
  MutexInv
PROPERTIES
  ImplementsFifoLock
  EveryWaiterServed
