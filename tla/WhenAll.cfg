SPECIFICATION AllFairSpec
CONSTANTS
  Tasks = {t1, t2, t3}
CHECK_DEADLOCK FALSE
INVARIANTS
  WhenAllInv
  ReturnsAfterAll
PROPERTIES
  AllReturns
