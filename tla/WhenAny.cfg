SPECIFICATION AnyFairSpec
CONSTANTS
  Tasks = {t1, t2, t3}
  NoTask = NoTask
INVARIANTS
  WhenAnyInv
  SerialReturnsWinner
PROPERTY AnyReturns
CHECK_DEADLOCK FALSE
