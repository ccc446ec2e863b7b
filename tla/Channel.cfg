SPECIFICATION FairSpec
CONSTANTS
  w1 = w1
  w2 = w2
  Writers = {w1, w2}
  Readers = {r1, r2}
  Capacities = {0, 1}
  MaxWrites <- TwoAndOne
  CweTimeout = TRUE
  None = None
CHECK_DEADLOCK FALSE
INVARIANTS
  ChannelInv
  HandedArrives
PROPERTIES
  ImplementsFifoChannel
  CloseReleasesAll
