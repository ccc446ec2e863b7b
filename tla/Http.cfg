CONSTANTS
  k1 = k1
  k2 = k2
  Callers = {k1, k2}
  MaxRedirects = 1
  MaxConns = 2
  MaxRequests = 2
  Setups <- MCSetups
SPECIFICATION FairSpec
INVARIANTS HttpInv Matched
PROPERTIES SendsReturn ListenReturns
CHECK_DEADLOCK FALSE
