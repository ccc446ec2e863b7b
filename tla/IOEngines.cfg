CONSTANTS
  MaxOps <- MCMaxOps
  Sockets = {socket}
  Others = {file}
  Wakeup = wakeup
  Depth = 2
SPECIFICATION EnginesFairSpec
INVARIANT IOInv
PROPERTIES OpsComplete StopEndsLoop
CHECK_DEADLOCK FALSE
