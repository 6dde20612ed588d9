SPECIFICATION FairManagerSpec
CONSTANTS
  Transports = {wg, ws}
  Primary = wg
  Scores = {0, 1}
  ByHand = {}
  MayHang = {ws}
  wg = wg
  ws = ws
PROPERTIES ConnectAllReturns
\* A Score that hangs leaves the manager, and so the system, nothing to do.
CHECK_DEADLOCK FALSE
