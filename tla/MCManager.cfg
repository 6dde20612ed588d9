SPECIFICATION FairManagerSpec
CONSTANTS
  Transports = {wg, ssh, ws}
  Primary = wg
  Scores = {0, 1}
  ByHand = {ssh}
  MayHang = {}
  wg = wg
  ssh = ssh
  ws = ws
INVARIANTS ManagerTypeOK NoOrphans
PROPERTIES BestModeKeepsBest ConnectAllReturns
