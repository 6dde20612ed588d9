CONSTANTS
  Names = {wg, ssh, frp}
  Modes = {"weighted", "even"}
  Scores = {0, 1, 99}
  InitialWeights = {30}
  wg = wg
  ssh = ssh
  frp = frp
  BackendNames = {b1, b2}
  Weights = {0, 1, 2}
  Loads <- SmallLoads
  Algorithms = {"roundRobin", "weighted", "connections", "latency", "random", "ipHash"}
  Hashes = {0, 5}
  MaxBackends = 3
  Period = 6
SPECIFICATION MCBalancingSpec
SYMMETRY Symmetry
INVARIANTS BalancingTypeOK WeightedTotalExact PicksCarryWeight AdjustShares FairShare HashesShareByWeight
PROPERTIES UpdateShares
