SPECIFICATION SchedulerSpec
CONSTANTS
  Names = {wg, ssh}
  Modes = {"weighted", "even"}
  Scores = {0, 1}
  InitialWeights = {30}
  wg = wg
  ssh = ssh
INVARIANTS SelectPathDefined
