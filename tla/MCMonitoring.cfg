SPECIFICATION FairMonitoringSpec
CONSTANTS
  Transports = {wg, ssh}
  Primary = wg
  MaxFailCount = 2
  Loops = {l1}
  FailCountCap = 2
  MaxInFlight = 1
  Bases = {1}
  Qualities = {0, 2}
  ScoreDiff = 1
  MayFail = {ssh}
  MayHang = {ssh}
  MaxCount = 1
  wg = wg
  ssh = ssh
  l1 = l1
INVARIANTS MonitoringTypeOK RoundsAreUniform SwitchesAreCounted
PROPERTIES LoopSwitchesToBest EvaluatorActsOnRecoveryOnly LaggardAbandoned 
\* After Stop the loop and the goroutines end.
CHECK_DEADLOCK FALSE
