SPECIFICATION FairSpec
CONSTANTS
  Transports = {wg, ssh}
  MaxFailCount = 3
  Loops = {l1, l2}
  FailCountCap = 4
  MaxInFlight = 1
  wg = wg
  ssh = ssh
  l1 = l1
  l2 = l2
INVARIANTS TypeOK StatusMatchesFailCount
PROPERTIES OneRecoverPerOutage ImplementsDetector StopSilences
\* The process may panic, and a stopped engine may have nothing left to do.
CHECK_DEADLOCK FALSE
