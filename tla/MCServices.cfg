CONSTANTS
  Configs <- Texts
  Partial = Partial
  NoConfig = NoConfig
  MaxSaves = 2
  MaxLoops = 2
  SecretNames = {s1, s2}
  AutoRotate = TRUE
  MaxValues = 5
  MaxRotators = 2
  Clients = {c1, c2}
  Keys = {k1}
  Amounts = {1, 2}
  MaxTokens = 2
  RefillRate = 1
  Timeout = 1
  MaxTime = 2
  MaxBuckets = 2
  Askers = {a1, a2}
  DoHAskers = {d1}
  Hosts <- TwoHosts
  Nameservers = 2
  MaxClears = 1
SPECIFICATION MCServicesSpec
INVARIANTS ServicesTypeOK BoundedSpending CacheIsTrue UpdateTellsTruth
PROPERTIES ChangeIsApplied
CHECK_DEADLOCK FALSE
