CONSTANTS
  Attempts = {1, 2}
  Machines = {m1}
  Sessions = {1, 2}
  Caller = caller
  NServices = 2
  ConfigOnly = {2}
  MinRAM = 1
  None = None
  MaxCalls = 3
SPECIFICATION MCLifecycleSpec
INVARIANTS LifecycleTypeOK CleanStop ConnectedHasTunnel
PROPERTIES StopReturns ShutdownEnds
CHECK_DEADLOCK FALSE
