SPECIFICATION ConsoleSpec
INVARIANTS MenuReturns
CHECK_DEADLOCK FALSE
