CONSTANTS
  MaxStarts = 1
  MaxTimers = 1
  MaxChecks = 1
SPECIFICATION Spec
INVARIANT ServerIsServer
CHECK_DEADLOCK FALSE
