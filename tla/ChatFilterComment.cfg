CONSTANTS
  Ticks = 2
  MaxTime = 16
SPECIFICATION Spec
INVARIANT OlderThanWindowRemoved
CHECK_DEADLOCK FALSE
