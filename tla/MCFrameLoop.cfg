CONSTANTS
  Task = {t1, t2, t3}
  Throwing = {t1}
  Delay = {0, 1}
  MaxTime = 1
SPECIFICATION FairSpec
INVARIANTS NothingLost
PROPERTIES OnceAFrame FrameServesDue SignalIsFinal RunProgresses
CHECK_DEADLOCK FALSE
