CONSTANTS
  t1 = t1
  t2 = t2
  Task = {t1, t2}
  NoTask = NoTask
  Delay = {0, 1}
  MaxTime = 2
  Uses <- MCUses
SPECIFICATION ServerSpec
INVARIANTS TasksReachLiveMembers NoThreadLeft
CHECK_DEADLOCK FALSE
