CONSTANTS
  Task = {t1, t2, t3}
  NoTask = NoTask
  Delay = {0, 1, 2}
  MaxTime = 4
SPECIFICATION FairSpec
INVARIANTS NoOversleep EachTaskOnce
PROPERTIES ImplementsContract Progresses
CHECK_DEADLOCK FALSE
