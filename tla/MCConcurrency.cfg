CONSTANTS
  Thread = {h1, h2}
  Path = {good, bad}
  Bad = {bad}
  MaxLoads = 3
  Task = {plain, null, throwing}
  Null = {null}
  Throwing = {throwing}
  ThreadCount = 2
  MaxThreads = 3
  NoTask = NoTask
  Types = {join, chat}
  MaxHandlers = 5
  MaxDepth = 2
SPECIFICATION Spec
INVARIANTS ModulesStayMapped PoolKeepsTasks
PROPERTIES DispatchesComplete WorkProgresses
CHECK_DEADLOCK FALSE
