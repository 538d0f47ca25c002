CONSTANTS
  Beats = 2
  MaxStarts = 2
  Configs = {"mine"}
SPECIFICATION Spec
INVARIANT LoadedIsFile
CHECK_DEADLOCK FALSE
