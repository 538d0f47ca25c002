CONSTANTS
  Beats = 2
  MaxServers = 2
  Configs = {"mine"}
  MaxProcesses = 2
  MaxTimers = 2
  MaxChecks = 2
  Empty = Empty
  Yes = Yes
  Address = Address
  Other = Other
  Numbers <- MCNumbers
  DefaultPort = 5
  DefaultPlayers = 2
  LargestPort = 15
  MostPlayers = 3
  Commands = {"say", "stop"}
  MaxLines = 3
  MaxStarts = 2
  Status = {0, 200, 204, 301}
  Url <- MCUrl
  Version <- MCVersion
  Assets <- MCAssets
SPECIFICATION Spec
INVARIANTS ImGuiThreads EntryConsents
PROPERTIES QtProcess ConsoleHandles CheckIsClosed NewerIsNewer ProgramsProgress
CHECK_DEADLOCK FALSE
