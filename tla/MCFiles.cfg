CONSTANTS
  MaxChanges = 4
  MaxStarts = 2
  MaxBackups = 2
  MaxTime = 4
  MaxVersion = 2
  Assets = {"zip", "tar.gz", "other"}
  Sizes = {0, 1, 2, 3, 125, 126, 127, 128, 129, 255, 256, 257, 383, 384, 511, 512, 1015, 1016, 1020, 32767, 32768, 65535, 65536, 65537, 65663}
  Parts <- MCParts
  Values = {0, 1, 2}
SPECIFICATION Spec
INVARIANT CodecsExact
PROPERTIES ConfigFollows BackupsKept InstalledKept FilesProgress
CHECK_DEADLOCK FALSE
