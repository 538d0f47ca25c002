CONSTANTS
  MaxVersion = 2
  Assets = {"zip", "tar.gz", "other"}
SPECIFICATION Spec
PROPERTY InstallSucceeds
CHECK_DEADLOCK FALSE
