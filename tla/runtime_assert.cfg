CONSTANTS
  Modes = {"host", "project"}
  Budget = 2
SPECIFICATION Spec
PROPERTY DownloadHasSession
CHECK_DEADLOCK FALSE
