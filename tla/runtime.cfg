CONSTANTS
  Modes = {"host", "project"}
  Budget = 3
SPECIFICATION FairSpec
INVARIANTS TypeOK NoDanglingVarsets SelectedIsAttached RetriesUnlessHandling NeverGivesUp
PROPERTIES ComesBack CloseEnds
CHECK_DEADLOCK FALSE
