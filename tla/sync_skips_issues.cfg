SPECIFICATION Spec
CONSTANTS
  Issues = {1, 2}
  None = None
  Overlap = 1
  PageSize = 1
  MaxPages = 3
  MaxTime = 4
  MaxChanges = 3
PROPERTIES
  EverythingIsIngested
CHECK_DEADLOCK FALSE
