SPECIFICATION MCSpec
CONSTANTS
  i1 = i1
  i2 = i2
  Issues = {i1, i2}
  NoIssue = NoIssue
  Window = 1
  BatchLimit = 1
  Faults = {"error", "gone", "outage", "halt"}
  MaxAnswers <- MCMaxAnswers
  MaxTime = 1
  Numbers = {1, 2}
  None = None
  Overlap = 1
  PageSize = 1
  MaxPages = 2
  MaxChanges = 3
  LongRun = 3
INVARIANTS
  TypeOK
  ObjectionStands
  VetoIsHeard
  StaleIsListed
PROPERTIES
  DueIsDecided
