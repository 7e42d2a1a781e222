SPECIFICATION Spec
CONSTANTS
  i1 = i1
  i2 = i2
  Issues = {i1}
  NoIssue = NoIssue
  Window = 1
  BatchLimit = 1
  Faults = {"outage"}
  MaxAnswers <- MCMaxAnswers
  MaxTime = 1
INVARIANTS
  ClaimIsOwned
