SPECIFICATION StopSpec
CONSTANTS
  d1 = d1
  d2 = d2
  d3 = d3
  k1 = k1
  Deliveries = {d1, d2, d3}
  IssueKey <- MCIssueKey
  NoKey = NoKey
  ManualIds = {d1}
  Slots = {s1, s2}
  NoSlot = NoSlot
  None = None
  MaxRetries = 0
  DbFaults = TRUE
  MaxRestarts = 1
  MaxCrashes = 1
  MaxOps = 0
INVARIANTS
  SlotAccounting
PROPERTIES
  StopReturns
CHECK_DEADLOCK FALSE
