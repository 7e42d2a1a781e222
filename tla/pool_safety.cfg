SPECIFICATION HistorySpec
CONSTANTS
  d1 = d1
  d2 = d2
  d3 = d3
  k1 = k1
  Deliveries = {d1, d2}
  IssueKey <- MCIssueKey
  NoKey = NoKey
  ManualIds = {d1}
  Slots = {s1}
  NoSlot = NoSlot
  None = None
  MaxRetries = 1
  DbFaults = FALSE
  MaxRestarts = 1
  MaxCrashes = 1
  MaxOps = 2
INVARIANTS
  TypeOK
  OneDeliveryPerIssue
  NoDetachedAgent
  HandledRowIsRunning
  RunningRowIsOwned
  WithinRetryBudget
PROPERTIES
  LedgerSpec
