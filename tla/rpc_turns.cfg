SPECIFICATION FairSpec
CONSTANTS
  driver = driver
  other = other
  hook = hook
  leave = leave
  tool1 = tool1
  tool2 = tool2
  Callers = {driver}
  NoCaller = NoCaller
  Reader = Reader
  Stoppers = {}
  Hooks = {}
  ToolCalls = {}
  Operations = {"prompt_and_wait", "wait_for_idle", "collect_events"}
  AgentFaults = {"reject", "late", "badEnd", "continued", "exit"}
  GivesUp = TRUE
  Timeouts = TRUE
  HistoryLimit = 2
  MaxCalls = 3
  MaxEvents = 3
INVARIANTS
  TurnIsItsOwn
  TurnIsComplete
  CountsAgree
PROPERTIES
  EveryCallReturns
CHECK_DEADLOCK FALSE
