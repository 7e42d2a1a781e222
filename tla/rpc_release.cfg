SPECIFICATION FairSpec
CONSTANTS
  driver = driver
  other = other
  hook = hook
  leave = leave
  tool1 = tool1
  tool2 = tool2
  Callers = {driver, other}
  NoCaller = NoCaller
  Reader = Reader
  Stoppers = {hook}
  Hooks = {}
  ToolCalls = {}
  Operations = {"prompt_and_wait", "request"}
  AgentFaults = {"unknown", "parse", "exit"}
  GivesUp = FALSE
  Timeouts = FALSE
  HistoryLimit = 2
  MaxCalls = 2
  MaxEvents = 0
INVARIANTS
  ReplyAnswersItsRequest
PROPERTIES
  ClosedReleases
CHECK_DEADLOCK FALSE
