SPECIFICATION Spec
CONSTANTS
  driver = driver
  other = other
  hook = hook
  leave = leave
  tool1 = tool1
  tool2 = tool2
  Callers = {driver}
  NoCaller = NoCaller
  Reader = Reader
  Stoppers = {hook, leave}
  Hooks = {hook}
  ToolCalls = {tool1}
  Operations = {"prompt_and_wait"}
  AgentFaults = {"exit", "garbage"}
  GivesUp = TRUE
  Timeouts = TRUE
  HistoryLimit = 1
  MaxCalls = 1
  MaxEvents = 1
INVARIANTS
  TypeOK
  OneReplyPerRequest
  AwaitedIsReachable
  NoLostWakeup
  ForgottenProcessIsDead
CHECK_DEADLOCK FALSE
