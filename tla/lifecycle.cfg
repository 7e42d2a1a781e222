SPECIFICATION MCSpec
CONSTANTS
  Deliveries = {d1, d2, d3}
  submitter = submitter
  CapOfOthers = 1
  CapOfContributors = 2
  LongRun = 2
  Issues = {i1}
  BotPulls = {p1}
  HumanPulls = {h1, f1}
  Forks = {f1}
  Bodies <- MCBodies
  None = None
  Detached = Detached
  MaxEvents = 3
  MaxRetries = 1
  MaxFaults = 1
  w1 = w1
  w2 = w2
  b0 = b0
  b1 = b1
  b2 = b2
  b3 = b3
  Workspaces = {w1, w2}
  Names = {b0, b1, b2, b3}
  Default = b0
  Own <- MCOwn
  MaxCommits = 2
  k1 = k1
  k2 = k2
  MaxEntries = 1
  MaxBuilds = 2
  MaxCaptures = 3
  get = get
  post = post
  Attempts = 2
  Tries = 2
  Skew = 1
INVARIANTS
  TypeOK
  PushHasGrounds
  PullIsFound
  FollowUpAmendsItsPull
  TriageIsOfAnOpenIssue
  FirstTryAmendsItsOwn
  LeftoversAreFound
  CheckoutIsWhole
  QueuedWithinCap
  HitIsWhole
  RepeatedOnlyUnanswered
PROPERTIES
  PushSparesForeign
  EntryIsSealed
CHECK_DEADLOCK FALSE
