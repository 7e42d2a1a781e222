SPECIFICATION MCSpec
CONSTANTS
  w1 = w1
  w2 = w2
  b1 = b1
  b2 = b2
  main = main
  Workspaces = {w1, w2}
  Branches = {main, b1, b2}
  Default = main
  Own <- MCOwn
  None = None
  Detached = Detached
  MaxCommits = 2
  MaxFaults = 0
PROPERTIES
  NothingForeignIsLost
CHECK_DEADLOCK FALSE
