CONSTANTS
  boss = boss
  worker = worker
  peer = peer
  h1 = h1
  Agent <- MCAgent
  CronAgent <- MCNoAgent
  Handler <- MCHandler
  Reports <- MCReports
  MaxSwo = 3
  MaxExec = 3
  MaxRetries = 1
  MaxReviewFailures = 2
  MaxCrashes = 0
  MaxCommands = 0
  MaxTargets = 2
  MaxRoots = 1
SPECIFICATION HsmSpec
INVARIANT
  LineageIsLoopFree
CHECK_DEADLOCK FALSE
