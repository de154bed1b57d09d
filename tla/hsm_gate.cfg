CONSTANTS
  boss = boss
  worker = worker
  peer = peer
  h1 = h1
  Agent <- MCTeam
  CronAgent <- MCNoAgent
  Handler <- MCHandler
  Reports <- MCTeamReports
  MaxSwo = 3
  MaxExec = 3
  MaxRetries = 1
  MaxReviewFailures = 2
  MaxCrashes = 0
  MaxCommands = 0
  MaxTargets = 2
  MaxRoots = 2
SPECIFICATION HsmSpec
PROPERTY
  ClosesAfterChildren
CHECK_DEADLOCK FALSE
