CONSTANTS
  boss = boss
  worker = worker
  h1 = h1
  h2 = h2
  Agent <- MCAgent
  CronAgent <- MCCronAgent
  Handler <- MCOneHandler
  MaxSwo = 1
  MaxExec = 1
  MaxRetries = 1
  MaxReviewFailures = 2
  MaxCrashes = 1
  MaxCommands = 0
SPECIFICATION Spec
PROPERTIES
  RestartLeavesNoneInProgress
CHECK_DEADLOCK FALSE
