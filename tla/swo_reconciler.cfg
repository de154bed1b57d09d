CONSTANTS
  boss = boss
  worker = worker
  h1 = h1
  h2 = h2
  Agent <- MCAgent
  CronAgent <- MCCronAgent
  Handler <- MCOneHandler
  MaxSwo = 2
  MaxExec = 2
  MaxRetries = 1
  MaxReviewFailures = 2
  MaxCrashes = 0
  MaxCommands = 0
SPECIFICATION Spec
PROPERTIES
  ReconcilerSparesManagers
CHECK_DEADLOCK FALSE
