CONSTANTS
  boss = boss
  worker = worker
  h1 = h1
  h2 = h2
  Agent <- MCAgent
  CronAgent <- MCNoAgent
  Handler <- MCHandler
  MaxSwo = 2
  MaxExec = 2
  MaxRetries = 1
  MaxReviewFailures = 2
  MaxCrashes = 0
  MaxCommands = 2
SPECIFICATION Spec
INVARIANTS
  TypeOK
  RunIsNewestClaim
  AutoRetryBound
PROPERTIES
  QueueKept
  TerminalHasReader
SYMMETRY Handlers
CHECK_DEADLOCK FALSE
