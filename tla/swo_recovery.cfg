CONSTANTS
  boss = boss
  worker = worker
  h1 = h1
  h2 = h2
  Agent <- MCCronAgent
  CronAgent <- MCCronAgent
  Handler <- MCOneHandler
  MaxSwo = 2
  MaxExec = 4
  MaxRetries = 1
  MaxReviewFailures = 1
  MaxCrashes = 1
  MaxCommands = 0
SPECIFICATION FairSpec
INVARIANTS
  OneClaimPerAttempt
  CronSingleFlight
  InFlightHasRun
PROPERTIES
  PendingIsServed
  ReaperSparesOnlySilent
CHECK_DEADLOCK FALSE
