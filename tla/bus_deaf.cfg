SPECIFICATION RetrySpec
CONSTANTS
  w1 = w1
  Swo = {w1}
  NoSwo = NoSwo
  ChanCap = 1
  LogCap = 2
  Limit = 1
  MaxInits = 2
  MaxEvents = 0
  MaxOthers = 0
  MaxAtOnce = 3
INVARIANT InitialisedBusIsHeard
CHECK_DEADLOCK FALSE
