SPECIFICATION Spec
CONSTANTS
  w1 = w1
  Swo = {w1}
  NoSwo = NoSwo
  ChanCap = 1
  LogCap = 5
  Limit = 5
  MaxInits = 1
  MaxEvents = 1
  MaxOthers = 0
  MaxAtOnce = 3
INVARIANT NothingMissedBeforeListening
CHECK_DEADLOCK FALSE
