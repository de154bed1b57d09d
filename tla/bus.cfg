SPECIFICATION Spec
CONSTANTS
  w1 = w1
  Swo = {w1}
  NoSwo = NoSwo
  ChanCap = 1
  LogCap = 2
  Limit = 1
  MaxInits = 1
  MaxEvents = 3
  MaxOthers = 2
  MaxAtOnce = 3
CONSTRAINT CommandsAreFew
INVARIANTS
  TypeOK
  EmittedBeforeReplayIsHeard
  TwiceOnlyIfInFlight
  SettledViewIsCurrent
CHECK_DEADLOCK FALSE
