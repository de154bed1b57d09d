SPECIFICATION OfficeSpec
CONSTANTS
  Template = {"daily"}
  FirstRunAt = 1
  RunTask = {1, 2}
  Period = 1
  MaxClock = 1
  MaxRuns = 6
  MaxManual = 1
  MaxFaults = 1
  Schedule <- MCSchedule
  StartDay <- MCStartDay
  StartTime <- MCStartTime
  LastDay = 19420
  Request <- MCRequest
  Granted = {"WriteOutbox", "DispatchSwo"}
  MaxBeats = 2
  MaxSent = 2
  Name = {"Perry", "Dan", "Eve"}
  RootName = "Perry"
  Role = {"chief", "analyst"}
  Leading = {"chief"}
  Caller = {1, 2}
  Mode = "ANY_MANAGER"
  Cap = 1
  Seed <- MCSeed
  MaxAgents = 3
  MaxCalls = 2
  MaxAgentEdits = 1
  Tool = {"tavily", "brave"}
  Connector = {"mcp"}
  Skill = {"brief"}
  Binder = {"b1", "b2"}
  MaxEdits = 4
  MaxVersions = 2
  Account = {"openai"}
  Command = {"c1", "c2"}
  MaxSaves = 2
  MaxStarts = 2
  Provider = {"anthropic", "openai"}
  Anthropic = "anthropic"
  Window = {"w1", "w2"}
  MaxSets = 1
  MaxBoots = 2
  Profile = {"p1", "p2"}
  Team <- MCTeam
  Starters <- MCStarters
  Plans <- MCPlans
  MaxRows = 4
  MaxSeedings = 4
  Contact = {"perry", "cat"}
  Update <- MCUpdate
  NoMessage = 0
  Nobody = "nobody"
  Hook = {1, 2}
  MaxPosts = 2
  MaxBinds = 1
  MaxStops = 1
  Assignee = {"perry", "cat", "dan", "eve"}
  Condition = {"team", "enterprise", "asked"}
  Workflow <- MCWorkflow
  Context <- MCContext
  Entry = "perry"
  Unasked = "nobody"
  Always = "always"
  MaxLaunches = 1
  CommandId = {1, 2}
  Invocation = {"i1", "i2"}
  Remembered = 1
  MaxInvokes = 4
  MaxExits = 1
INVARIANTS
  OfficeTypeOK
  NumbersClashOnlyInOverlap
  SlotTakenOnce
  ClaimedIsExecuted
  NextRunFits
  EndBeatStands
  LostAtTheEnd
  CapBrokenOnlyByOverlap
  WalkEndsAtARoot
  GivenWasPermitted
  SkillLoads
  SavedSecretIsRead
  VaultKeyIsKept
  ChoiceIsKept
  UpMeansSeeded
  NothingLostUnarchived
  HeardOnce
  ClaimedIsSettled
  WorkflowIsWhole
  CreatedOnceAndAnnounced
PROPERTY
  DueIsServed
CHECK_DEADLOCK FALSE
