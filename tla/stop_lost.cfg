SPECIFICATION FairExecutionSpec
CONSTANTS
  Scenarios = {"stopped"}
  Participants = {p1, p2}
  None = None
  Ends <- GivenEnds
  Aborts <- Never
  Accepts <- GivenAccepts
  Asks <- GivenAsks
  Budget <- GivenBudget
  MaxOutgoing = 1
  MaxBroadcasts = 1
  LastStep = 1
  Lenient = FALSE
  Crashes = 0
  Stops = 0
PROPERTY StopReachesEveryone
CHECK_DEADLOCK FALSE
