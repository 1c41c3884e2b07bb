SPECIFICATION FairExecutionSpec
CONSTANTS
  Scenarios = {"given", "stopped", "forming"}
  Participants = {p1, p2}
  None = None
  Ends <- GivenEnds
  Aborts <- Never
  Accepts <- GivenAccepts
  Asks <- GivenAsks
  Budget <- GivenBudget
  MaxOutgoing = 1
  MaxBroadcasts = 1
  LastStep = 1
  Lenient = FALSE
  Crashes = 1
  Stops = 0
PROPERTIES
  SessionsConclude
  ActivationSpreads
CHECK_DEADLOCK FALSE
