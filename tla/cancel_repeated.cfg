SPECIFICATION Spec
CONSTANTS
  Creates = {"r1", "r2"}
  Differing = {}
  Cancels = {"k1"}
  Withdraws = {}
  Terminates = {}
  Awaits = {}
  Nexts = {}
  Recovered = "recovered"
  None = None
  MaxCrashes = 0
  ProgramsBreak = FALSE
PROPERTY AcknowledgedCancelStops
CHECK_DEADLOCK FALSE
