SPECIFICATION FairHostSpec
CONSTANTS
  None = None
  Parts = {"execs", "ends", "daemon", "timers", "crowded", "events"}
  Cancels = {"k1"}
  Terminates = {}
  MaxCrashes = 0
  ProgramsBreak = FALSE
  Others = {"h2"}
  Opens = {"o1"}
  MaxBoots = 2
  MaxAgreed = 1
PROPERTIES
  NobodyWaitsForEver
CHECK_DEADLOCK FALSE
