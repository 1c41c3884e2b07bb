SPECIFICATION Spec
CONSTANTS
  Procs = {"p1"}
  Secrets = {"s1", "s2"}
  None = None
  Torn = "torn"
  Blank = "blank"
  MaxPowerLosses = 1
  MaxFaults = 1
INVARIANT InterruptedPublicationIsRejected
CHECK_DEADLOCK FALSE
