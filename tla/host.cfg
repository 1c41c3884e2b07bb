SPECIFICATION HostSpec
CONSTANTS
  None = None
  Parts = {"execs", "retries", "waiters", "ends", "power", "faults", "both", "daemon",
           "reads", "submits", "races", "book", "terms", "record", "answers", "events", "resumes", "loads"}
  Cancels = {"k1"}
  Terminates = {"t1"}
  MaxCrashes = 1
  ProgramsBreak = TRUE
  Others = {"h2", "h3"}
  Opens = {"o1", "o2"}
  MaxBoots = 1
  MaxAgreed = 2
INVARIANTS
  AcknowledgedCreationSurvives
  HostsOpenAndCloseWhole
  ClientsSeeOneHistory
  RecordIsSound
  
PROPERTIES
  HostNeverTakesBack
CHECK_DEADLOCK FALSE
