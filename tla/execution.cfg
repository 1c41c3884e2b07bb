SPECIFICATION ExecutionSpec
CONSTANTS
  Scenarios = {"given", "faults", "rivals", "windows", "late", "races"}
  Participants = {p1, p2}
  None = None
  Ends <- GivenEnds
  Aborts <- Never
  Accepts <- GivenAccepts
  Asks <- GivenAsks
  Budget <- GivenBudget
  MaxOutgoing = 2
  MaxBroadcasts = 2
  LastStep = 2
  Lenient = TRUE
  Crashes = 1
  Stops = 0
INVARIANTS
  TypeOK
  NoStepPastAStop
  ConclusionsAgree
  LaggardHoldsTheStep
  HandshakeIsSound
  OwnMessagesOnceInOrder
  SignedWordHolds
  CertifiedTracesAgree
PROPERTIES
  SignatureBinds
  ImplementsAgreedSession
CHECK_DEADLOCK FALSE
