SPECIFICATION NegotiationSpec
CONSTANTS
  Scenarios = {"given", "restarts"}
  None = None
  Hosts = {1, 2, 3}
  Creators = {1, 2}
  Target <- AnyTarget
  Params = {1}
  Pref <- AllPrefer
  TargetSize = 2
  Fast = {}
  MaxAttempts = 1
  Lossy = FALSE
  MaxSeq = 1
  MaxStarts <- NoStarts
  Withdrawers = {3}
INVARIANTS
  TypeOK
  FailureExcludesActivation
  SignedIsPrepared
  CommitIsUnanimous
  TicketsNameTheBoundNegotiation
PROPERTIES
  RecordsArePermanent
  WithdrawalIsNotUndone
CHECK_DEADLOCK FALSE
