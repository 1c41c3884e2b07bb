SPECIFICATION Spec
CONSTANTS
  None = None
  Bad = Bad
  Illegal = Illegal
INVARIANTS
  ReplicasStayTogether
  OutcomesAreFair
PROPERTIES
  SessionEnds
CHECK_DEADLOCK FALSE
