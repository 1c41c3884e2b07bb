SPECIFICATION StoreSpec
CONSTANTS
  None = None
  Execs = {e1, e2}
  Blobs <- OneBlob
  Bytes = {0, 1}
  Users = {"u"}
  MaxWrites = 2
  MaxEdits = 1
  MaxCrashes = 1
  MaxImports = 1
  MaxEvents = 2
SYMMETRY ExecSymmetry
INVARIANTS
  BlobsSurvive
  ReceiptsAreGenuine
  GuestIsIsolated
PROPERTIES
  StoreNeverTakesBack
CHECK_DEADLOCK FALSE
