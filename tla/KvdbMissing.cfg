CONSTANTS
  Procs = {"p"}
  PerProc = 1
  Keys = {"x", "y"}
  Values = {"1", "2"}
  Empty = "empty"
  KeyLen <- MCKeyLen
  None = "NULL"
  OpenMayFail = FALSE
  MaxCells = 10
  MaxCrashes = 0
  MaxFailures = 0
  MaxFaults = 1
SPECIFICATION Spec
INVARIANT MissingKeyIsNull
