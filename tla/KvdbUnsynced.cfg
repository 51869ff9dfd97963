CONSTANTS
  Procs = {"p", "q"}
  PerProc = 1
  Keys = {"x"}
  Values = {"1"}
  Empty = "empty"
  KeyLen <- MCKeyLen
  None = "NULL"
  OpenMayFail = FALSE
  MaxCells = 10
  MaxCrashes = 1
  MaxFailures = 0
  MaxFaults = 1
SPECIFICATION Spec
INVARIANT AckedIsDurable
