CONSTANTS
  Procs = {p, q}
  PerProc = 1
  Keys = {"x", "y"}
  Values = {v1, v2, "empty"}
  Empty = "empty"
  KeyLen <- MCKeyLen
  None = "NULL"
  OpenMayFail = TRUE
  MaxCells = 0
  MaxCrashes = 1
  MaxFailures = 1
  MaxFaults = 1
SYMMETRY Symmetric
SPECIFICATION Spec
INVARIANTS LogInv Answers AckedIsDurableUnlessCrash
PROPERTY ImplementsAbsMap
CHECK_DEADLOCK FALSE
