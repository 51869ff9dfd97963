CONSTANTS
  Procs = {"p"}
  PerProc = 2
  Keys = {"x"}
  Values = {"1"}
  Empty = "empty"
  KeyLen <- MCKeyLen
  None = "NULL"
  OpenMayFail = FALSE
  MaxCells = 0
  MaxCrashes = 1
  MaxFailures = 0
  MaxFaults = 1
SPECIFICATION FairSpec
INVARIANTS OneWorker
PROPERTY EveryCallReturns
