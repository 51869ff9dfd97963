CONSTANTS
  t1 = t1
  t2 = t2
  Tasks <- MCTasks
  DirSlots = 4
  MaxInodes = 7
  Blks <- MCBlks
  NrFile = 3
  HdrSz = 1
  BlkSz = 2
  Word = 8
  MaxCount = 2
  Counts = {1}
  Seeks <- MCSeeks
  Paths <- MCPaths
  Begins <- MCBegins
CONSTRAINT MCBound
SYMMETRY Symmetric
SPECIFICATION Spec
INVARIANTS CountsAreRight BlocksAreOwn BlocksGivenBack DiskInv
PROPERTIES OneNameAtATime
CHECK_DEADLOCK FALSE
