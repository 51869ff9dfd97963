CONSTANTS
  t1 = t1
  t2 = t2
  Tasks <- MCTask1
  DirSlots = 5
  MaxInodes = 9
  Blks <- MCBlks
  NrFile = 3
  HdrSz = 1
  BlkSz = 2
  Word = 8
  MaxCount = 2
  Counts = {1}
  Seeks <- MCSeeks
  Paths <- MCDeepPaths
  Begins <- MCBegins
SPECIFICATION Spec
PROPERTIES RmdirOnlyEmpty
CHECK_DEADLOCK FALSE
