CONSTANTS
  c1 = c1
  c2 = c2
  CPUs <- MCCPUs
  HeapSz = 19
  Info = 1
  Unit = 5
  Ignore = 1
  Sizes = {1, 2, 6}
SYMMETRY Symmetric
SPECIFICATION Spec
INVARIANTS HeapInv LiveIsOwn ListsAreRight
CHECK_DEADLOCK FALSE
