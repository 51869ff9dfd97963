CONSTANTS
  MaxCo = 5
  MaxStarts = 4
  Strayings = {"nest", "reuse", "yield"}
SPECIFICATION FairSpec
INVARIANTS TableInv WaitsOfMainEndRight WaitsForItsOwn NeverSpins
PROPERTIES WaitReturns
CHECK_DEADLOCK FALSE
