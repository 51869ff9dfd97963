CONSTANTS
  Cpus = {0, 1}
  Locks = {1, 2}
  TrapLock = 1
  Tasks = {"a"}
SPECIFICATION LiveSpec
INVARIANTS TypeOK MutualExclusion NoPanic NoPreemptionInside InterruptFlag
PROPERTIES ImplementsAbsLock SomebodyEnters
