CONSTANTS
  NCpu = 2
  MaxTasks = 4
  MaxInQue = 6
  Tasks = {0, 1, 2, 3, 4}
  NIdle = 2
  NBoot = 4
  Sems = {"kbd"}
  KbdSem = "kbd"
  SemInit = 0
  MaxValue = 2
  CanOverfill = FALSE
  CanTeardown = TRUE
SPECIFICATION Spec
INVARIANTS TypeOK StackInv QueueInv NoSpuriousWakeup NoLostWakeup AlwaysEligible RunningInTable
CONSTRAINT MCBound
