CONSTANTS
  NCpu = 1
  MaxTasks = 4
  MaxInQue = 9
  Tasks = {0, 1, 2, 3}
  NIdle = 1
  NBoot = 4
  Sems = {"kbd"}
  KbdSem = "kbd"
  SemInit = 0
  MaxValue = 1
  CanOverfill = FALSE
  CanTeardown = FALSE
SPECIFICATION FairSpec
PROPERTIES ReadyRuns UnitsAreTaken
