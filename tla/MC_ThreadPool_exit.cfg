CONSTANTS
  Modes = {"Cached"}
  InitSizes = {1}
  ThreadMax = 2
  QueMax = 2
  MaxTasks = 4
  MaxThreadIds = 3
  FirstIds = {0}
SPECIFICATION Spec

PROPERTIES DestructorReturns
CHECK_DEADLOCK FALSE
