CONSTANTS
  Modes = {"Fixed"}
  InitSizes = {2}
  ThreadMax = 2
  QueMax = 2
  MaxTasks = 1
  MaxThreadIds = 4
  FirstIds = {2}
SPECIFICATION Spec
INVARIANTS ThreadsStarted
CHECK_DEADLOCK FALSE
