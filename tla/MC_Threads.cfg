CONSTANTS
  NumThreads = 2
  MaxConns = 3
  Modes = {"Fixed", "Cached"}
  InitSizes = {1, 2}
  ThreadMax = 2
  QueMax = 2
  MaxTasks = 4
  MaxThreadIds = 3
  FirstIds = {0}
SPECIFICATION Spec
INVARIANTS TypeOK RoundRobinBalance CountersTrackThreads ThreadsStarted
PROPERTIES StartReturnsLoops TasksRun FixedDestructorReturns
CHECK_DEADLOCK FALSE
