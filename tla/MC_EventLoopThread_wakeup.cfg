CONSTANTS
  NumThreads = 2
  MaxConns = 3
SPECIFICATION Spec
INVARIANTS NoWakeupOfDestroyedLoop
CHECK_DEADLOCK FALSE
