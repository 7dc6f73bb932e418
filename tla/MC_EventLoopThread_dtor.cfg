CONSTANTS
  NumThreads = 2
  MaxConns = 3
SPECIFICATION Spec
PROPERTIES DestructorReturns
CHECK_DEADLOCK FALSE
