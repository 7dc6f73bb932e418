CONSTANTS
  InitSize = 1
  MaxSize = 2
  Clients = {c1, c2}
  MaxConnIds = 4
SPECIFICATION Spec
INVARIANTS NoFrontOfEmptyQueue
