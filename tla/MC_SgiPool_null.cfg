CONSTANTS
  Align = 8
  MaxBytes = 16
  NObjs = 3
  Sizes = {8, 16, 24}
  MaxHeld = 2
  MaxFails = 2
  HeapBase = 16
  MaxHeap = 160
SPECIFICATION Spec
INVARIANTS NoOverlap
