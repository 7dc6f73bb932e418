CONSTANTS
  Alignment = 16
  SmallHdr = 32
  LargeHdr = 16
  CleanupHdr = 24
  PoolObj = 40
  MaxAlloc = 63
  DefaultPoolSize = 128
  RequestedSize = 104
  Word = 256
  Sizes = {8, 40, 80}
  CleanupSizes = {0, 24}
  MaxBlocks = 2
  MaxLarge = 2
  MaxFails = 1
  HeapBase = 16
  MaxHeap = 320
SPECIFICATION Spec
INVARIANTS SmallInBounds
