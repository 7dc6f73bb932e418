CONSTANTS
  Base = 0
  WakeCh = WakeCh
  AcceptCh = AcceptCh
  Outside = Outside
  MaxConns = 1
  MsgSize = 1
  MaxUserSends = 1
  UserOps = {"Send", "Shutdown"}
  EchoModes = {"Echo", "EchoShutdown"}
  Bytes = {a, b}
  Zero = zero
  CheapPrepend = 1
  InitialSize = 2
  ExtraSize = 2
  BufWord = 16
  MaxChunk = 3
  BufMaxSize = 6
  InitSize = 1
  MaxSize = 2
  Clients = {c1, c2, c3}
  MaxConnIds = 4
  Align = 8
  MaxBytes = 16
  NObjs = 3
  Sizes = {8, 16, 24}
  MaxHeld = 2
  MaxFails = 1
  HeapBase = 16
  MaxHeap = 160
  Alignment = 16
  SmallHdr = 32
  LargeHdr = 16
  CleanupHdr = 24
  PoolObj = 40
  MaxAlloc = 63
  DefaultPoolSize = 128
  RequestedSize = 128
  NgxWord = 256
  NgxSizes = {48, 80}
  CleanupSizes = {0, 24}
  MaxBlocks = 2
  MaxLarge = 2
  NgxMaxFails = 1
  NgxHeapBase = 16
  NgxMaxHeap = 320
SPECIFICATION Spec
INVARIANTS TypeOK DownAtMostOnce ChannelRemovedBeforeDestroy IndexOrder ConnectionAccounting NoOverlap NoLeak LargeAccounting
PROPERTIES CloseCompletes TeardownCompletes BufferIsQueue
