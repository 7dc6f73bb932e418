CONSTANTS
  Loops <- MCLoops
  Base = 0
  WakeCh = WakeCh
  AcceptCh = AcceptCh
  Outside = Outside
  MaxConns = 1
  MsgSize = 1
  MaxUserSends = 1
  UserOps = {"Shutdown"}
  EchoModes = {"Echo"}
SPECIFICATION Spec
INVARIANTS NoUseAfterFree
