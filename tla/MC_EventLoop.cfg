CONSTANTS
  Loops = {L1, L2}
  WakeCh = WakeCh
  IoCh = IoCh
  Outside = Outside
  MaxFunctors = 2
SPECIFICATION Spec
INVARIANTS TypeOK NoStalledFunctor
PROPERTIES FifoRefinement Delivery QuitTerminates
CHECK_DEADLOCK FALSE
