\* Two copies between two buffers in opposite directions, both being closed.
CONSTANTS
  Procs = {1, 2, 3, 4}
  Handles <- MCHandleSet
  CtxOf <- MCCtxOf
  Work <- OppositeCopies
SPECIFICATION FairSpec
CHECK_DEADLOCK FALSE
PROPERTIES EveryOpReturns
