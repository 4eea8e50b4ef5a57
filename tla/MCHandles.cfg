\* Any two operations of the ordered ones against any two closes.
CONSTANTS
  Procs = {1, 2, 3, 4}
  Handles <- MCHandleSet
  CtxOf <- MCCtxOf
  Work <- OrderedWork
SPECIFICATION FairSpec
CHECK_DEADLOCK FALSE
INVARIANTS TypeOK NeverAfterClose DestroyAlone
PROPERTIES EveryOpReturns
