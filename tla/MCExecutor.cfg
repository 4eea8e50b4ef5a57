\* One cancellable call and one that waits, two completions (so that a
\* recycled completion is reused); two goroutines close.
CONSTANTS
  Calls = {w1, x1}
  WaitCalls = {w1}
  w1 = w1
  x1 = x1
  Comps = {c1, c2}
  Closers = {z1, z2}
  NoCall = NoCall
  NoComp = NoComp
SPECIFICATION FairSpec
CHECK_DEADLOCK FALSE
INVARIANTS PoolClean OwnResult NeverStuck RecycledOnce WaitMeansFinished DoneMeansQuiet IInv
PROPERTIES ImplementsService RetireHonoured EveryCallReturns EveryJobRecycled
