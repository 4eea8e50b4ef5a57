CONSTANTS
  Calls = {k1, k2}
  NoCall = NoCall
  Ops = {o1, o2}
  Tracked = {t1, t2}
  OpTypes = {"memOp", "syncOp", "memcpy2DOp", "memcpy3DOp", "memcpy2DAsyncOp",
             "memcpy3DAsyncOp", "launchOp", "graphLaunchOp", "eventElapsedOp"}
SPECIFICATION Spec
SYMMETRY Symmetric
CHECK_DEADLOCK FALSE
INVARIANTS OwnArguments OneOwner
