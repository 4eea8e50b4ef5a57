\* A wait, a destroy, a copy and a command against two calls of
\* Close, each of which may fail at the driver.  MaxThreads lets every
\* executor start and every Close recover.
CONSTANTS
  w1 = w1
  w2 = w2
  w3 = w3
  d1 = d1
  h1 = h1
  h2 = h2
  Waits = {w1}
  Destroys = {d1}
  Copies = {k1}
  Commands = {m1}
  Handle <- CloseHandle
  Handles = {h1, h2}
  MaxLanes = 2
  MaxThreads = 5
  MaxCloses = 2
SPECIFICATION FairSpec
CHECK_DEADLOCK FALSE
INVARIANTS ContextCurrent ThreadsClean RetainBalance
PROPERTIES EveryCallReturns
