\* Three waits miss the lane pool together, are cancelled at any time, and
\* race the destruction of a stream.  MaxThreads lets every wait start a
\* thread and Close recover once.
CONSTANTS
  w1 = w1
  w2 = w2
  w3 = w3
  d1 = d1
  h1 = h1
  h2 = h2
  Waits = {w1, w2, w3}
  Destroys = {d1}
  Copies = {}
  Commands = {}
  Handle <- LaneHandle
  Handles = {h1, h2}
  MaxLanes = 2
  MaxThreads = 5
  MaxCloses = 1
SPECIFICATION Spec
CHECK_DEADLOCK FALSE
INVARIANTS LaneCap CountsExact NoWaitOnDestroyed
