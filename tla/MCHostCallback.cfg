\* Four launches on two streams, so that callbacks of one stream queue up and
\* those of the two overlap; either context may be closed at any time.
CONSTANTS
  l1 = l1
  l2 = l2
  l3 = l3
  l4 = l4
  s1 = s1
  s2 = s2
  c1 = c1
  c2 = c2
  Launches = {l1, l2, l3, l4}
  Streams = {s1, s2}
  StreamOf <- MCStreamOf
  Contexts = {c1, c2}
  ContextOf <- MCContextOf
  NoLaunch = NoLaunch
SPECIFICATION FairSpec
CHECK_DEADLOCK FALSE
INVARIANTS ExactlyOnce RegistryExact
PROPERTIES AcceptedRuns
