\* Two copies against three calls of Close: fail, fail differently, succeed.
CONSTANTS
  Users = {u1, u2}
  Closers = {x1, x2, x3}
SPECIFICATION VSpec
CHECK_DEADLOCK FALSE
INVARIANTS NeverMisused RollbackComplete CloseComplete CopyOnMapped IInv
