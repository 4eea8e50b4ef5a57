CONSTANTS
  MaxInt = 7
  MaxUint32 = 3
  ElemSizes = {1, 2, 4, 8}
  Objects = {b1, b2}
SPECIFICATION Spec
CHECK_DEADLOCK FALSE
INVARIANTS PitchedSizeFits
