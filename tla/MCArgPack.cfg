\* Two slots of two bytes; the arena grows from 4 bytes, is kept up to 8.
CONSTANTS
  inlineArgs = 2
  slotBytes = 2
  spillAlign = 2
  minArenaCap = 4
  MaxRetainedSpillBytes = 8
  Types <- MCTypes
  SizeOf <- MCSizeOf
  RawSizes = {1, 5}
  Bytes = {0, 1}
  MaxArgs = 4
SPECIFICATION Spec
INVARIANTS ValuesKept DriverSeesArguments
