CONSTANTS
  KeyLens = {200}
  MaxPairs = 1
  MaxKeys = 1
  MaxFaults = 0
SPECIFICATION Spec
INVARIANT KeyIsWhole
CHECK_DEADLOCK FALSE
