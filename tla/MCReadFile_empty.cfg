CONSTANTS
  Sizes = {0, 1}
  Layouts <- WithLength
  Requested = {0}
  IdLens = {1}
  WordSize = 65536
  Pieces = {255}
  MaxReuses = 0
  MaxRewrites = 0
  MaxFaults = 0
SPECIFICATION FairSpec
PROPERTY ReadReturns
CHECK_DEADLOCK FALSE
