CONSTANTS
  Sizes = {255, 600, 1022, 1023}
  Layouts <- MCLayouts
  Requested = {0, 1, 1023}
  IdLens = {1, 253, 254}
  WordSize = 1024
  Pieces = {100, 255, 256}
  MaxReuses = 1
  MaxRewrites = 1
  MaxFaults = 1
SPECIFICATION FairSpec
INVARIANTS
  TypeOK
  WritesInBounds
  WholeContainer
  OwnedBySuccess
PROPERTIES
  OffsetAdvances
  ReadReturns
CHECK_DEADLOCK FALSE
