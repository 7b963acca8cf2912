CONSTANTS
  Channels = {0}
  DataSizes = {1}
  ResponseSizes = {1, 2}
  ExpectedSizes = {0}
  LeCases = {2, 4}
  MaxFaults = 0
SPECIFICATION Spec
INVARIANT ResendsTheCommand
