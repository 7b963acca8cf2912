CONSTANTS
  Channels = {0, 3}
  DataSizes = {1, 255, 256}
  ResponseSizes = {0, 255, 256, 300}
  ExpectedSizes = {0, 255}
  LeCases = {2, 4}
  MaxFaults = 1
SPECIFICATION FairSpec
INVARIANTS
  TypeOK
  AtMostOnce
  SuccessIsTruthful
  AnswerIsWhole
  FetchesOwnAnswer
  
PROPERTIES
  ImplementsExchange
  TransmitReturns
CHECK_DEADLOCK FALSE
