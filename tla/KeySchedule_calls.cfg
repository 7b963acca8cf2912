CONSTANTS
  KeyLens = {127, 251, 300, 506}
  MaxPairs = 2
  MaxKeys = 2
  MaxFaults = 1
  Asks = {0, 32, 300}
  MaxAsks = 1
SPECIFICATION ScheduleSpec
INVARIANTS
  ScheduleTypeOK
  PutStaysInBuffer
  SecretIsAgreed
  PutReplaces
  ShortKeyIsWhole
  AnswersAreWhole
  KeysAreOfOneHandshake
CHECK_DEADLOCK FALSE
