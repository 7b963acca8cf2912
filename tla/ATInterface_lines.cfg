CONSTANTS
  Finals = {"ok", "error", "cme", "unknown"}
  MaxCommands = 4
  MaxOther = 2
  MaxCrashes = 2
  OpenFirst = FALSE
  CanUnplug = TRUE
SPECIFICATION FairSpec
INVARIANTS
  TypeOK
  LagBound
  QuietBetweenCalls
PROPERTIES
  ImplementsExchange
  TransmitReturns
CHECK_DEADLOCK FALSE
