CONSTANTS
  Finals = {"ok", "error", "cme"}
  MaxCommands = 3
  MaxOther = 1
  MaxCrashes = 0
  OpenFirst = TRUE
  CanUnplug = TRUE
SPECIFICATION FairSpec
PROPERTY AlwaysReturns
CHECK_DEADLOCK FALSE
