CONSTANTS
  a1 = a1  a2 = a2  rot = rot  other = other
  Applets <- MCApplets
  Aids <- MCAids
  AidOf <- MCAidOf
  BasicUsers <- OneBasic
  LogicalUsers <- MCApplets
  MaxChannel = 2
  Outcomes = {"ok", "proactive", "refused"}
  Disciplined = TRUE
  Sessions = 2
  MaxFaults = 0
  MaxCrashes = 0
SPECIFICATION Spec
INVARIANT IsSelectedTruthful
