CONSTANTS
  a1 = a1  a2 = a2  rot = rot  other = other
  Applets <- MCApplets
  Aids <- MCAids
  AidOf <- MCAidOf
  BasicUsers <- OneBasic
  LogicalUsers <- MCApplets
  MaxChannel = 2
  Outcomes = {"ok", "proactive", "refused", "cmdlost", "anslost"}
  Disciplined = TRUE
  Sessions = 2
  MaxFaults = 2
  MaxCrashes = 1
SPECIFICATION Spec
INVARIANTS
  TypeOK
  SelectionBacked
  OwnAppletOnly
  LeakBound
PROPERTIES
  ClosesOwnChannel
  ImplementsPool
