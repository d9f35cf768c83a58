SPECIFICATION FairSpec
CONSTANTS
  c1 = c1
  c2 = c2
  c3 = c3
  Call = {c1, c2, c3}
  None = None
  Branch = {1, 2}
  MaxVersion = 2
  Plan <- MCPlan
  Ttl = 2
  FreeAttempts = 1
  BaseDelay = 1
  MaxDelay = 2
INVARIANTS LocksHold ServedFresh PinsPaced
PROPERTIES CallsEnd
CHECK_DEADLOCK FALSE
