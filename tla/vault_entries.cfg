SPECIFICATION FairSpec
CONSTANTS
  k1 = k1
  k2 = k2
  e1 = e1
  e2 = e2
  c1 = c1
  c2 = c2
  c3 = c3
  me = me
  peer = peer
  Key = {k1, k2}
  Entry = {e1, e2}
  Call = {c1, c2, c3}
  Recipient = {me, peer}
  Self = me
  Plan <- MCPlan
  Start <- MCStart
  LockRank <- MCLockRank
  Old = Old
  None = None
INVARIANTS StaysReadable RotationTakes
PROPERTIES NoStaleWrite TextKept CallsEnd
CHECK_DEADLOCK FALSE
