SPECIFICATION Spec
CONSTANTS
  u1 = u1
  u2 = u2
  None = None
  s1 = s1
  s2 = s2
  x = x
  y = y
  Users <- MCUsers
  Sessions <- MCSessions
  ReqIds <- MCReqIds
  ServerIds <- MCServerIds
  MaxPending = 2
  MaxIds = 2
INVARIANT OnlyOpenOrdersAreKept
CHECK_DEADLOCK FALSE
