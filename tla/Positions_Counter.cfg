SPECIFICATION Spec
CONSTANTS
  u1 = u1
  u2 = u2
  None = None
  s1 = s1
  s2 = s2
  r1 = r1
  Users <- MCUsers
  Sessions <- MCSessions
  ReqIds = {r1}
  ServerIds <- MCServerIds
  MaxRequests = 3
  MaxReports = 2
INVARIANT AllReportsArrive
CHECK_DEADLOCK FALSE
