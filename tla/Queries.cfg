SPECIFICATION Spec
CONSTANTS
  u1 = u1
  u2 = u2
  None = None
  Empty = Empty
  s1 = s1
  s2 = s2
  x = x
  Users <- MCUsers
  Sessions <- MCSessions
  ReqIds <- MCReqIds
  ServerIds <- MCServerIds
  MaxPending = 2
SYMMETRY Symmetric
INVARIANTS
  TypeOK
  QueriesPaired
  AnswersStayWithTheUser
  AnswersArrive
  RequestsEnd
PROPERTY ImplementsRequestService
CHECK_DEADLOCK FALSE
