SPECIFICATION Spec
CONSTANTS
  u1 = u1
  u2 = u2
  None = None
  s1 = s1
  s2 = s2
  r1 = r1
  Users <- MCUsers
  Sessions <- MCSessions
  ReqIds = {r1}
  ServerIds <- MCServerIds
  MaxRequests = 3
SYMMETRY Symmetric
INVARIANTS
  TypeOK
  MappingsPaired
  AnswersArrive
  SnapshotsEnd
  NoOrphanStream
PROPERTY ImplementsRequestService
CHECK_DEADLOCK FALSE
