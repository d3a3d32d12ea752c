\* One user, three connections: reconnects that overlap with late answers.
CONSTANTS
  u1 = u1
  u2 = u2
  p1 = p1
  p2 = p2
  None = None
  Users <- OneUser
  Parties <- MCParties
  Strategies <- OneStrategies
  MaxSessions = 3
  MaxRequests = 9
SPECIFICATION Spec
INVARIANT RouteHeldByLive
CHECK_DEADLOCK FALSE
