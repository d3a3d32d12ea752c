CONSTANTS
  u1 = u1
  p1 = p1
  None = None
  Users <- MCUsers
  Parties <- MCParties
  Strategies <- MCStrategies
  MaxSessions = 2
  MaxRequests = 5
  MaxToClient = 1
  MaxRequested = 1
  MaxPinged = 2
SPECIFICATION WireSpec
INVARIANT
  LogoutIsAnswered
CHECK_DEADLOCK FALSE
