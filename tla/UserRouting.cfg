\* Two users and three connections: reconnects that overlap with late answers.  The first
\* user may be moved to the strategy of the second, so that both ask for one party.
CONSTANTS
  u1 = u1
  u2 = u2
  p1 = p1
  p2 = p2
  None = None
  Users <- MCUsers
  Parties <- MCParties
  Strategies <- SharedStrategies
  MaxSessions = 3
  MaxRequests = 5
SPECIFICATION Spec
INVARIANTS
  TypeOK
  RegistryExact
  RoutesInverse
  ReadyOwnsRoute
  BridgeDownDropsSessions
  OnlyUserAddAborts
  IInv
CHECK_DEADLOCK FALSE
