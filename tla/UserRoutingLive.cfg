SPECIFICATION FairSpec
CONSTANTS
    u1 = u1
    u2 = u2
    p1 = p1
    p2 = p2
    None = None
    Users <- MCUsers
    Parties <- MCParties
    Strategies <- MCStrategies
    MaxSessions = 2
    MaxRequests = 6
PROPERTIES
    WaitingEnds
    SilentClientsAreDropped
    ImplementsLogonService
CHECK_DEADLOCK FALSE
