SPECIFICATION FairSpec
CONSTANTS
    Connections = {c1, c2, c3}
    Clients = {k1}
    NoClient = NoClient
    MaxConnections = 2
    MaxUnauthenticated = 1
    MalformedLimit = 2
    MaxWindows = 2
INVARIANTS
    TypeOK
    SecretsMatchPhase
    SlotsAgree
PROPERTIES
    SlotsFreed
CHECK_DEADLOCK FALSE
