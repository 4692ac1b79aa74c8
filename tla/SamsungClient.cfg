SPECIFICATION FairSpec
CONSTANTS
    Interval = 2
    MaxSockets = 3
INVARIANTS
    OneSocket
    DropReconnects
PROPERTIES
    AuthorizedWrites
    InsertPrimed
    CallsEnd
