SPECIFICATION FairSpec
CONSTANTS
    NoKey = NoKey
    NoOwner = NoOwner
    Connections = {c1}
    Keys = {up, down}
    MaxQueue = 2
    MaxSessions = 2
    MaxHolds = 2
    MaxRepeats = 2
    MaxCommands = 4
INVARIANTS
    WorkHasSession
    RepeatHasHold
    HandlesAgree
PROPERTIES
    OnlyOwnWorkWithdrawn
    HoldsEnd
CHECK_DEADLOCK FALSE
