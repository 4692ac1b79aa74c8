SPECIFICATION LifeSpec
CONSTANTS
    MaxMoves = 3
    MaxFailures = 2
INVARIANTS
    NothingLeft
PROPERTIES
    AnnouncementCatchesUp
CHECK_DEADLOCK FALSE
