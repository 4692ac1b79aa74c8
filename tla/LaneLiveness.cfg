SPECIFICATION FairSpec
CONSTANTS
    NoGeneration = NoGeneration
    NoItem = NoItem
    AllWork = AllWork
    Owners = {o1, o2}
    Generations = {g1}
    Waiters = {AllWork, o1}
    MaxQueue = 2
    MaxCommands = 2
    SpuriousCancel = FALSE
PROPERTIES
    QueueDrains
    CloseCompletes
    WaitersReturn
CHECK_DEADLOCK FALSE
