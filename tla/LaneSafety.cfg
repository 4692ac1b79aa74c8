SPECIFICATION Spec
CONSTANTS
    NoGeneration = NoGeneration
    NoItem = NoItem
    AllWork = AllWork
    Owners = {o1, o2}
    Generations = {g1}
    Waiters = {AllWork, o1, o2}
    MaxQueue = 2
    MaxCommands = 3
    SpuriousCancel = TRUE
INVARIANTS
    TypeOK
    NoStrandedCompletion
    InterruptHasCause
PROPERTIES
    SentInOrder
    OnlyLiveWorkSent
    OrdinaryWorkKept
    ImplementsContract
SYMMETRY LaneSymmetry
CHECK_DEADLOCK FALSE
