SPECIFICATION Spec
CONSTANTS
    Procs = {service, command}
    NoProc = NoProc
    Depth = 2
    MaxWrites = 2
PROPERTIES
    ImplementsRecord
CHECK_DEADLOCK FALSE
