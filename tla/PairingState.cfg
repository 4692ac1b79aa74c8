SPECIFICATION Spec
CONSTANTS
    Clients = {c1, c2}
    MaxClients = 1
    MaxWindows = 2
    MaxIdentities = 3
INVARIANTS
    RevokedStaysRevoked
    EnrollmentKept
PROPERTIES
    ClosedStaysClosed
    ResetNotDowngraded
    IdentityKept
SYMMETRY ClientSymmetry
CHECK_DEADLOCK FALSE
