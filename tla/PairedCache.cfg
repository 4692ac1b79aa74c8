SPECIFICATION Spec
CONSTANTS
    MaxChanges = 5
    MaxErrors = 1
INVARIANTS
    AllowedWasAuthorized
    AllowedAtOnce
PROPERTIES
    AuthorizedAllowed
CHECK_DEADLOCK FALSE
