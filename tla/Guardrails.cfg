SPECIFICATION Spec
CONSTANTS
    Sources = {s1, s2, s3}
    PerSource = 2
    GlobalLimit = 3
    Second = 2
    Window = 3
    MaxSources = 3
    MaxTime = 4
SYMMETRY SourceSymmetry
INVARIANTS
    TypeOK
    NobodyForgotten
    RetryAdmitted
CHECK_DEADLOCK FALSE
