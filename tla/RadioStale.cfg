SPECIFICATION Spec
CONSTANTS
    HasPrio = FALSE
    Scenarios <- SimChange1
    MaxRepolls = 2
INVARIANT
    ReadyMeansSimPresent
