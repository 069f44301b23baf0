SPECIFICATION Spec
CONSTANTS
    HasPrio = FALSE
    Scenarios <- SimAndRestart
    MaxRepolls = 2
INVARIANTS
    FrameworkInformed
    NotReadyIsPolled
    ReadyIsPrepared
