SPECIFICATION Spec
CONSTANTS
    Scenarios <- MCScenarios
    Events = {e1, e2}
INVARIANTS
    GpsInv
    RunsWhenAsked
    ToldTheLast
    ConfiguredWithTheLast
PROPERTIES
    CleanupReturns
CHECK_DEADLOCK FALSE
