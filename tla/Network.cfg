SPECIFICATION LiveSpec
CONSTANTS
    Scenarios <- MCScenarios
    MaxLoops = 2
    MaxLines = 2
INVARIANTS
    NetworkInv
    FrameworkSeesRegistration
    FrameworkSeesNews
PROPERTIES
    RequestsReturn
    DormancyEnds
