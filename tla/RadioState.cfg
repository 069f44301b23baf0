SPECIFICATION LiveSpec
CONSTANTS
    HasPrio = TRUE
    Scenarios <- SimOrPower
    MaxRepolls = 2
INVARIANTS
    RadioInv
PROPERTY
    SimSettles
