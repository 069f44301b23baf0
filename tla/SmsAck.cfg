SPECIFICATION LiveSpec
CONSTANTS
    RadioStates = {"UNAVAILABLE", "BLOCKED", "SIM_READY"}
    MaxPdus = 6
    MaxChanges = 4
INVARIANTS
    AckInv
    KeptInOrder
PROPERTY
    EveryPduSent
