SPECIFICATION LiveSpec
CONSTANTS
    Limits <- MCLimits
INVARIANTS
    RecoveryInv
    RadioSetAfterRecovery
PROPERTIES
    FailureReopens
    RecoversForGood
