SPECIFICATION LiveSpec
CONSTANTS
    Profiles = {0, 1}
    MaxRequests <- MCMaxRequests
    MaxFaults <- MCMaxFaults
INVARIANTS
    PdpInv
    StateMatchesNetwork
    LossIsReported
PROPERTIES
    FailedSetupHasCause
    RequestReturns
