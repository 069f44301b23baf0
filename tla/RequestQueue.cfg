SPECIFICATION LiveSpec
CONSTANTS
    Producers = {p1, p2}
    NoEvent = NoEvent
    NsecPerSec = 3
    Delays <- MCDelays
    MaxRequests = 2
    MaxEvents = 2
    MaxTicks = 5
    MaxCloses = 2
    MaxInitFailures = 1
    MaxSpurious = 1
INVARIANTS
    QueueInv
    EventsOnTime
PROPERTIES
    ImplementsDeferredWork
    CloseIsSeen
