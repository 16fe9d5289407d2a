SPECIFICATION FairSpec
CONSTANTS
    PendingCapacity = 2
    RingSize = 2
    MaxPayloads = 2
    MaxTime = 2
    MaxLag = 1
    Lifetimes = {1}
    MaxStray = 0
PROPERTIES
    BusyEnds
    QueueDrains
    UnbindEnds
CHECK_DEADLOCK FALSE
