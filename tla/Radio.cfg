SPECIFICATION FairSpec
CONSTANTS
    QueueCapacity = 2
    Dwell = 2
    Retry = 2
    MaxPayloads = 3
    MaxTime = 4
    MaxLag = 1
    Lifetimes = {0, 1}
    Recovery = 3
PROPERTIES
    SentOnItsChannel
    DwellHonoured
    RetriedWhileValid
    QueueDrains
CHECK_DEADLOCK FALSE
