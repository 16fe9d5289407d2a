SPECIFICATION Spec
CONSTANTS
    KindCount = 2
    Fleets <- MCFleets
    MaxTime = 4
    MaxApplies = 2
    MaxErrors = 1
    QueueCapacity = 2
    Dwell = 2
    Retry = 1
    MaxPolls = 2
INVARIANTS
    OnSchedule
    EveryMessageCounted
PROPERTIES
    TrajectoryTimeGrows
    ImplementsTasks
    OldFleetFades
    AirInOrder
VIEW Relevant
CHECK_DEADLOCK FALSE
