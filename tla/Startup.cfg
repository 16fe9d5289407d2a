SPECIFICATION Spec
CONSTANT
    MaxSyncs = 2
INVARIANTS
    DeadGiveNeedsTimeout
    AllOrNothing
    ContextComplete
PROPERTY
    StartupEnds
CHECK_DEADLOCK FALSE
