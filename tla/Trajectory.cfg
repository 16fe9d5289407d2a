SPECIFICATION FlightSpec
CONSTANTS
    HalfRange = 4
    Aircraft <- MCAircraft
    Entry <- MCEntry
    MaxGap = 3
    MaxHigh = 3
    Configs <- MCSmooth
    Slots = 3
INVARIANTS
    NoJump
    FliesItsVelocity
    MovingApart
PROPERTY SampledOnTime
CHECK_DEADLOCK FALSE
