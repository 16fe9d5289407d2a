SPECIFICATION FleetSpec
CONSTANTS
    Names = {"a", "b"}
    Counts = {2, 4}
    Kinds = {"Location", "System"}
    Stored <- MCStored
    MinPeriod = 2
    MaxPeriod = 4
    MaxAircraft = 6
    MaxGroups = 3
INVARIANTS
    VerdictIsRight
CHECK_DEADLOCK FALSE
