SPECIFICATION Spec
CONSTANTS
    Transports = {"Ble4", "Wifi24"}
    Capacity = 2
    Lifetimes = {0, 1}
    MaxLead = 1
    MaxPayloads = 4
    MaxNow = 2
INVARIANTS
    NewestSurvive
CHECK_DEADLOCK FALSE
