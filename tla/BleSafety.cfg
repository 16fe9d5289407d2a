SPECIFICATION Spec
CONSTANTS
    PendingCapacity = 2
    RingSize = 2
    MaxPayloads = 2
    MaxTime = 2
    MaxLag = 0
    Lifetimes = {1}
    MaxStray = 2
VIEW LiveState
INVARIANTS
    Conservation
    CompletionAccounted
    CompletionAttributed
    NoSlotRace
    CallbackQuiesced
    ShutDownIsFinal
CHECK_DEADLOCK FALSE
