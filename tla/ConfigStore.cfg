SPECIFICATION Spec
CONSTANTS
    Configs = {c1, c2, c3}
    Oversized = {c3}
    DefaultConfig = DefaultConfig
    NoConfig = NoConfig
    HalfRange = 2
    Empty = Empty
    Corrupt = Corrupt
    Foreign = Foreign
    Unreadable = Unreadable
    NoSnapshot = NoSnapshot
    MaxFaults = 1
INVARIANTS
    SlotsComparable
    AckedNotLost
PROPERTIES
    OnlyAppliedReachesFlash
    ForeignKept
    AtomicSave
SYMMETRY Symmetry
