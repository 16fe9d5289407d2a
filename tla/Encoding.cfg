SPECIFICATION Spec
CONSTANTS
    States <- MCStates
    Sites <- MCSites
INVARIANTS
    MessageReadsBack
    UnknownOnlyAtEdge
    FrameHolds
PROPERTIES
    EncodedFits
CHECK_DEADLOCK FALSE
