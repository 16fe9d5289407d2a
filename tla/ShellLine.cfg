SPECIFICATION LineSpec
CONSTANTS
    MaxLine = 2
    MaxLines = 2
INVARIANTS
    ScreenShowsLine
    LineAsIntended
CHECK_DEADLOCK FALSE
