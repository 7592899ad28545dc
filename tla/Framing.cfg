SPECIFICATION FrameSpec
CONSTANTS
    MaxLine = 3
    MaxSource = 6
INVARIANTS
    LinesAreFaithful
    VerdictIsRight
CHECK_DEADLOCK FALSE
