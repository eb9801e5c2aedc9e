SPECIFICATION Spec
CONSTANTS
    MaxLines = 3
    PipeCap = 1
    StallTicks = 2
    ThrashLimit = 2
    LineCap = 1
INVARIANTS
    OutputHeard
    QuietAfterReturn
    WhipperSummary
    VerdictTold
PROPERTIES
    RunEnds
CHECK_DEADLOCK FALSE
