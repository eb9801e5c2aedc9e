SPECIFICATION Spec
CONSTANTS
    MaxLines = 3
    PipeCap = 1
    StallTicks = 2
    ThrashLimit = 2
    LineCap = 1
PROPERTIES
    AdvancingKept
CHECK_DEADLOCK FALSE
