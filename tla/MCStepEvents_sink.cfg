SPECIFICATION Spec
CONSTANTS
    JobSteps <- MCJobSteps
    MaxReports = 2
    Buffer = 2
    MaxConnections = 2
INVARIANTS
    TypeOK
    Converges
    DoneIsFull
    LogsAttributed
PROPERTIES
    CatchesUp
CHECK_DEADLOCK FALSE
