SPECIFICATION Spec
CONSTANTS
    JobSteps <- MCJobSteps
    MaxReports = 0
    Buffer = 2
    MaxConnections = 1
INVARIANTS
    ListedOnce
CHECK_DEADLOCK FALSE
