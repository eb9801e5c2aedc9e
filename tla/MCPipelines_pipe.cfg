SPECIFICATION Spec
CONSTANTS
    MaxTitles = 2
    MaxRetries = 1
INVARIANTS
    PlanHonoured
    ErrorIsShown
    NoReadAfterEject
    NothingLost
    Settled
PROPERTIES
    OneStepAtATime
CHECK_DEADLOCK FALSE
