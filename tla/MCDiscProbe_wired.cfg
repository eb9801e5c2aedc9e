SPECIFICATION ProbeSpec
CONSTANTS
    Backoffs = 1
    Wired = {"xbox", "cdGame", "xgdDecoy"}
INVARIANTS
    KindDocumented
CHECK_DEADLOCK FALSE
