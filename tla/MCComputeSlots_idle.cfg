SPECIFICATION SlotsSpec
CONSTANTS
    Workers = {"w1", "w2"}
    MaxWorkers = 2
    Jobs = 2
    Setters = {}
    Asked = {}
INVARIANTS
    NoIdleSlot
CHECK_DEADLOCK FALSE
