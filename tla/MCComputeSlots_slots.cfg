SPECIFICATION FairSlotsSpec
CONSTANTS
    Workers = {"w1", "w2", "w3"}
    MaxWorkers = 3
    Jobs = 3
    Setters = {"s1"}
    Asked = {0, 2, 4}
PROPERTIES
    KeepsLimit
    Served
CHECK_DEADLOCK FALSE
