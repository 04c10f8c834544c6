SPECIFICATION QueueFairSpec
CONSTANTS
    Jobs = {"j1"}
    Workers = {"w1"}
    Depth = 1
    ResultTTL = 1
CHECK_DEADLOCK FALSE
PROPERTY ReturnExits
