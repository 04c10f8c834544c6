SPECIFICATION PoolFairSpec
CONSTANTS
    Projects = {"p", ""}
    Blank = ""
    Callers = {"c1", "c2"}
    MaxPoolSize = 1
    MaxMade = 1
CHECK_DEADLOCK FALSE
PROPERTY EvictionMakesRoom
