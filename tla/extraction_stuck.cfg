SPECIFICATION ExtractionSpec
CONSTANTS
    XMems = {"m1", "m2"}
    OwnMems = {}
    XWorkers = {"w1", "w2"}
    Says <- MCSays
    SeedAtoms <- MCSeed
    Names <- MCNames
    ClaimLimit = 2
    MaxXFaults = 0
    MaxXCrashes = 0
    MaxForgets = 0

PROPERTIES JobsFinish
CHECK_DEADLOCK FALSE
