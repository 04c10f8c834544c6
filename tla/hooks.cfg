SPECIFICATION HooksSpec
CONSTANTS
    \* the daemon
    s1 = s1
    s2 = s2
    Shims = {s1, s2}
    MaxRequests = 3
    MaxEntries = 2
    MaxStarts = 1
    IdleTimeout = 2
    DrainTimeout = 1
    AuthTTL = 1
    \* the consolidator
    ToolEvents = {"e1", "e2", "e3", "e4"}
    ProjectOf <- MCProjectOf
    DefaultProject = "default"
    Consolidators = {"p1"}
    MinBatch = 2
    MaxRuns = 3
    MaxIFaults = 2
CHECK_DEADLOCK FALSE

    
PROPERTIES
    
    DaemonWindsDown
