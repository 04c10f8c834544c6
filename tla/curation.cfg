SPECIFICATION CurationSpec
CONSTANTS
    \* consolidation
    m1 = m1
    m2 = m2
    m3 = m3
    CMems = {m1, m2, m3}
    Born <- MCBorn
    TextOf <- MCText
    Near <- MCNear
    Duplicates <- MCDuplicates
    Fixed = {m2}
    Sleepers = {"s1", "s2"}
    LLMSleepers = {"s1"}
    SupersedingSleepers = {"s1", "s2"}
    MaxLLMCalls = 1
    MaxForgotten = 1
    MaxDecays = 1
    FullStrength = 1
    \* feedback
    FMems = {"x", "y"}
    Classes = {"stale_ranking"}
    Askers = {"c1", "c2"}
    WarmUp = 2
    MaxEvents = 2
    MaxFeedback = 2
    MaxStops = 1
    \* tuning
    Servers = {"s1", "s2"}
    FailureClasses = {"stale_ranking", "scope_mismatch", "vocabulary_mismatch", "other"}
    MinEvents = 1
    Cooldown = 2
    MaxReports = 1
    MaxTunings = 4
    MaxTunerFaults = 1
    \* the audit
    Auditors = {"w1", "w2"}
    ToolRuns = {"t"}
    AuditQueries = {"q1"}
    Rankings <- MCRankings
    MaxSnapshots = 3
    MaxPasses = 3
    \* extraction
    XMems = {"m1", "m2"}
    OwnMems = {"m1", "m2"}
    XWorkers = {"w1", "w2"}
    Says <- MCSays
    SeedAtoms <- MCSeed
    Names <- MCNames
    ClaimLimit = 2
    MaxXFaults = 1
    MaxXCrashes = 1
    MaxForgets = 1
CHECK_DEADLOCK FALSE
INVARIANTS
    
    
    TuningSound
    AuditSound
PROPERTIES
    ExtractionSound
    ExtractionProgresses
