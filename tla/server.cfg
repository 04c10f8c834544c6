SPECIFICATION ServerSpec
CONSTANTS
    \* the limiter and the health check
    Peers = {"lo", "far"}
    Local = {"lo"}
    ClientBurst = 2
    SetupBurst = 3
    EvictAfter = 3
    Probers = {"h1", "h2"}
    Readers = {"r1", "r2"}
    MaxGrants = 2
    MaxFlips = 3
    \* the sessions
    SIds = {"s1"}
    RehydrateWindow = 1
    Retention = 2
    EpisodeTTL = 2
    MaxSCrashes = 2
    MaxSFaults = 2
    \* the uploads
    UploadIds = {"u"}
    Uploaders = {"c1", "c2"}
    MaxObjects = 2
    MaxSessions = 1
    MaxPart = 1
    UploadMax = 2
    UploadQueueDepth = 1
    \* the documents
    DocWorkers = {"w1", "w2"}
    DocBodies <- MCBodies
    Texts <- MCTexts
    MaxContent = 1
    MaxDoc = 2
    RawMax = 3
    MaxDocJobs = 3
    MaxDocFaults = 1
    \* the start
    Nodes = {"a", "b"}
    Legacy = {"x"}
    StartupWait = 3
    MaxBackoff = 2
    GatewayEnabled = TRUE
    MaxBootFaults = 1
    MaxRestarts = 1
    \* the pool
    Projects = {"p", ""}
    Blank = ""
    Callers = {"c1", "c2"}
    MaxPoolSize = 1
    MaxMade = 2
    \* the queue
    Jobs = {"j1", "j2", "j3"}
    Workers = {"w1", "w2"}
    Depth = 1
    ResultTTL = 2
CHECK_DEADLOCK FALSE
INVARIANTS
    EvictionInvisible
    UploadWhole
    DocumentsSound
    
    EnginesAccounted
PROPERTIES
    QueueServes
    DoorRecovers
    SessionsEnd
    StartupEnds
    PoolAnswers
    QueueEnds
