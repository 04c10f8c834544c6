SPECIFICATION EmbeddingSpec
CONSTANTS
    \* the breaker
    c1 = c1
    c2 = c2
    Clients <- TwoClients
    Prober = bg
    FailureThreshold = 2
    FailureWindow = 2
    OpenDuration = 1
    BackoffMultiplier = 2
    BackoffCap = 3
    MaxAttempts = 2
    \* the pipeline
    bge = bge
    other = other
    NullVector = NullVector
    NoChunk = NoChunk
    Models = {bge, other}
    Canonical = bge
    ChunkIds = {1, 2, 3}
    Poison = {3}
    BatchSize = 2
    RejectLimit = 2
    MaxMigrations = 1
    MaxFaults = 1
    \* the project's worker
    Notifiers = {"n1", "n2"}
    Stoppers = {"x1", "x2"}
    \* the loops
    RustWorkers = {"r1", "r2"}
    LoopBatch = 2
    MinIdle = 1
    MaxIdle = 4
    ErrorThreshold = 3
    MaxArrivals = 3
    MaxLoopFaults = 2
CHECK_DEADLOCK FALSE
INVARIANTS
    SlotHasHolder
PROPERTIES
    BackoffNeverShrinks
    BreakerRecovers
    
    PipelineDrains
    WorkerStops
    
