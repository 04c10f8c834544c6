SPECIFICATION EvalSpec
CONSTANTS
    \* the stages
    Questions = {1, 2}
    EvalWorkers = {w1}
    ChanCap = 1
    MaxSample = 2
    MaxStarts = 2
    MaxCrashes = 1
    MaxWriteFaults = 1
    MaxMissing = 1
    \* one question
    RecallLists <- MCLists
    ProjectIds <- MCProject
    ContextLimit = 5
    \* the lock
    Procs = {1, 2, 3}
    MaxInodes = 3
    MaxLockFaults = 1
CHECK_DEADLOCK FALSE
INVARIANTS
    ResultsTrustworthy
    OneRunPerBackend
PROPERTIES
    CorrectKept
    QuestionSound
    
