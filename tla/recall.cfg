SPECIFICATION AnswerSpec
CONSTANTS
    \* the recall
    a = a
    b = b
    c = c
    sx = sx
    none = none
    MemIds = {a, b, c}
    Preference = {a}
    Extracted = {b}
    Dated = {b, c}
    SessionOf <- MCSessions
    NoSession = none
    Edges <- MCEdges
    Calls <- MCCalls
    MaxForgets = 1
    \* the reasoning tools
    RMems = {"m1", "m2", "m3", "m4"}
    Scoped = {"m1", "m2", "m3"}
    Contradicts <- MCContradicts
    RQueries = {"q1", "q2"}
    MaxIter = 3
    TokenBudget = 3
    SynthThreshold = 1
    ShardSize = 1
    MaxWorkers = 2
    ReasonCap = 2
    AskMax = 3
    AskScores = {1, 2}
    AskCosts = {1, 2}
    AskBudget = 3
    DocLen = 4
    MaxMatches = 2
    MaxHalf = 1
    \* the chunker
    MaxChars = 5
    Overlaps = {0, 1, 3}
    Target = 5
    TextLens = {1, 2, 4}
    MaxSentences = 5
    Paragraphs <- MCParagraphs
    MaxParas = 2
    MaxHeadings = 2
CHECK_DEADLOCK FALSE
INVARIANTS
    
    
    ChunksCover
PROPERTIES
    AnswersCome
