SPECIFICATION Spec
CONSTANTS
    PageCount = 2
    Iterations = 2
    Warmups = 1
    MaxFound = 2
    LifetimeIterations = 2
    ProducerCount = 2
    RequestsPerProducer = 2
    Bookmark = {b1, b2, b3}
    NoBookmark = NoBookmark
    Answers = 2
    Timeout = 7
    MinimumObservation = 4
    StableWindow = 3
    LastTick = 8
    ResizeOperations = 3
    MaxFrames = 3
INVARIANTS
    HandlesNest
    
    StressAccounts
    OutlineIsWhole
    OnlyLateHitsAreMissed
    MetricsTellTheRun
PROPERTIES
    EvidenceEnds
CHECK_DEADLOCK FALSE
