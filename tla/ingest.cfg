SPECIFICATION Spec
CONSTANTS
    Pages = 2
    QueuePages = 1
    Concurrency = 1
    Chunks = 2
    MaxProgress = 1
    MaxControls = 1
INVARIANTS
    NoLeadIsLost
PROPERTIES
    StreamsAreLossless
CHECK_DEADLOCK FALSE
