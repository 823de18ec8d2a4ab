SPECIFICATION KnowledgeSpec
CONSTANTS
    Ids = {1, 2, 3, 4, 5}
    Old = {1}
    PageSize = 1
    HeadPages = 3
    CyclePages = 3
    AutoBatch = 2
    Threshold = 3
    Poison = {1, 3}
    MaxFlips = 1
    MaxRequests = 1
    MaxFaults = 1
    MaxUpsets = 2
INVARIANTS
    SyncStateIsTrue
PROPERTIES
    ArchiveBecomesKnowledge
CHECK_DEADLOCK FALSE
