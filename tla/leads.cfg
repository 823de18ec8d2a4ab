SPECIFICATION LeadsSpec
CONSTANTS
    Leads <- MCLeadIds
    Ops <- MCOps
    KindOf <- MCKindOf
    LeadOf <- MCLeadOf
    Items <- MCItems
    Attempts = 2
    MaxFaults = 1
    EmbedSlots = 1
    MaxControls = 2
    MaxOthers = 1
    Pages = 4
    QueuePages = 1
    Concurrency = 1
    Chunks = 1
    MaxProgress = 1
    MaxWrites = 2
INVARIANTS
    SearchHolds
    RecordsHold
    JobAccountsForItems
    CardIsTrue
PROPERTIES
    NothingShownIsLost
    LeadsStreamsEnd
CHECK_DEADLOCK FALSE
