SPECIFICATION AgentsSpec
CONSTANTS
    MaxTurns = 2
    Readers = {"r1"}
    KeepRecent = 4
    MaxMessages = 4
    Asking = {1}
    Past = 2
    MaxRestarts = 1
    GatedTurns = {"t1"}
    Calls = {"call1", "call2"}
    Requests = {"approve1", "approve2", "reject2"}
    TurnOf <- OneTurn
    RefOf <- OneRef
    Target <- Targets
    Choice <- Choices
INVARIANTS
    StreamsFollowTheirTurn
    ContextMissesNothingRecent
    DecisionsHold
PROPERTIES
    HistorySpec
    NobodyIsKept
CHECK_DEADLOCK FALSE
