SPECIFICATION RequestsSpec
CONSTANTS
    Requests <- MCRequests
    Plain <- MCPlain
    FilterOnly <- MCFilterOnly
    Companies <- MCCompanies
    Fanout = 2
    Slots = 1
    Tasks <- MCTasks
    Nice <- MCNice
    MaxSkips = 1
    Found <- MCFound
    PerPage = 2
    Kinds = {"stream", "agent", "import"}
    Readers = {r1, r2}
    MaxPage = 2
    MaxFetches = 2
    People = 3
INVARIANTS
    GroupedSearchHolds
    RequestsTellTheTruth
PROPERTIES
    JobKeepsThePage
    RequestsAreAnswered
CHECK_DEADLOCK FALSE
