SPECIFICATION PlatformSpec
CONSTANTS
    Calls = {1, 2, 3}
    SubjectOf <- Callers
    SubjectUntil <- Sessions
    Life = 4
    Slack = 2
    SubjectSlack = 1
    Timeout = 2
    MaxEntries = 1
    MaxTime = 5
    Visits = {1, 2}
    SigningKeys <- KeysInOrder
    Asks <- SomeAsks
    Grants <- HumanGrants
    KeyTTL = 3
    Interval = 1
    FetchTimeout = 1
    MaxOutages = 1
    Exprs <- SomeExprs
    Starts = {5}
    HourLength = 4
    DayLength = 3
    WeekLength = 3
    MonthLength = 3
    YearLength = 2
    Days <- TwoYears
    Lookahead = 132
    Samples = 3
    Floor = 2
    MaxLate = 1
    MaxFires = 3
    Services = {"mcp", "leads"}
    Edges <- TwoHops
    Browsers = {"frontend"}
    Others = {"example"}
    Minters = {"agents"}
    RoleGrants <- ThreeRoles
    AccessRoles = {"leads-access"}
    AnonymousPaths <- OpenPaths
    Subtrees <- OpenSubtrees
    Below <- PathsBelow
    MaxEdits = 2
    Requests = {1, 2}
    Batches = {1, 2}
    Drafts = {3}
    ConfirmationThreshold = 2
    Width = 2
    ApprovalTTL = 1
    MaxSize = 4
INVARIANTS
    IdentityHolds
    RulesHold
    CostsAreAgreedTo
PROPERTIES
    NobodyWaitsForEver
CHECK_DEADLOCK FALSE
