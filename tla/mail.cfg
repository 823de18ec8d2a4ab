SPECIFICATION MailSpec
CONSTANTS
    Campaigns = {"c1"}
    People = {"ann","bob"}
    Lists <- FirstLists
    Domains = {"d1"}
    Sequential = {}
    Callers = {"k"}
    Users = {"u"}
    Caps = {1,2}
    PerCycle = 1
    MaxLosses = 1
    MaxRequests = 2
    Old = 2
    Arrivals = 3
    PageSize = 1
    CyclePages = 2
    CatchUpPages = 2
    MaxRemovals = 1
    MaxFaults = 2
    MaxUpsets = 2
    MaxSends = 1
INVARIANTS
    RowsKeepMailSingle
    NoSenderExceedsTheCap
    CursorsLeaveNothingBehind
PROPERTIES
    MailWorkEnds
CHECK_DEADLOCK FALSE
