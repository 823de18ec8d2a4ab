SPECIFICATION FairSpec
CONSTANTS
    Pods = {"p1", "p2"}
    Pollers = {"p1", "p2"}
    Once = {"o1"}
    Crons = {}
    CronTimes <- TwoMinutes
    Posts = {"post1"}
    Cancels = {}
    Creators = {"create1"}
    Deleters = {}
    MaxPending = 2
    MaxTime = 3
    MaxCrashes = 1
PROPERTIES
    LedgerSpec
    DueIsServed
CHECK_DEADLOCK FALSE
