SPECIFICATION Spec
CONSTANTS
    Pods = {"p1"}
    Pollers = {"p1"}
    Once = {o1, o2}
    Crons = {"c1"}
    CronTimes <- TwoMinutes
    Posts = {"post1"}
    Cancels = {"cancel1"}
    Creators = {create1, create2}
    Deleters = {"delete1"}
    MaxPending = 1
    MaxTime = 3
    MaxCrashes = 0
    o1 = o1
    o2 = o2
    create1 = create1
    create2 = create2
CONSTRAINTS
    NoRearmOverCancel
    CreationsApart
SYMMETRY Alike
INVARIANTS
    AtMostOnce
    EndedMeansOver
    OvershootIsBounded
PROPERTIES
    CancelIsFinal
    OwnerPresent
CHECK_DEADLOCK FALSE
