SPECIFICATION FairSpec
CONSTANTS
  Turns = {t1}
  Schedules = {s1}
  Controls = {}
  Actions = {}
  Faults = {"drop", "restart", "enumerate"}
  MaxFaults = 1
  MaxClock = 2
  MaxQueue = 1
  t1 = t1
  s1 = s1
INVARIANTS
    RowsTellTheTruth
    ActiveEventReachesStore
PROPERTIES
    EndIsKept
    PendingScheduleIsShown
CHECK_DEADLOCK FALSE
