SPECIFICATION Spec
CONSTANTS
  Turns = {t1}
  Schedules = {s1}
  Controls = {c1}
  Actions = {"pause", "resume", "cancel"}
  Faults = {"drop", "persist"}
  MaxFaults = 1
  MaxClock = 2
  MaxQueue = 2
  t1 = t1
  s1 = s1
  c1 = c1
CONSTRAINT OneJobAtATime
INVARIANT EndedAfterStarted
INVARIANT TurnRowMeansOver
CHECK_DEADLOCK FALSE
