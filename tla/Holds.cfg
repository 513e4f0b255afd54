CONSTANTS
  r1 = r1
  r2 = r2
  r3 = r3
  k = k
  None = None
  Ids <- TwoCalls
  Requests <- TwoCalls
  Hosts = {1, 2}
  Buckets = {0, 1}
  EventTypes <- SmallTypeIds
  EventType <- SmallTypes
  Weight <- HeavierSecond
  Keys = {k}
  Scenarios <- HoldScenarios
  External = {}
  Faulty = {}
  DayLength = 10
SPECIFICATION Spec
INVARIANT HoldsAreAdvisory
CHECK_DEADLOCK FALSE
