CONSTANTS
  r1 = r1
  r2 = r2
  r3 = r3
  k = k
  None = None
  Ids <- TwoCalls
  Requests <- TwoCalls
  Hosts = {1, 2}
  Buckets = {0, 1}
  EventTypes <- SmallTypeIds
  EventType <- SmallTypes
  Weight <- HeavierSecond
  Keys = {k}
  Scenarios <- CapScenarios
  External = {}
  Faulty = {}
  DayLength = 10
SPECIFICATION Spec
INVARIANT CapRespected
CHECK_DEADLOCK FALSE
