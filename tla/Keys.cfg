CONSTANTS
  r1 = r1
  r2 = r2
  r3 = r3
  k = k
  None = None
  Ids <- AllCalls
  Requests <- AllCalls
  Hosts = {1, 2}
  Buckets = {0, 1}
  EventTypes <- SmallTypeIds
  EventType <- SmallTypes
  Weight <- HeavierSecond
  Keys = {k}
  Scenarios <- KeyScenarios
  External <- OneMayBeAbsent
  Faulty = {r1}
  DayLength = 10
SPECIFICATION Spec
INVARIANTS
  OneBookingPerKey
  ReplayTruthful
  KeyClosedTruly
  TakenIsTrue
CHECK_DEADLOCK FALSE
