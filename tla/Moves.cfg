CONSTANTS
  a = a
  m1 = m1
  m2 = m2
  c1 = c1
  c2 = c2
  k = k
  None = None
  Ids <- Calls
  Requests <- Calls
  Hosts = {1}
  Buckets = {0, 1, 2}
  EventTypes <- OneType
  EventType <- OneHost
  Weight <- AllEqual
  Keys = {k}
  Scenarios <- MoveScenarios
  External = {}
  Faulty = {m2}
  DayLength = 10
  Original <- TwoMoves
  Cancels = {c1, c2}
  Target <- OldAndNew
  Flaky = {c2}
SPECIFICATION LifeFairSpec
INVARIANTS
  MeetingSurvives
  OneWinner
  CalendarTold
PROPERTIES
  NoOrphan
CHECK_DEADLOCK FALSE
