CONSTANTS
  Ids = {a, b, c}
  Hosts = {h1, h2}
  Buckets = {0, 1}
  None = None
  Handlers = {r1, r2}
  MaxHops = 1
  MaxBookings = 3
  Day = 2
  Zones <- PageZones
  MonthStarts <- MonthsOfPages
  ShortMonth = 2
  Horizons = {1, 3}
  Starts = {3, 4, 9, 10}
  MaxStarts = 2
  LastTick = 4
  Spans = {4}
  DefaultSpan = 6
  MaxSpan = 8
  Limits = {1}
  Unknown = Unknown
SPECIFICATION Spec
SYMMETRY Interchangeable
INVARIANTS
  NoDoubleBooking
  TablesAgree
  CalendarFollows
  ToldTheSame
  LinkOutlives
  PagesAgree
PROPERTIES
  CalendarKept
  AnswersAgree
CHECK_DEADLOCK FALSE
