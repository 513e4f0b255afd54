CONSTANTS
  b1 = b1
  g = g
  m = m
  Bookings = {b1}
  Conns = {g, m}
  ConnsOf <- MCConnsOf
  Workers = {1}
  MaxDeliveries = 2
  Outages = {"provider", "reply", "store"}
  MaxClock = 2
  Providers = {"google", "microsoft"}
  Calendars = {c1, c2}
  Spans <- MCSpans
  Window <- MCWindow
  GridStep = 2
  MaxPerQuery = 1
  CacheTTL = 1
  MaxEdits = 3
  ProviderFaults = {"list", "query", "address"}
  Owners = {u1, u2}
  Pictures = {good, huge, broken}
  Oversized = {huge}
  Corrupt = {broken}
  Uploads = {r1, r2}
  Subscribers = {u1}
  Hooks = {w1, w2}
  Deaf = {w1}
  Guest = guest
  Kinds = {"created", "cancelled"}
  MaxNews = 1
  BatchSize = 2
  MaxRetries = 1
  MaxTroubles = 1
SPECIFICATION Spec
INVARIANTS
  EventForEach
  NoPhantom
  BusyIsSeen
  PhotosShow
PROPERTIES
  DeletesArrive
  OthersHear
CHECK_DEADLOCK FALSE
