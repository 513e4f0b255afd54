CONSTANTS
  People = {ann, bob}
  Links = {l1, l2}
  Zones = {kyiv, lviv}
  Policies <- MCPolicies
  Requests = {r1, r2}
  None = None
  Hosts = {ann, bob}
  Teams = {g}
  Slugs = {s1, s2}
  Paths = {x}
  Listings = {e1, e2}
  Forms = {r1, r2}
  NoOne = NoOne
  Tabs = {r1, r2}
  MaxClock = 2
  SessionTTL = 2
  SessionCap = 3
  SlideInterval = 1
  MaxLog = 5
SPECIFICATION Spec
SYMMETRY Interchangeable
INVARIANTS
  NobodyLockedOut
  OneSessionPerLink
  ScheduleStands
  PagesResolve
  SeesOwnPast
  RevocationHolds
CHECK_DEADLOCK FALSE
