CONSTANTS
  h1 = h1
  h2 = h2
  c1 = c1
  c2 = c2
  b1 = b1
  b2 = b2
  w1 = w1
  w2 = w2
  MaxClock = 3
  Holds = {h1, h2}
  HoldTTLs = {0, 9}
  MinHold = 1
  MaxHold = 2
  Lessees = {c1, c2}
  LeaseTTL = 2
  Nobody = Nobody
  HostFaults = {"evict", "d1"}
  Meetings = {b1, b2}
  StartOf <- MCStarts
  Interval = 2
  Leads <- MCLeads
  CronFaults = {"skip", "repeat", "send"}
  Limit = 2
  Window = 2
  IdleAge = 2
  MaxGrants = 6
  Callers = {w1, w2}
  TokenLife = 2
  Skew = 1
  Rotations = {"keep", "renew", "replace"}
  MaxMint = 3
  TokenFaults = {"reply", "store"}
SPECIFICATION Spec
INVARIANTS
  LeaseExcludes
  RemindedOnce
  RateKept
  TokenKept
PROPERTIES
  HoldsGo
CHECK_DEADLOCK FALSE
