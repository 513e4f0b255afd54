CONSTANTS
  b1 = b1
  g = g
  m = m
  Bookings = {b1}
  Conns = {g}
  ConnsOf <- OneCalendar
  Workers = {1, 2}
  MaxDeliveries = 1
  Outages = {}
SPECIFICATION SyncSpec
INVARIANTS
  NoPhantom
CHECK_DEADLOCK FALSE
