CONSTANTS
  None = None
  Hosts = {1, 2}
  EventTypes <- MCEventTypes
  Setups <- MCSetups
  Ranges <- MCRanges
  Starts <- MCStarts
  Bucket = 2
  Day = 12
  Week = 2
  MaxBookings = 1
  MaxClock = 1
SPECIFICATION Spec
CHECK_DEADLOCK FALSE
INVARIANTS
  ListedCanBeBooked
  ListingsAgree
  WallClockResolved
