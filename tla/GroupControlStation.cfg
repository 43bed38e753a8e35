SPECIFICATION Spec

CONSTANTS
  Hubs = {h1}
  Stations = {s1, s2}
  PERIODIC_RECEIVER_RESYNC_MIN_MEMBERS = 1
  MaxIntents = 3
  MaxFaults = 1
  MaxLate = 0

INVARIANTS
  StationIsNewest

CHECK_DEADLOCK FALSE
