SPECIFICATION Spec

CONSTANTS
  Hubs = {h1}
  Stations = {s1}
  PERIODIC_RECEIVER_RESYNC_MIN_MEMBERS = 1
  MaxIntents = 2
  MaxFaults = 1
  MaxLate = 1

PROPERTIES
  OnlyTheUserStops

CHECK_DEADLOCK FALSE
