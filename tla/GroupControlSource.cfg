SPECIFICATION Spec

CONSTANTS
  Hubs = {h1}
  Stations = {s1}
  PERIODIC_RECEIVER_RESYNC_MIN_MEMBERS = 1
  MaxIntents = 3
  MaxFaults = 0
  MaxLate = 0

INVARIANTS
  OwnPlayerSilent

CHECK_DEADLOCK FALSE
