SPECIFICATION FairSpec

CONSTANTS
  Hubs = {h1}
  Stations = {s1}
  PERIODIC_RECEIVER_RESYNC_MIN_MEMBERS = 1
  MaxIntents = 2
  MaxFaults = 1
  MaxLate = 1

INVARIANTS
  TypeOK
  StoppedStays

PROPERTIES
  OneSource
  PlayWins

CHECK_DEADLOCK FALSE
