SPECIFICATION Spec

CONSTANTS
  MaxSounds = 0
  MaxActs = 1
  MaxFaults = 1
  Events = {"play_media", "resolve"}
  CancelAt = {}

INVARIANTS
  RunningStreamIsFed

CHECK_DEADLOCK FALSE
