SPECIFICATION Spec

CONSTANTS
  MaxSounds = 1
  MaxActs = 1
  MaxFaults = 0
  Events = {"sound_stop"}
  CancelAt = {"restore"}

INVARIANTS
  SuspendedForASound

CHECK_DEADLOCK FALSE
