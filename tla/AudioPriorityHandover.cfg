SPECIFICATION Spec

CONSTANTS
  MaxSounds = 1
  MaxActs = 0
  MaxFaults = 0
  Events = {}
  CancelAt = {"suspend"}

INVARIANTS
  IntentControlsResume

CHECK_DEADLOCK FALSE
