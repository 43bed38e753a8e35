SPECIFICATION Spec

CONSTANTS
  MaxSounds = 1
  MaxActs = 2
  MaxFaults = 0
  Events = {"media_play", "media_stop"}
  CancelAt = {}

INVARIANTS
  IntentControlsResume

CHECK_DEADLOCK FALSE
