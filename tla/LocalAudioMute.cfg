SPECIFICATION Spec

CONSTANTS
  Top = 3
  AlertGain = 3
  SliderGains = {0, 1, 2}
  MaxSounds = 1
  MaxActs = 1
  MaxStarts = 0
  MaxFaults = 0
  Cancellable = {}

INVARIANTS
  AlertRespectsMute

CHECK_DEADLOCK FALSE
