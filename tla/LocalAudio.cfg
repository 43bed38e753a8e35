SPECIFICATION FairSpec

CONSTANTS
  Top = 3
  AlertGain = 3
  SliderGains = {0, 1, 2}
  MaxSounds = 2
  MaxActs = 3
  MaxStarts = 2
  MaxFaults = 1
  Cancellable = {"media", "sound"}

INVARIANTS
  RightGain

PROPERTIES
  SliderObeyed

CHECK_DEADLOCK FALSE
