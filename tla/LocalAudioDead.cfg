SPECIFICATION FairSpec

CONSTANTS
  Top = 3
  AlertGain = 3
  SliderGains = {0, 1, 2}
  MaxSounds = 0
  MaxActs = 2
  MaxStarts = 1
  MaxFaults = 1
  Cancellable = {}

PROPERTIES
  SliderAlwaysObeyed

CHECK_DEADLOCK FALSE
