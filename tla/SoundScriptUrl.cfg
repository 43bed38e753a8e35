SPECIFICATION Spec

CONSTANTS
  Tokens = 1
  Downloads = {1}
  Slow = FALSE
  MaxLost = 0
  MaxKills = 0

PROPERTIES
  DownloadIsPlayed

CHECK_DEADLOCK FALSE
