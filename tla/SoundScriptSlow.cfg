SPECIFICATION Spec

CONSTANTS
  Tokens = 1
  Downloads = {}
  Slow = TRUE
  MaxLost = 0
  MaxKills = 0

INVARIANTS
  OwnedSound

CHECK_DEADLOCK FALSE
