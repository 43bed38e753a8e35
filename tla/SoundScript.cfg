SPECIFICATION FairSpec

CONSTANTS
  Tokens = 2
  Downloads = {1}
  Slow = FALSE
  MaxLost = 1
  MaxKills = 1

INVARIANTS
  OwnedSound
  NothingLeft

PROPERTIES
  CompletionIsExit
  JobEnds

CHECK_DEADLOCK FALSE
