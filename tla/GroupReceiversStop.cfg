SPECIFICATION ReceiversSpec

CONSTANTS
  Hubs = {h1}
  MaxTroubles = 1
  MaxPending = 1

INVARIANT
  StopLeavesNothing

CHECK_DEADLOCK FALSE
