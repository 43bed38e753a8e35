SPECIFICATION FairReceivers

CONSTANTS
  Hubs = {h1, h2}
  MaxTroubles = 2
  MaxPending = 1

INVARIANTS
  ReceiversOK
  LetGo
  InStep

PROPERTY
  Rejoins

CHECK_DEADLOCK FALSE
