SPECIFICATION Spec
CONSTANTS
  MaxAttempts = 2
  FaultKinds = {"stop"}
  MaxFaults = 1
  MaxInbox = 3
INVARIANTS
  UserStopRespected
