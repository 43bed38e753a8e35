SPECIFICATION Spec
CONSTANTS
  MaxAttempts = 2
  FaultKinds = {"hub", "relay", "mqtt", "crash", "client", "command",
                "start", "stop", "configure", "reload"}
  MaxFaults = 2
  MaxInbox = 3
INVARIANTS
  ExclusiveRadio
PROPERTIES
  FreshAck
CHECK_DEADLOCK FALSE
