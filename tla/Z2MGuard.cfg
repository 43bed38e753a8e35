SPECIFICATION FairSpec

CONSTANTS
  MaxAttempts = 2
  FaultKinds = {"hub", "relay", "mqtt", "crash", "client", "command",
                "start", "stop", "configure", "reload"}
  MaxFaults = 2
  MaxInbox = 3

INVARIANTS
  StartsOnlyProbedRuntime
  VerifiedRuntime
  PauseSurvives

PROPERTIES
  RecoversOrGivesUp
  Contained

CHECK_DEADLOCK FALSE
