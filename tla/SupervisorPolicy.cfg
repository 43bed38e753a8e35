SPECIFICATION LiveSpec
CONSTANTS
  Guards = {g1, g2}
  Slugs = {z1, z2}
  NoSlug = NoSlug
  Policies = {auto, gated}
  Gated = gated
  NoPolicy = NoPolicy
  Anytime = FALSE
  MaxRequests = 3
  MaxFaults = 1
  MaxRestarts = 1
  MaxDrifts = 1
INVARIANTS OneClaim RollbackFirst  Returned
PROPERTIES  Gates
CHECK_DEADLOCK FALSE
