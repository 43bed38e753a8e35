SPECIFICATION Spec
CONSTANTS
  Guards = {g1, g2}
  Slugs = {z1}
  NoSlug = NoSlug
  Policies = {auto, gated}
  Gated = gated
  NoPolicy = NoPolicy
  Anytime = TRUE
  MaxRequests = 4
  MaxFaults = 0
  MaxRestarts = 1
  MaxDrifts = 0
INVARIANT Returned
CHECK_DEADLOCK FALSE
