SPECIFICATION FairSpec

CONSTANTS
  Members = {m1, m2}
  SourceLength = 6
  MaxSilence = 1
  MaxFaults = 2
  GROUP_JITTER_BUFFER_CHUNKS = 3
  GROUP_PREBUFFER_CHUNKS = 2
  GROUP_REBUFFER_RESUME_CHUNKS = 2
  GROUP_REMOTE_PREFILL_CHUNKS = 1
  SHARED_FANOUT_CHUNKS = 4
  HARD_SYNC_LOSS_CHUNKS = 3
  GROUP_TRANSPORT_PERIOD_MS = 2
  GROUP_TRANSPORT_TARGET_MS = 3

INVARIANTS
  TypeOK
  TimelineWhole
  SourceWhole

PROPERTY
  Delivered

CHECK_DEADLOCK FALSE
