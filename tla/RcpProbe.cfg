\* An RCP of every kind; on the line nothing, a frame of an earlier session, half a frame and a
\* stray escape or too many bytes; one notice and one fault.
CONSTANTS
  Rcps <- SomeRcps
  Leftovers <- SomeLeftovers
  Notices <- SomeNotices
  Chunks = {3, 2048}
  MAX_FRAME = 10
  MaxNotices = 1
  MaxFaults = 1
SPECIFICATION Spec
INVARIANTS TypeOK PassedIsProved RadioLeftOff FramesWhole SupportedPasses
CHECK_DEADLOCK FALSE
