SPECIFICATION FairSpec
CONSTANTS
  MaxWords = 3
  SeenSize = 1
  Tunings = {300, 900}
  Warmup = 300
  None = 0
  MaxFrames = 4
  BufferSize = 2
  MaxConnections = 3
  MaxWindows = 3
CHECK_DEADLOCK FALSE
INVARIANTS TimelineIsWhole HeardIsSaid
PROPERTY NothingLingers
