SPECIFICATION FairSpec
CONSTANTS
  FlushSize = 2
  MaxLines = 4
  Workers = {w1, w2}
  Signals = 2
INVARIANT LogIsKept
PROPERTIES WorkersLeave StopHeldByFramesOnly
CHECK_DEADLOCK FALSE
