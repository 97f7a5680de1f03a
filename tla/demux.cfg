\* Three lines, two connections, every way of cutting the bytes into reads.
SPECIFICATION FairSpec
CONSTANTS
  b1 = b1
  b2 = b2
  b3 = b3
  Bodies <- ThreeBodies
  MaxLines = 3
  MaxOpens = 2
INVARIANTS
  FramesKept
  LogsKept
  ClosedMeansFree
PROPERTIES
  DropReturns
  DetachReported
CHECK_DEADLOCK FALSE
