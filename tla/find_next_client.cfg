\* A board's end of the link that never tells that a host has left, as in the mock.
SPECIFICATION Spec
CONSTANTS
  Packets <- MCPackets
  EofReaches = FALSE
  MaxSent = 2
  MaxFaults = 1
INVARIANTS
  NextClientStartsClean
CHECK_DEADLOCK FALSE
