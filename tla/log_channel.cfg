\* Two lines over frames of three bytes and a buffer of two; one drop, one stray frame.
SPECIFICATION FairSpec
CONSTANTS
  Lines <- MCLines
  FrameSize = 3
  BufSize = 2
  MaxPrinted = 2
  MaxDropped = 1
  MaxForeign = 1
  MaxSilences = 1
INVARIANTS
  NothingLostOnTheWay
  ShownAsPrinted
  EndsForACause
PROPERTIES
  LinesComeOut
CHECK_DEADLOCK FALSE
