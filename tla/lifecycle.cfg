\* An orderly engine whose start, kill and delete may overlap.
SPECIFICATION Spec
CONSTANTS
  c1 = c1
  c2 = c2
  p1 = p1
  p2 = p2
  Callers <- TwoCallers
  Pids <- MCPids
  NoPid = nopid
  Signals <- MostSignals
  Orderly = TRUE
  PromptKill = TRUE
  Reuse = FALSE
  VerbsDie = FALSE
  MaxCreates = 1
INVARIANTS
  NoOrphan
  StoppedMeansTold
PROPERTIES
  DeviceFreeAfterDelete
SYMMETRY Symmetry
CHECK_DEADLOCK FALSE
