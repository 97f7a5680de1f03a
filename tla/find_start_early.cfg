\* start signals a proxy that has not installed its handlers.
SPECIFICATION Spec
CONSTANTS
  c1 = c1
  c2 = c2
  p1 = p1
  p2 = p2
  Callers <- OneCaller
  Pids <- MCPids
  NoPid = nopid
  Signals <- StopSignals
  Orderly = TRUE
  PromptKill = TRUE
  Reuse = FALSE
  VerbsDie = FALSE
  MaxCreates = 1
INVARIANTS
  StartDoesNotKill
CHECK_DEADLOCK FALSE
