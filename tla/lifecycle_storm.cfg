\* An engine that calls anything at any time, verbs killed half way, PIDs reused.
SPECIFICATION Spec
CONSTANTS
  c1 = c1
  c2 = c2
  p1 = p1
  p2 = p2
  Callers <- TwoCallers
  Pids <- MCPids
  NoPid = nopid
  Signals <- KillOnly
  Orderly = FALSE
  PromptKill = FALSE
  Reuse = TRUE
  VerbsDie = TRUE
  MaxCreates = 2
INVARIANTS
  OneProxy
SYMMETRY Symmetry
CHECK_DEADLOCK FALSE
