----------------------------- MODULE MCLifecycle -----------------------------
(* One container, up to two verbs at a time and two PIDs.                 *)
EXTENDS Lifecycle, TLC

CONSTANTS c1, c2, p1, p2

OneCaller == {c1}
TwoCallers == {c1, c2}
MCPids == {p1, p2}

StopSignals == {"TERM", "KILL"}
KillOnly == {"KILL"}
MostSignals == {"TERM", "HUP", "CONT"}

\* Verbs and PIDs are interchangeable; used where no liveness is checked.
Symmetry == Permutations(TwoCallers) \cup Permutations(MCPids)
=============================================================================
