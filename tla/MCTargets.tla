----------------------------- MODULE MCTargets -----------------------------
(***************************************************************************)
(* A board with two channels, another under the same serial, and one with  *)
(* a single tty; three nodes, so that not all are there at once.           *)
(***************************************************************************)
EXTENDS Targets, TLC

MCBoards == {"a", "twin", "plain"}
MCPort == [b \in MCBoards |-> CASE b = "a" -> "3-4" [] b = "twin" -> "3-5" [] b = "plain" -> "3-6"]
MCSerial == [b \in MCBoards |-> IF b = "plain" THEN None ELSE "arm-01"]
Symmetry == Permutations(Nodes)

MCShape == [b \in MCBoards |-> IF b = "a" THEN "dual" ELSE "single"]
MCLabels == {[kind |-> "port", of |-> "3-4"], [kind |-> "serial", of |-> "arm-01"],
             [kind |-> "port", of |-> "3-6"]}

\* All selectors of up to five characters.
MCSelectors == UNION {[1..n -> {"d", "-", ".", "c"}] : n \in 0..5}
=============================================================================
