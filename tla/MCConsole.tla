------------------------------ MODULE MCConsole ------------------------------
(***************************************************************************)
(* Packets of a full line, of a padded line and of two or three lines.     *)
(***************************************************************************)
EXTENDS Console

MCPackets == {[lines |-> 1, padded |-> FALSE], [lines |-> 2, padded |-> TRUE],
              [lines |-> 3, padded |-> FALSE]}
=============================================================================
