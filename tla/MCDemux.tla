------------------------------ MODULE MCDemux ------------------------------
(* Demux with three distinct payloads.                                     *)
EXTENDS Demux

CONSTANTS b1, b2, b3

ThreeBodies == {b1, b2, b3}
=============================================================================
