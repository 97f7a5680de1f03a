------------------------------ MODULE TrialBoot ------------------------------
(***************************************************************************)
(* What a deploy promises about the board, with every detail left out: an  *)
(* image is tried, and either it is accepted and becomes the one the board *)
(* falls back to, or the board returns to the one it trusted before.       *)
(* There is always a trusted image, trials do not stack, and nothing but   *)
(* an accepted trial changes what is trusted.  (The header of              *)
(* runtt-mock/src/device.rs states this as TEST, CONFIRMED and REVERT.)    *)
(***************************************************************************)
CONSTANTS Digests, Factory

VARIABLES running,  \* the image that boots now
          trusted   \* the image the board ends up with if nothing more happens

Init == running = Factory /\ trusted = Factory

Try == running = trusted /\ running' \in Digests /\ UNCHANGED trusted

Accept == running # trusted /\ trusted' = running /\ UNCHANGED running

Fallback == running # trusted /\ running' = trusted /\ UNCHANGED trusted

Next == Try \/ Accept \/ Fallback

Spec == Init /\ [][Next]_<<running, trusted>>
=============================================================================
