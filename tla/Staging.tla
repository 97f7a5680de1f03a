------------------------------ MODULE Staging ------------------------------
(***************************************************************************)
(* What a transfer promises, as Deploy takes it for granted: the staging   *)
(* slot changes from one whole image to another in one step, and the host  *)
(* is told of success only while the slot holds the image it sent.         *)
(***************************************************************************)
CONSTANTS Images, NoImage

VARIABLES sending,  \* the image being transferred, NoImage when none is
          staged,   \* what the staging slot holds
          told      \* the host believes its last transfer succeeded

Init == sending = NoImage /\ staged = NoImage /\ told = FALSE

Start == sending' \in Images /\ told' = FALSE /\ UNCHANGED staged

Store == staged' \in Images /\ (told => staged' = sending) /\ UNCHANGED <<sending, told>>

Succeed == staged = sending /\ told' = TRUE /\ UNCHANGED <<sending, staged>>

Next == Start \/ Store \/ Succeed

Spec == Init /\ [][Next]_<<sending, staged, told>>
=============================================================================
