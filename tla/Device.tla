------------------------------- MODULE Device -------------------------------
(***************************************************************************)
(* The image slots of one board, as the emulated device keeps them         *)
(* (runtt-mock/src/device.rs): slot 0 is the running image, slot 1 the     *)
(* staging slot.  An image is its MCUboot digest plus the four flags the   *)
(* img group reports.  The operations are actions over the slot variables; *)
(* the module that drives the board (Deploy) conjoins its own state.       *)
(***************************************************************************)
CONSTANTS Digests,   \* image digests (TLV SHA-256), the identity set_state matches on
          NoDigest,  \* the digest of an empty slot (Option::None)
          Factory    \* the image a board is provisioned with

ASSUME DigestsAssumption == NoDigest \notin Digests /\ Factory \in Digests

VARIABLES slot0, slot1,      \* Device.slot0, Device.slot1
          awaiting_confirm,  \* a test-marked image has booted, not yet confirmed
          failed_digests,    \* digests that booted and were reverted
          silent,            \* Server.silent: the board stopped answering
          fault              \* the injected fault, fixed for a board's life

slotVars == <<slot0, slot1, awaiting_confirm, failed_digests>>
devVars == <<slot0, slot1, awaiting_confirm, failed_digests, silent, fault>>

Image == [hash : Digests \cup {NoDigest}, bootable : BOOLEAN, pending : BOOLEAN,
          confirmed : BOOLEAN, permanent : BOOLEAN]

(* RestartUpload has no effect a completed transfer shows, and Timeout is  *)
(* a lost reply, which Deploy allows for every request.                    *)
Faults == {"None", "BadHash", "DisconnectMidUpload", "RevertOnBoot",
           "DigestAlreadyFailed"}

NoImage == [hash |-> NoDigest, bootable |-> FALSE, pending |-> FALSE,
            confirmed |-> FALSE, permanent |-> FALSE]

\* Image::from_bytes
FreshImage(h) == [hash |-> h, bootable |-> TRUE, pending |-> FALSE,
                  confirmed |-> FALSE, permanent |-> FALSE]

\* The record of an image that was confirmed.
Confirmed(img) == [img EXCEPT !.confirmed = TRUE, !.permanent = TRUE]

(* What a board may carry in its staging slot when it is first met: nothing *)
(* (Device::provisioned), or an image it reports as unbootable, which is   *)
(* the report flash.rs has a refusal for.                                  *)
Leftovers == {NoImage} \cup {[FreshImage(h) EXCEPT !.bootable = FALSE] : h \in Digests}

DeviceInit ==
  /\ slot0 = Confirmed(FreshImage(Factory))
  /\ slot1 \in Leftovers
  /\ awaiting_confirm = FALSE
  /\ failed_digests = {}
  /\ silent = FALSE
  /\ fault \in Faults

DeviceTypeOK ==
  /\ slot0 \in Image /\ slot1 \in Image
  /\ awaiting_confirm \in BOOLEAN /\ silent \in BOOLEAN
  /\ failed_digests \subseteq Digests \cup {NoDigest}
  /\ fault \in Faults

-----------------------------------------------------------------------------
(* image_states / state_payload: what a state read reports, slot 0 first.  *)
Reported == {s \in {slot0, slot1} : s.hash # NoDigest}

\* The first reported slot holding h; NoImage when none does.
Landed(h) == IF slot0.hash = h THEN slot0
             ELSE IF slot1.hash = h THEN slot1 ELSE NoImage

LandedActive(h) == slot0.hash = h

(* The last chunk of an upload arrives: the image is stored only when the  *)
(* digest declared up front matches the bytes received.                    *)
UploadComplete(h) ==
  /\ fault \notin {"BadHash", "DisconnectMidUpload"}
  /\ slot1' = FreshImage(h)
  /\ UNCHANGED <<slot0, awaiting_confirm, failed_digests>>

\* Device::set_state answers an error.
SetStateRefused(h) ==
  \/ fault = "DigestAlreadyFailed" /\ h \in failed_digests
  \/ slot0.hash # h /\ slot1.hash # h

(* Device::set_state.  The running image is looked up first, and is        *)
(* confirmed whatever the confirm flag says.                               *)
SetState(h, confirm) ==
  /\ ~SetStateRefused(h)
  /\ \/ /\ slot0.hash = h
        /\ slot0' = Confirmed(slot0)
        /\ awaiting_confirm' = FALSE
        /\ UNCHANGED <<slot1, failed_digests>>
     \/ /\ slot0.hash # h
        /\ slot1' = [slot1 EXCEPT !.pending = TRUE, !.permanent = confirm]
        /\ UNCHANGED <<slot0, awaiting_confirm, failed_digests>>

\* Device::reset: an unconfirmed trial is undone ...
Revert ==
  /\ awaiting_confirm
  /\ failed_digests' = failed_digests \cup {slot0.hash}
  /\ slot0' = slot1
  /\ slot1' = slot0
  /\ awaiting_confirm' = FALSE

\* Mutant: the outgoing image is not kept in the staging slot.
SwapInDropsOutgoing ==
  /\ ~awaiting_confirm /\ slot1.pending
  /\ slot0' = [slot1 EXCEPT !.pending = FALSE, !.confirmed = slot1.permanent]
  /\ slot1' = NoImage
  /\ awaiting_confirm' = (~slot1.permanent \/ fault = "RevertOnBoot")
  /\ UNCHANGED failed_digests

\* ... a pending image is swapped in, on trial unless it is permanent ...
SwapIn ==
  /\ ~awaiting_confirm /\ slot1.pending
  /\ slot0' = [slot1 EXCEPT !.pending = FALSE, !.confirmed = slot1.permanent]
  /\ slot1' = slot0
  /\ awaiting_confirm' = (~slot1.permanent \/ fault = "RevertOnBoot")
  /\ UNCHANGED failed_digests

\* ... and otherwise the same image boots again.
Reset ==
  \/ Revert
  \/ SwapIn
  \/ ~awaiting_confirm /\ ~slot1.pending /\ UNCHANGED slotVars
=============================================================================
