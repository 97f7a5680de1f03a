---------------------------- MODULE DeployProof ----------------------------
(***************************************************************************)
(* What a deploy guarantees, for every set of images, every assignment of  *)
(* contracts to them, every retry count and any number of deploys, kills,  *)
(* reboots and lost messages, on a transport whose link dies with the      *)
(* board (USB), as long as no deploy meets a board in the middle of a      *)
(* trial.  Neither assumption can be dropped: the run find_mid_trial shows *)
(* what a deploy on a trial does, and the README what a CAN link does.     *)
(***************************************************************************)
EXTENDS Deploy, TLAPS

UsbSettled == Transport = "usb" /\ ~ConnectMidTrial

-----------------------------------------------------------------------------
(* The inductive invariant *)

Keepable(h) == h = Factory \/ h \in vouched

\* No trial: the running image is confirmed, and came through the gate.
SettledBoard ==
  ~awaiting_confirm => slot0.confirmed /\ Keepable(slot0.hash)

\* A trial: the image to fall back to is whole, and is not itself staged.
TrialBoard ==
  awaiting_confirm =>
    /\ ~slot0.confirmed
    /\ slot1.confirmed /\ ~slot1.pending /\ Keepable(slot1.hash)
    /\ slot0.hash # slot1.hash

\* Only a TEST mark is ever waiting for a reset, and never on a second copy.
StagedSlot ==
  /\ slot0.hash \in Digests /\ ~slot0.pending
  /\ slot1.pending => /\ ~slot1.permanent
                      /\ slot1.hash \in Digests /\ slot1.hash # slot0.hash

\* Up to its own reset a connected deploy works on a board that is not on trial.
QuietBoard ==
  link /\ pc \in {"identify", "list_before", "upload", "list_after",
                  "direct_reset", "test", "reset"} => ~awaiting_confirm

\* From the image list on, a connected deploy talks to the image it deployed.
SameImage ==
  /\ link /\ pc = "gate" =>
       /\ slot0.hash = want /\ ~silent
       /\ Speech[want] \notin {"mute", "bringup"}
  /\ link /\ pc = "confirm" => slot0.hash = want /\ want \in vouched

\* What the gate let through.
Vouched ==
  \A h \in vouched :
    /\ Speech[h] \notin {"mute", "bringup"}
    /\ Speech[h] \in {"match", "silent"} \/ h \in unheard

LinkState ==
  /\ link => present
  /\ ~Lossy => tries = 0 /\ unheard = {}

Board == SettledBoard /\ TrialBoard /\ StagedSlot

Safe == Board /\ QuietBoard /\ SameImage /\ Vouched /\ LinkState
-----------------------------------------------------------------------------
(* Type correctness, on every transport *)

\* A slot that can become the running one holds an image.
Occupied ==
  /\ slot0.hash \in Digests
  /\ slot1.pending => slot1.hash \in Digests
  /\ awaiting_confirm => slot1.hash \in Digests

SlotTypes ==
  /\ slot0 \in Image /\ slot1 \in Image /\ awaiting_confirm \in BOOLEAN
  /\ failed_digests \subseteq Digests \cup {NoDigest}

\* A reset leaves well-formed slots, whichever of its three branches is taken.
LEMMA ResetTypes ==
  ASSUME SlotTypes, Occupied, Reset
  PROVE  SlotTypes' /\ Occupied'
<1>1. CASE Revert
  BY <1>1 DEF Revert, SlotTypes, Occupied, Image
<1>2. CASE SwapIn
  BY <1>2 DEF SwapIn, SlotTypes, Occupied, Image
<1>3. CASE UNCHANGED slotVars
  BY <1>3 DEF slotVars, SlotTypes, Occupied
<1>4. QED
  BY <1>1, <1>2, <1>3 DEF Reset

\* So does marking an image, which can only mark one that is there.
LEMMA SetStateTypes ==
  ASSUME SlotTypes, Occupied, NEW h \in Digests, NEW c \in BOOLEAN, SetState(h, c)
  PROVE  SlotTypes' /\ Occupied'
  BY DEF SetState, SetStateRefused, Confirmed, SlotTypes, Occupied, Image

\* And completing an upload.
LEMMA UploadTypes ==
  ASSUME SlotTypes, Occupied, NEW h \in Digests, UploadComplete(h)
  PROVE  SlotTypes' /\ Occupied'
  BY DEF UploadComplete, FreshImage, SlotTypes, Occupied, Image

TypeInv == TypeOK /\ Occupied
HostFlags == skip \in BOOLEAN /\ link \in BOOLEAN
HostCounts == tries \in Nat /\ misses \in 0..2 /\ code \in 0..1
HostTypes == pc \in Places /\ want \in Digests /\ HostFlags /\ HostCounts

\* What the host does after a request keeps its own variables in range.
LEMMA HostMoves ==
  ASSUME HostTypes
  PROVE  /\ \A p \in Places : GoTo(p) => HostTypes'
         /\ \A n \in 0..1 : Exit(n) => HostTypes'
<1>1. "exit" \in Places
  BY DEF Places
<1>2. ASSUME NEW p \in Places, GoTo(p)
      PROVE  HostTypes'
  BY <1>2 DEF HostTypes, HostFlags, HostCounts, GoTo
<1>3. ASSUME NEW n \in 0..1, Exit(n)
      PROVE  HostTypes'
  <2>1. HostFlags'
    BY <1>3, Zenon DEF HostTypes, HostFlags, Exit
  <2>2. HostCounts'
    BY <1>3 DEF HostCounts, Exit
  <2>3. QED
    BY <1>1, <1>3, <2>1, <2>2 DEF HostTypes, Exit
<1>4. QED
  BY <1>2, <1>3

\* Every step of the host or the environment keeps the types.
LEMMA TypeStep ==
  ASSUME TypeInv, [Next]_vars
  PROVE  TypeInv'
<1> USE DeployAssumption, DigestsAssumption
<1>0. /\ SlotTypes /\ Occupied /\ HostTypes /\ present \in BOOLEAN
      /\ silent \in BOOLEAN /\ fault \in Faults /\ deploys \in Nat
      /\ mishaps \in Nat /\ vouched \subseteq Digests /\ unheard \subseteq Digests
  BY DEF TypeInv, TypeOK, DeviceTypeOK, SlotTypes, HostTypes, HostFlags, HostCounts
<1>g. /\ \A p \in Places : GoTo(p) => HostTypes'
      /\ \A n \in 0..1 : Exit(n) => HostTypes'
  BY <1>0, HostMoves
<1>s. SUFFICES /\ SlotTypes' /\ Occupied' /\ HostTypes' /\ present' \in BOOLEAN
               /\ silent' \in BOOLEAN /\ fault' \in Faults /\ deploys' \in Nat
               /\ mishaps' \in Nat /\ vouched' \subseteq Digests /\ unheard' \subseteq Digests
  BY DEF TypeInv, TypeOK, DeviceTypeOK, SlotTypes, HostTypes, HostFlags, HostCounts
<1>p. {"list_before", "upload", "list_after", "direct_reset", "test", "reset", "gate",
       "confirm", "resident", "identify", "connect", "reconnect", "direct_reconnect",
       "list_booted"} \subseteq Places
  BY DEF Places, Steps, Requests
<1> USE <1>0
<1>u. ASSUME Untouched
      PROVE  /\ SlotTypes' /\ Occupied' /\ present' \in BOOLEAN
             /\ silent' \in BOOLEAN /\ fault' \in Faults /\ deploys' \in Nat
             /\ mishaps' \in Nat /\ vouched' \subseteq Digests /\ unheard' \subseteq Digests
  BY <1>u DEF Untouched, devVars, SlotTypes, Occupied
<1>o. ASSUME OnlySlots
      PROVE  /\ present' \in BOOLEAN
             /\ silent' \in BOOLEAN /\ fault' \in Faults /\ deploys' \in Nat
             /\ mishaps' \in Nat /\ vouched' \subseteq Digests /\ unheard' \subseteq Digests
  BY <1>o DEF OnlySlots
<1>q. ASSUME UNCHANGED slotVars
      PROVE  SlotTypes' /\ Occupied'
  BY <1>q DEF slotVars, SlotTypes, Occupied
<1>w. want \in Digests
  BY DEF HostTypes
<1>1. CASE UNCHANGED vars
  BY <1>1 DEF vars, SlotTypes, Occupied, HostTypes, HostFlags, HostCounts
<1>2. ASSUME NEW d \in Digests, NEW s \in BOOLEAN, Begin(d, s)
      PROVE  TypeInv'
  <2>0. HostFlags'
    BY <1>2, Zenon DEF Begin, HostFlags
  <2>3. HostCounts' /\ deploys' \in Nat
    BY <1>2 DEF Begin, HostTypes, HostCounts
  <2>1. HostTypes' /\ deploys' \in Nat
    BY <1>2, <2>0, <2>3, <1>p DEF Begin, HostTypes
  <2>2. QED
    BY <1>2, <2>1 DEF Begin, devVars, SlotTypes, Occupied, TypeInv, TypeOK,
                      DeviceTypeOK, HostTypes, HostFlags, HostCounts
<1>3. CASE BadFirmware
  BY <1>3 DEF BadFirmware, devVars, SlotTypes, Occupied, HostTypes, HostFlags,
                  HostCounts
<1>4. CASE Connect
  BY <1>4, <1>u, <1>p DEF Connect, HostTypes, HostFlags, HostCounts
<1>5. CASE ConnectFails \/ IdentifyRefuses \/ ReconnectTimesOut \/ GateRefuses
           \/ RequestFails \/ Stop
  BY <1>5, <1>u, <1>g DEF ConnectFails, IdentifyRefuses, ReconnectTimesOut,
                          GateRefuses, RequestFails, Stop
<1>6. CASE Identify \/ ListBefore \/ ListAfter \/ ListBooted
  BY <1>6, <1>u, <1>g, <1>p DEF Identify, ListBefore, ListAfter, ListBooted
<1>7. CASE Upload
  BY <1>7, <1>o, <1>g, <1>p, <1>w, UploadTypes DEF Upload
<1>8. CASE UploadFails
  <2>1. HostTypes' /\ SlotTypes' /\ Occupied'
    BY <1>8, <1>g, <1>q DEF UploadFails
  <2>2. QED
    BY <1>8, <2>1 DEF UploadFails
<1>9. CASE MarkTest
  <2>1. HostTypes'
    <3>1. GoTo("reset") \/ Exit(1)
      BY <1>9 DEF MarkTest
    <3>2. QED
      BY <3>1, <1>g, <1>p
  <2>2. SlotTypes' /\ Occupied'
    BY <1>9, <1>w, <1>q, SetStateTypes DEF MarkTest
  <2>3. QED
    BY <1>9, <2>1, <2>2, <1>o DEF MarkTest
<1>10. CASE HostReset
  <2>1. HostTypes'
    BY <1>10, <1>p DEF HostReset, HostTypes, HostFlags, HostCounts
  <2>2. QED
    BY <1>10, <2>1, <1>o, ResetTypes DEF HostReset
<1>11. CASE Reconnect
  BY <1>11, <1>u, <1>p DEF Reconnect, HostTypes, HostFlags, HostCounts
<1>12. CASE GatePasses
  <2>1. HostTypes'
    BY <1>12, <1>g, <1>p DEF GatePasses
  <2>2. vouched' \subseteq Digests /\ unheard' \subseteq Digests
    BY <1>12 DEF GatePasses, Occupied
  <2>3. QED
    BY <1>12, <2>1, <2>2 DEF GatePasses, devVars, SlotTypes, Occupied
<1>13. CASE Confirm
  <2>1. HostTypes'
    <3>1. GoTo("resident") \/ Exit(1)
      BY <1>13 DEF Confirm
    <3>2. QED
      BY <3>1, <1>g, <1>p
  <2>2. SlotTypes' /\ Occupied'
    BY <1>13, <1>w, <1>q, SetStateTypes DEF Confirm
  <2>3. QED
    BY <1>13, <2>1, <2>2, <1>o DEF Confirm
<1>14. CASE LoseAttempt
  <2>1. HostTypes'
    <3>1. link' \in BOOLEAN
      BY <1>14 DEF LoseAttempt, HostTypes, HostFlags, HostCounts
    <3>2. QED
      BY <1>14, <3>1 DEF LoseAttempt, HostTypes, HostFlags, HostCounts
  <2>2. SlotTypes' /\ Occupied'
    <3>1. CASE UNCHANGED slotVars
      BY <3>1, <1>q
    <3>2. CASE Executes
      BY <3>2, <1>w, UploadTypes, SetStateTypes, ResetTypes DEF Executes
    <3>3. QED
      BY <1>14, <3>1, <3>2 DEF LoseAttempt
  <2>3. QED
    BY <1>14, <2>1, <2>2, <1>o DEF LoseAttempt
<1>15. CASE Heartbeat
  BY <1>15, <1>u DEF Heartbeat, HostTypes, HostFlags, HostCounts
<1>16. CASE HeartbeatMissed
  <2>1. HostTypes'
    BY <1>16, <1>g DEF HeartbeatMissed, HostTypes, HostFlags, HostCounts
  <2>2. QED
    BY <1>16, <2>1, <1>u DEF HeartbeatMissed
<1>17. CASE Killed
  BY <1>17, <1>g DEF Killed, devVars, SlotTypes, Occupied
<1>18. CASE Reboot
  <2>1. HostTypes'
    BY <1>18 DEF Reboot, HostTypes, HostFlags, HostCounts
  <2>2. QED
    BY <1>18, <2>1, ResetTypes DEF Reboot
<1>19. CASE Unplug
  <2>0. HostFlags' /\ present' \in BOOLEAN
    BY <1>19, Zenon DEF Unplug, HostTypes, HostFlags
  <2>1. HostTypes' /\ mishaps' \in Nat
    BY <1>19, <2>0 DEF Unplug, HostTypes, HostCounts
  <2>2. QED
    BY <1>19, <2>1 DEF Unplug, devVars, SlotTypes, Occupied
<1>20. CASE Replug
  <2>1. HostTypes'
    BY <1>20 DEF Replug, hostVars, HostTypes, HostFlags, HostCounts
  <2>2. QED
    BY <1>20, <2>1, ResetTypes DEF Replug
<1>21. QED
  BY <1>1, <1>2, <1>3, <1>4, <1>5, <1>6, <1>7, <1>8, <1>9, <1>10, <1>11, <1>12,
     <1>13, <1>14, <1>15, <1>16, <1>17, <1>18, <1>19, <1>20, <1>s
     DEF Next, RunStep, Resident, Environment, TypeInv, TypeOK, DeviceTypeOK,
         SlotTypes, HostTypes, HostFlags, HostCounts

\* The types hold of every board a service can first meet.
LEMMA InitTypes ==
  ASSUME Init
  PROVE  TypeInv
<1>1. slot0 \in Image /\ slot0.hash = Factory
  BY DigestsAssumption DEF Init, DeviceInit, Confirmed, FreshImage, Image
<1>2. slot1 \in Image /\ ~slot1.pending
  <2>1. CASE slot1 = NoImage
    BY <2>1 DEF NoImage, Image
  <2>2. ASSUME NEW h \in Digests, slot1 = [FreshImage(h) EXCEPT !.bootable = FALSE]
        PROVE  slot1 \in Image /\ ~slot1.pending
    BY <2>2 DEF FreshImage, Image
  <2>3. QED
    BY <2>1, <2>2 DEF Init, DeviceInit, Leftovers
<1>3. pc \in Places
  BY DEF Init, Places
<1>4. /\ awaiting_confirm \in BOOLEAN /\ silent \in BOOLEAN /\ ~awaiting_confirm
      /\ skip \in BOOLEAN /\ link \in BOOLEAN /\ present \in BOOLEAN
  BY Zenon DEF Init, DeviceInit
<1>5. /\ tries \in Nat /\ misses \in 0..2 /\ code \in 0..1 /\ deploys \in Nat
      /\ mishaps \in Nat
  BY DEF Init
<1>6. /\ failed_digests \subseteq Digests \cup {NoDigest} /\ vouched \subseteq Digests
      /\ unheard \subseteq Digests /\ fault \in Faults /\ want \in Digests
  BY DigestsAssumption DEF Init, DeviceInit
<1>7. QED
  BY <1>1, <1>2, <1>3, <1>4, <1>5, <1>6, DigestsAssumption
     DEF TypeInv, TypeOK, DeviceTypeOK, Occupied

(* The type invariant, for every transport and every set of images.  It is *)
(* not inductive alone: vouched stays a set of digests only because a slot *)
(* that can come to run is never empty (Occupied).                         *)
THEOREM TypeCorrect == Spec => []TypeOK
<1>1. Init => TypeInv
  BY InitTypes
<1>2. TypeInv /\ [Next]_vars => TypeInv'
  BY TypeStep
<1>3. TypeInv => TypeOK
  BY DEF TypeInv
<1>4. QED
  BY <1>1, <1>2, <1>3, PTL DEF Spec
-----------------------------------------------------------------------------
(* The board's part of the invariant *)

\* A reset keeps a trusted image within reach: it undoes a trial, or starts one.
LEMMA ResetBoard ==
  ASSUME SlotTypes, Board, Reset, vouched \subseteq Digests, vouched' = vouched
  PROVE  Board'
<1> USE DEF Board, SettledBoard, TrialBoard, StagedSlot, Keepable
<1>1. CASE Revert
  BY <1>1, DigestsAssumption DEF Revert, SlotTypes, Image
<1>2. CASE SwapIn
  <2>1. /\ slot0' = [slot1 EXCEPT !.pending = FALSE, !.confirmed = FALSE]
        /\ slot1' = slot0 /\ awaiting_confirm' = TRUE
        /\ ~awaiting_confirm /\ slot1.pending
    BY <1>2 DEF SwapIn, SlotTypes, Image
  <2>2. ~slot0.pending
    BY <2>1 DEF SlotTypes, Image
  <2>3. QED
    BY <2>1, <2>2 DEF SlotTypes, Image
<1>3. CASE UNCHANGED slotVars
  BY <1>3 DEF slotVars
<1>4. QED
  BY <1>1, <1>2, <1>3 DEF Reset
\* An upload to a board that is not on trial replaces nothing the board needs.
LEMMA UploadBoard ==
  ASSUME SlotTypes, Board, NEW h \in Digests, UploadComplete(h), ~awaiting_confirm,
         vouched' = vouched
  PROVE  Board' /\ slot0' = slot0 /\ ~awaiting_confirm'
  BY DEF UploadComplete, FreshImage, Board, SettledBoard, TrialBoard, StagedSlot,
         Keepable, SlotTypes, Image

(* Marking an image for test neither confirms an untrusted image nor makes *)
(* one permanent, on a board that is not on trial: there the image looked  *)
(* up first, the running one, is confirmed already.                        *)
LEMMA TestBoard ==
  ASSUME SlotTypes, Board, NEW h \in Digests, SetState(h, FALSE), ~awaiting_confirm,
         vouched' = vouched
  PROVE  Board' /\ ~awaiting_confirm'
<1> USE DEF Board, SettledBoard, TrialBoard, StagedSlot, Keepable, SlotTypes, Image
<1>1. CASE slot0.hash = h
  BY <1>1 DEF SetState, Confirmed
<1>2. CASE slot0.hash # h
  BY <1>2 DEF SetState, SetStateRefused
<1>3. QED
  BY <1>1, <1>2

\* Confirming the running image, once the gate has let it through, settles it.
LEMMA ConfirmBoard ==
  ASSUME SlotTypes, Board, NEW h \in vouched, SetState(h, TRUE), slot0.hash = h,
         vouched' = vouched
  PROVE  Board' /\ slot0'.hash = slot0.hash /\ slot0'.confirmed /\ ~awaiting_confirm'
  BY DEF SetState, Confirmed, Board, SettledBoard, TrialBoard, StagedSlot, Keepable,
         SlotTypes, Image

\* Nothing happens to the board.
LEMMA SameBoard ==
  ASSUME Board, UNCHANGED slotVars, vouched \subseteq vouched'
  PROVE  Board'
  BY DEF slotVars, Board, SettledBoard, TrialBoard, StagedSlot, Keepable

-----------------------------------------------------------------------------
(* The invariant is inductive *)

\* Boards as they are first met satisfy the invariant.
LEMMA SafeInit ==
  ASSUME Init
  PROVE  Safe
<1>1. slot0.confirmed /\ slot0.hash = Factory /\ ~slot0.pending
  BY DEF Init, DeviceInit, Confirmed, FreshImage
<1>2. ~slot1.pending
  <2>1. CASE slot1 = NoImage
    BY <2>1 DEF NoImage
  <2>2. ASSUME NEW h \in Digests, slot1 = [FreshImage(h) EXCEPT !.bootable = FALSE]
        PROVE  ~slot1.pending
    BY <2>2 DEF FreshImage
  <2>3. QED
    BY <2>1, <2>2 DEF Init, DeviceInit, Leftovers
<1>3. ~awaiting_confirm /\ ~link /\ tries = 0 /\ vouched = {} /\ unheard = {}
  BY DEF Init, DeviceInit
<1>4. QED
  BY <1>1, <1>2, <1>3, DigestsAssumption
     DEF Safe, Board, SettledBoard, TrialBoard, StagedSlot, Keepable, QuietBoard,
         SameImage, Vouched, LinkState

\* Leaving the run closes the link, after which the host's part is void.
LEMMA SafeExit ==
  ASSUME Safe, Board', NEW n, Exit(n), vouched' = vouched, unheard' = unheard
  PROVE  Safe'
  BY DEF Safe, Exit, QuietBoard, SameImage, Vouched, LinkState
\* Moving to the next request with the board untouched.
LEMMA SafeGoTo ==
  ASSUME Safe, NEW p, GoTo(p), Untouched,
         p \in {"list_before", "upload", "list_after", "direct_reset", "test", "reset"}
           => (link => ~awaiting_confirm),
         p \notin {"identify", "gate", "confirm"}
  PROVE  Safe'
<1>1. Board'
  BY SameBoard DEF Safe, Untouched, devVars, slotVars
<1>2. QED
  BY <1>1 DEF Safe, GoTo, Untouched, devVars, QuietBoard, SameImage, Vouched, LinkState

\* Every step, of the host and of its environment, preserves the invariant.
LEMMA SafeStep ==
  ASSUME TypeInv, Safe, UsbSettled, [Next]_vars
  PROVE  Safe'
<1>0. /\ SlotTypes /\ vouched \subseteq Digests /\ want \in Digests /\ Board
      /\ Occupied /\ tries \in Nat /\ Retries \in Nat
  BY DeployAssumption DEF TypeInv, TypeOK, DeviceTypeOK, SlotTypes, Safe
<1>s. ~SurvivesReset
  BY DEF UsbSettled, SurvivesReset
<1>u. ASSUME Untouched
      PROVE  Board' /\ vouched' = vouched /\ unheard' = unheard
  BY <1>u, <1>0, SameBoard DEF Untouched, devVars, slotVars
<1>1. CASE UNCHANGED vars
  BY <1>1, <1>0, SameBoard
     DEF vars, slotVars, Safe, QuietBoard, SameImage, Vouched, LinkState
<1>2. ASSUME NEW d \in Digests, NEW b \in BOOLEAN, Begin(d, b)
      PROVE  Safe'
  <2>1. Board'
    BY <1>2, <1>0, SameBoard DEF Begin, devVars, slotVars
  <2>2. QED
    BY <1>2, <2>1 DEF Begin, Safe, QuietBoard, SameImage, Vouched, LinkState
<1>3. CASE BadFirmware
  <2>1. Board'
    BY <1>3, <1>0, SameBoard DEF BadFirmware, devVars, slotVars
  <2>2. QED
    BY <1>3, <2>1 DEF BadFirmware, devVars, Safe, QuietBoard, SameImage, Vouched, LinkState
<1>4. CASE Connect
  BY <1>4, <1>u DEF Connect, Untouched, devVars, UsbSettled, Safe, QuietBoard, SameImage,
                    Vouched, LinkState
<1>5. CASE ConnectFails \/ IdentifyRefuses \/ ReconnectTimesOut \/ GateRefuses
           \/ RequestFails \/ Stop
  BY <1>5, <1>u, SafeExit DEF ConnectFails, IdentifyRefuses, ReconnectTimesOut,
                              GateRefuses, RequestFails, Stop
<1>6. CASE Identify
  BY <1>6, SafeGoTo DEF Identify, Safe, QuietBoard
<1>7. CASE ListBefore
  <2>1. Untouched /\ (GoTo("resident") \/ GoTo("upload") \/ Exit(1))
    BY <1>7 DEF ListBefore
  <2>2. link => ~awaiting_confirm
    BY <1>7 DEF ListBefore, Safe, QuietBoard
  <2>3. QED
    BY <2>1, <2>2, <1>u, SafeGoTo, SafeExit
<1>8. CASE ListAfter
  <2>1. Untouched /\ (GoTo("direct_reset") \/ GoTo("test") \/ Exit(1))
    BY <1>8 DEF ListAfter
  <2>2. link => ~awaiting_confirm
    BY <1>8 DEF ListAfter, Safe, QuietBoard
  <2>3. QED
    BY <2>1, <2>2, <1>u, SafeGoTo, SafeExit
<1>9. CASE Upload
  <2>1. ~awaiting_confirm
    BY <1>9 DEF Upload, Answered, Reached, Safe, QuietBoard
  <2>2. Board' /\ ~awaiting_confirm'
    BY <1>9, <2>1, <1>0, UploadBoard DEF Upload, OnlySlots
  <2>3. QED
    BY <1>9, <2>2 DEF Upload, GoTo, OnlySlots, Safe, QuietBoard, SameImage, Vouched, LinkState
<1>10. CASE UploadFails
  <2>1. Board' /\ vouched' = vouched /\ unheard' = unheard
    BY <1>10, <1>0, SameBoard DEF UploadFails
  <2>2. QED
    BY <1>10, <2>1, SafeExit DEF UploadFails
<1>11. CASE MarkTest
  <2>1. ~awaiting_confirm
    BY <1>11 DEF MarkTest, Answered, Reached, Safe, QuietBoard
  <2>2. CASE SetState(want, FALSE) /\ GoTo("reset")
    <3>1. Board' /\ ~awaiting_confirm'
      BY <1>11, <2>1, <2>2, <1>0, TestBoard DEF MarkTest, OnlySlots
    <3>2. QED
      BY <1>11, <2>2, <3>1
         DEF MarkTest, GoTo, OnlySlots, Safe, QuietBoard, SameImage, Vouched, LinkState
  <2>3. CASE UNCHANGED slotVars /\ Exit(1)
    BY <1>11, <2>3, <1>0, SameBoard, SafeExit DEF MarkTest, OnlySlots
  <2>4. QED
    BY <1>11, <2>2, <2>3 DEF MarkTest
<1>12. CASE HostReset
  <2>1. Board'
    BY <1>12, <1>0, ResetBoard DEF HostReset, OnlySlots
  <2>2. ~link' /\ tries' = 0 /\ vouched' = vouched /\ unheard' = unheard
    BY <1>12 DEF HostReset, OnlySlots
  <2>3. QED
    BY <2>1, <2>2 DEF Safe, QuietBoard, SameImage, Vouched, LinkState
<1>13. CASE Reconnect
  BY <1>13, <1>u DEF Reconnect, Untouched, devVars, Safe, QuietBoard, SameImage, Vouched,
                     LinkState
<1>14. CASE ListBooted
  <2>1. CASE slot0.hash = want /\ GoTo("gate")
    BY <1>14, <2>1, <1>u DEF ListBooted, Answered, Reached, ImgGroup, Speaks, GoTo,
       Untouched, devVars, Safe, QuietBoard, SameImage, Vouched, LinkState
  <2>2. CASE Exit(1)
    BY <1>14, <2>2, <1>u, SafeExit DEF ListBooted
  <2>3. QED
    BY <1>14, <2>1, <2>2 DEF ListBooted
<1>15. CASE GatePasses
  <2>1. Board' /\ vouched \subseteq vouched'
    BY <1>15, <1>0, SameBoard DEF GatePasses, devVars, slotVars
  <2>2. Vouched'
    <3>1. CASE ~link
      BY <1>15, <3>1 DEF GatePasses, Safe, Vouched
    <3>2. CASE link
      <4>1. slot0.hash = want /\ ~silent /\ Speech[want] \notin {"mute", "bringup"}
            /\ vouched' = vouched \cup {want}
        BY <1>15, <3>2 DEF GatePasses, Safe, SameImage
      <4>2. Speech[want] \in {"match", "silent"} \/ want \in unheard'
        <5>1. CASE Reached
          BY <1>15, <5>1, <4>1 DEF GatePasses
        <5>2. CASE ~Reached
          BY <1>15, <5>2, <4>1, <3>2 DEF GatePasses
        <5>3. QED
          BY <5>1, <5>2
      <4>3. unheard \subseteq unheard'
        BY <1>15 DEF GatePasses
      <4>4. QED
        BY <4>1, <4>2, <4>3 DEF Safe, Vouched
    <3>3. QED
      BY <3>1, <3>2
  <2>3. LinkState'
    <3>1. link' = link /\ present' = present /\ tries' = 0
      BY <1>15 DEF GatePasses, GoTo
    <3>2. ASSUME ~Lossy
          PROVE  unheard' = unheard
      <4>1. CASE ~link
        BY <1>15, <4>1 DEF GatePasses
      <4>2. CASE link
        <5>1. /\ slot0.hash = want /\ ~silent /\ Speech[want] # "mute"
              /\ present /\ tries = 0
          BY <1>15, <3>2, <4>2 DEF GatePasses, Safe, SameImage, LinkState
        <5>2. Reached
          BY <5>1, <4>2, <1>0, DigestsAssumption DEF Reached, Speaks
        <5>3. QED
          BY <1>15, <5>2 DEF GatePasses
      <4>3. QED
        BY <4>1, <4>2
    <3>3. QED
      BY <3>1, <3>2 DEF Safe, LinkState
  <2>4. QED
    BY <1>15, <2>1, <2>2, <2>3
       DEF GatePasses, GoTo, devVars, Safe, QuietBoard, SameImage
<1>16. CASE Confirm
  <2>1. slot0.hash = want /\ want \in vouched
    BY <1>16 DEF Confirm, Answered, Reached, Safe, SameImage
  <2>2. CASE SetState(want, TRUE) /\ GoTo("resident")
    <3>1. Board'
      BY <1>16, <2>1, <2>2, <1>0, ConfirmBoard DEF Confirm, OnlySlots
    <3>2. QED
      BY <1>16, <2>2, <3>1
         DEF Confirm, GoTo, OnlySlots, Safe, QuietBoard, SameImage, Vouched, LinkState
  <2>3. CASE UNCHANGED slotVars /\ Exit(1)
    BY <1>16, <2>3, <1>0, SameBoard, SafeExit DEF Confirm, OnlySlots
  <2>4. QED
    BY <1>16, <2>2, <2>3 DEF Confirm
<1>17. CASE LoseAttempt
  <2>0. /\ vouched' = vouched /\ unheard' = unheard /\ pc' = pc /\ want' = want
        /\ present' = present /\ silent' = silent /\ Lossy /\ link
    BY <1>17 DEF LoseAttempt, OnlySlots, Reached
  <2>1. CASE UNCHANGED <<slotVars, link>>
    <3>1. Board'
      BY <2>0, <2>1, <1>0, SameBoard
    <3>2. QED
      BY <2>0, <2>1, <3>1
         DEF slotVars, Safe, QuietBoard, SameImage, Vouched, LinkState
  <2>2. CASE Executes /\ link' = (pc \in {"reset", "direct_reset"} => SurvivesReset)
    <3>1. CASE pc = "upload" /\ UploadComplete(want)
      <4>1. Board' /\ ~awaiting_confirm'
        BY <3>1, <2>0, <1>0, UploadBoard DEF Safe, QuietBoard
      <4>2. QED
        BY <4>1, <3>1, <2>0 DEF Safe, QuietBoard, SameImage, Vouched, LinkState
    <3>2. CASE pc = "test" /\ SetState(want, FALSE)
      <4>1. Board' /\ ~awaiting_confirm'
        BY <3>2, <2>0, <1>0, TestBoard DEF Safe, QuietBoard
      <4>2. QED
        BY <4>1, <3>2, <2>0 DEF Safe, QuietBoard, SameImage, Vouched, LinkState
    <3>3. CASE pc = "confirm" /\ SetState(want, TRUE)
      <4>1. Board' /\ slot0'.hash = slot0.hash
        BY <3>3, <2>0, <1>0, ConfirmBoard DEF Safe, SameImage
      <4>2. QED
        BY <4>1, <3>3, <2>0 DEF Safe, QuietBoard, SameImage, Vouched, LinkState
    <3>4. CASE pc \in {"reset", "direct_reset"} /\ Reset
      <4>1. Board' /\ ~link'
        BY <3>4, <2>0, <2>2, <1>0, <1>s, ResetBoard
      <4>2. QED
        BY <4>1, <2>0 DEF Safe, QuietBoard, SameImage, Vouched, LinkState
    <3>5. QED
      BY <2>2, <3>1, <3>2, <3>3, <3>4 DEF Executes
  <2>3. QED
    BY <1>17, <2>1, <2>2 DEF LoseAttempt
<1>18. CASE Heartbeat
  BY <1>18, <1>u DEF Heartbeat, Untouched, devVars, Safe, QuietBoard, SameImage, Vouched,
                     LinkState
<1>19. CASE HeartbeatMissed
  <2>1. CASE Exit(1)
    BY <1>19, <2>1, <1>u, SafeExit DEF HeartbeatMissed
  <2>2. CASE UNCHANGED <<pc, want, skip, link, tries, code>>
    BY <1>19, <2>2, <1>u DEF HeartbeatMissed, Untouched, devVars, Safe, QuietBoard,
                             SameImage, Vouched, LinkState
  <2>3. QED
    BY <1>19, <2>1, <2>2 DEF HeartbeatMissed
<1>20. CASE Killed
  <2>1. Board' /\ vouched' = vouched /\ unheard' = unheard
    BY <1>20, <1>0, SameBoard DEF Killed, devVars, slotVars
  <2>2. QED
    BY <1>20, <2>1, SafeExit DEF Killed
<1>21. CASE Reboot
  <2>1. Board' /\ ~link'
    BY <1>21, <1>0, <1>s, ResetBoard DEF Reboot
  <2>2. QED
    BY <1>21, <2>1 DEF Reboot, Safe, QuietBoard, SameImage, Vouched, LinkState
<1>22. CASE Unplug
  <2>1. Board' /\ ~link'
    BY <1>22, <1>0, SameBoard DEF Unplug, devVars, slotVars
  <2>2. QED
    BY <1>22, <2>1 DEF Unplug, Safe, QuietBoard, SameImage, Vouched, LinkState
<1>23. CASE Replug
  <2>1. Board'
    BY <1>23, <1>0, ResetBoard DEF Replug
  <2>2. ~link /\ ~link'
    BY <1>23 DEF Replug, hostVars, Safe, LinkState
  <2>3. QED
    BY <1>23, <2>1, <2>2 DEF Replug, hostVars, Safe, QuietBoard, SameImage, Vouched, LinkState
<1>24. QED
  BY <1>1, <1>2, <1>3, <1>4, <1>5, <1>6, <1>7, <1>8, <1>9, <1>10, <1>11, <1>12, <1>13,
     <1>14, <1>15, <1>16, <1>17, <1>18, <1>19, <1>20, <1>21, <1>22, <1>23
     DEF Next, RunStep, Resident, Environment
-----------------------------------------------------------------------------
(* The theorems *)

\* The invariant holds throughout; the theorems below read it off.
LEMMA AlwaysSafe ==
  ASSUME UsbSettled
  PROVE  Spec => [](TypeInv /\ Safe)
<1>1. Init => TypeInv /\ Safe
  BY InitTypes, SafeInit
<1>2. (TypeInv /\ Safe) /\ [Next]_vars => (TypeInv /\ Safe)'
  BY TypeStep, SafeStep
<1>3. QED
  BY <1>1, <1>2, PTL DEF Spec

(* A board on trial always has a confirmed image to fall back to, and one  *)
(* that itself came through the gate: the deploy's upload never overwrites *)
(* it, a kill, a reboot or a lost reply at any point included.             *)
THEOREM RollbackTheorem ==
  ASSUME UsbSettled
  PROVE  Spec => []RollbackKept
<1>1. TypeInv /\ Safe => RollbackKept
  BY DEF Safe, Board, TrialBoard, Keepable, RollbackKept, Trusted
<1>2. QED
  BY <1>1, AlwaysSafe, PTL

(* No image becomes the confirmed one unless the contract gate passed      *)
(* while that very image was running on the link the confirm goes over.    *)
THEOREM GateTheorem ==
  ASSUME UsbSettled
  PROVE  Spec => []ConfirmedOnlyThroughContract
<1>1. TypeInv /\ Safe => ConfirmedOnlyThroughContract
  BY DEF Safe, Board, SettledBoard, TrialBoard, Keepable, ConfirmedOnlyThroughContract,
         Trusted
<1>2. QED
  BY <1>1, AlwaysSafe, PTL

(* Contract loss is never permanent: an image that cannot be updated any   *)
(* more over SMP is never confirmed.                                       *)
THEOREM ContractLossTheorem ==
  ASSUME UsbSettled
  PROVE  Spec => []ContractLossNeverPermanent
<1>1. TypeInv /\ Safe => ContractLossNeverPermanent
  BY DEF Safe, Board, SettledBoard, TrialBoard, Keepable, Vouched,
         ContractLossNeverPermanent
<1>2. QED
  BY <1>1, AlwaysSafe, PTL

(* An image that reports another contract major, or one that cannot be     *)
(* parsed, is never confirmed unless every reply to the gate's describe    *)
(* was lost; where no reply is, the gate is never left without an answer.  *)
THEOREM WrongContractTheorem ==
  ASSUME UsbSettled
  PROVE  /\ Spec => []WrongContractNeverConfirmed
         /\ ~Lossy => (Spec => [](unheard = {}))
<1>1. TypeInv /\ Safe => WrongContractNeverConfirmed
  BY DEF Safe, Board, SettledBoard, TrialBoard, Keepable, Vouched,
         WrongContractNeverConfirmed
<1>2. Spec => []WrongContractNeverConfirmed
  BY <1>1, AlwaysSafe, PTL
<1>3. ASSUME ~Lossy
      PROVE  Spec => [](unheard = {})
  <2>1. TypeInv /\ Safe => unheard = {}
    BY <1>3 DEF Safe, LinkState
  <2>2. QED
    BY <2>1, AlwaysSafe, PTL
<1>4. QED
  BY <1>2, <1>3

(* Deploy::run returns Ok only with the wanted image running and           *)
(* confirmed.                                                              *)
THEOREM SuccessTheorem ==
  ASSUME UsbSettled
  PROVE  Spec => SuccessMeansRunning
<1>1. ASSUME TypeInv, Safe, [Next]_vars, pc # "resident", pc' = "resident"
      PROVE  slot0'.hash = want /\ slot0'.confirmed
  <2>1. \/ ListBefore /\ AlreadyRuns
        \/ Reconnect /\ pc = "direct_reconnect"
        \/ Confirm /\ SetState(want, TRUE)
    BY <1>1, ZenonT(30) DEF Next, RunStep, Resident, Environment, vars, Begin, BadFirmware, Connect,
       ConnectFails, Identify, IdentifyRefuses, ListBefore, Upload, UploadFails,
       ListAfter, MarkTest, HostReset, Reconnect, ReconnectTimesOut, ListBooted,
       GatePasses, GateRefuses, Confirm, RequestFails, LoseAttempt, Heartbeat,
       HeartbeatMissed, Stop, Killed, Reboot, Unplug, Replug, GoTo, Exit, hostVars
  <2>2. CASE ListBefore /\ AlreadyRuns
    BY <2>2 DEF ListBefore, AlreadyRuns, Untouched, devVars
  <2>3. CASE Reconnect /\ pc = "direct_reconnect"
    BY <2>3 DEF Reconnect, PortFree, UsbSettled
  <2>4. CASE Confirm /\ SetState(want, TRUE)
    <3>1. slot0.hash = want /\ want \in vouched /\ vouched' = vouched
      BY <1>1, <2>4 DEF Confirm, Answered, Reached, Safe, SameImage, OnlySlots
    <3>2. SlotTypes /\ Board
      BY <1>1 DEF TypeInv, TypeOK, DeviceTypeOK, SlotTypes, Safe
    <3>3. QED
      BY <3>1, <3>2, <2>4, ConfirmBoard
  <2>5. QED
    BY <2>1, <2>2, <2>3, <2>4
<1>2. TypeInv /\ Safe /\ [Next]_vars =>
        [pc # "resident" /\ pc' = "resident" => slot0'.hash = want /\ slot0'.confirmed]_vars
  BY <1>1
<1>3. QED
  BY <1>2, AlwaysSafe, PTL DEF Spec, SuccessMeansRunning

-----------------------------------------------------------------------------
(* The refinement *)

Running == slot0.hash
Fallback == IF awaiting_confirm THEN slot1.hash ELSE slot0.hash

\* What the slot operations are to the abstract board.
AbstractStep == TB!Next \/ UNCHANGED <<Running, Fallback>>

\* A reset starts a trial, ends one by falling back, or is invisible.
LEMMA ResetRefines ==
  ASSUME SlotTypes, Board, Reset
  PROVE  AbstractStep
<1> USE DEF AbstractStep, TB!Next, TB!Try, TB!Accept, TB!Fallback, Running, Fallback
<1>1. CASE Revert
  BY <1>1 DEF Revert, Board, TrialBoard
<1>2. CASE SwapIn
  <2>1. /\ slot0'.hash = slot1.hash /\ slot1' = slot0 /\ awaiting_confirm'
        /\ ~awaiting_confirm /\ slot1.pending
    BY <1>2 DEF SwapIn, SlotTypes, Image, Board, StagedSlot
  <2>2. QED
    BY <2>1 DEF Board, StagedSlot
<1>3. CASE UNCHANGED slotVars
  BY <1>3 DEF slotVars
<1>4. QED
  BY <1>1, <1>2, <1>3 DEF Reset

(* On the board, a deploy is a run of the trial-boot protocol: trials do   *)
(* not stack, only an accepted trial changes what is trusted, and a failed *)
(* one leads back to it.                                                   *)
THEOREM Refinement ==
  ASSUME UsbSettled
  PROVE  Spec => TrialBootSpec
<1>1. Init => TB!Init
  BY DEF Init, DeviceInit, Confirmed, FreshImage, TB!Init
<1>2. ASSUME TypeInv, Safe, [Next]_vars
      PROVE  AbstractStep
  <2>0. SlotTypes /\ Board /\ want \in Digests
    BY <1>2 DEF TypeInv, TypeOK, DeviceTypeOK, SlotTypes, Safe
  <2>1. \/ UNCHANGED slotVars \/ Reset
        \/ /\ pc \in {"upload", "test"} /\ link
           /\ UploadComplete(want) \/ SetState(want, FALSE)
        \/ pc = "confirm" /\ link /\ SetState(want, TRUE)
    BY <1>2 DEF Next, RunStep, Resident, Environment, vars, slotVars, devVars, Begin,
       BadFirmware, Connect, ConnectFails, Identify, IdentifyRefuses, ListBefore, Upload,
       UploadFails, ListAfter, MarkTest, HostReset, Reconnect, ReconnectTimesOut,
       ListBooted, GatePasses, GateRefuses, Confirm, RequestFails, LoseAttempt, Executes,
       Heartbeat, HeartbeatMissed, Stop, Killed, Reboot, Unplug, Replug, Untouched,
       Answered, Reached
  <2>2. CASE UNCHANGED slotVars
    BY <2>2 DEF slotVars, AbstractStep, Running, Fallback
  <2>3. CASE Reset
    BY <2>0, <2>3, ResetRefines
  <2>4. CASE pc \in {"upload", "test"} /\ link /\ UploadComplete(want)
    BY <2>4, <1>2 DEF UploadComplete, Safe, QuietBoard, AbstractStep, Running, Fallback
  <2>5. CASE pc \in {"upload", "test"} /\ link /\ SetState(want, FALSE)
    <3>1. slot0'.hash = slot0.hash /\ ~awaiting_confirm /\ ~awaiting_confirm'
      BY <2>5, <2>0, <1>2, ZenonT(30) DEF SetState, Confirmed, Safe, QuietBoard, SlotTypes, Image
    <3>2. QED
      BY <3>1 DEF AbstractStep, Running, Fallback
  <2>6. CASE pc = "confirm" /\ link /\ SetState(want, TRUE)
    <3>1. /\ slot0.hash = want /\ slot0'.hash = slot0.hash /\ ~awaiting_confirm'
          /\ awaiting_confirm => slot0.hash # slot1.hash
      BY <2>6, <2>0, <1>2 DEF SetState, Confirmed, Safe, SameImage, SlotTypes, Image,
                              Board, TrialBoard
    <3>2. QED
      BY <3>1 DEF AbstractStep, Running, Fallback, TB!Next, TB!Accept
  <2>7. QED
    BY <2>1, <2>2, <2>3, <2>4, <2>5, <2>6
<1>3. TypeInv /\ Safe /\ [Next]_vars => [TB!Next]_<<Running, Fallback>>
  BY <1>2 DEF AbstractStep
<1>4. QED
  BY <1>1, <1>3, AlwaysSafe, PTL DEF Spec, TrialBootSpec, TB!Spec, Running, Fallback
=============================================================================
