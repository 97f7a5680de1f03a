------------------------------- MODULE Deploy -------------------------------
(***************************************************************************)
(* One firmware service deploying to one board (runtt/src/flash.rs):       *)
(* Deploy::run from the first connect to the confirm, then stay_resident,  *)
(* against the board of module Device.  Between any two requests the host  *)
(* may be killed, the board may reboot on its own (watchdog, brown-out),   *)
(* be unplugged and plugged back, and -- when Lossy -- any request or its  *)
(* reply may be lost.  The engine may run the service again after every    *)
(* exit.                                                                   *)
(***************************************************************************)
EXTENDS Naturals, Device

CONSTANTS
  Speech,           \* what each image answers once it runs, see Voices
  Transport,        \* "usb", "uart" or "can": what carries the SMP link
  Lossy,            \* requests and replies may be lost
  ConnectMidTrial,  \* a deploy may find the board running an unconfirmed image
  Retries,          \* times the SMP client repeats an unanswered request
  MaxDeploys,       \* bound: deploys the engine runs
  MaxMishaps        \* bound: kills of the host, reboots and unpluggings nobody asked for

(* The contract an image speaks.  match: describe reports CONTRACT_MAJOR;  *)
(* other: another major; garbled: an unparseable version; silent: no       *)
(* describe command; bringup: no image management (img = false); mute: no  *)
(* SMP at all.                                                             *)
Voices == {"match", "other", "garbled", "silent", "bringup", "mute"}

ASSUME DeployAssumption ==
  /\ Speech \in [Digests -> Voices]
  /\ Transport \in {"usb", "uart", "can"}
  /\ Lossy \in BOOLEAN /\ ConnectMidTrial \in BOOLEAN
  /\ Retries \in Nat /\ MaxDeploys \in Nat /\ MaxMishaps \in Nat

VARIABLES
  pc,          \* the request Deploy::run is about to make
  want,        \* digest of the firmware being deployed
  skip,        \* skip_if_same
  link,        \* the client's channel reaches the board
  present,     \* the board is plugged in
  tries,       \* unanswered attempts of the current request
  misses,      \* consecutive_failures of the heartbeat
  code,        \* exit status of the last run
  deploys, mishaps,
  vouched,     \* history: images running, on a live link, when the gate let a deploy pass
  unheard      \* history: those of them whose describe stayed without an answer

hostVars == <<pc, want, skip, link, tries, misses, code>>
vars == <<slot0, slot1, awaiting_confirm, failed_digests, silent, fault, pc, want,
          skip, link, present, tries, misses, code, deploys, mishaps, vouched, unheard>>

\* The steps of Deploy::run that talk to the board.
Requests == {"identify", "list_before", "upload", "list_after", "direct_reset",
             "test", "reset", "list_booted", "gate", "confirm"}
Steps == Requests \cup {"connect", "reconnect", "direct_reconnect"}
Places == Steps \cup {"resident", "exit"}

TypeOK ==
  /\ DeviceTypeOK
  /\ pc \in Places /\ want \in Digests /\ skip \in BOOLEAN
  /\ link \in BOOLEAN /\ present \in BOOLEAN
  /\ tries \in Nat /\ misses \in 0..2 /\ code \in 0..1
  /\ deploys \in Nat /\ mishaps \in Nat
  /\ vouched \subseteq Digests /\ unheard \subseteq Digests

Init ==
  /\ DeviceInit
  /\ pc = "exit" /\ code = 0 /\ want = Factory /\ skip = TRUE
  /\ link = FALSE /\ present = TRUE /\ tries = 0 /\ misses = 0
  /\ deploys = 0 /\ mishaps = 0 /\ vouched = {} /\ unheard = {}

-----------------------------------------------------------------------------
(* The link *)

\* The running image speaks SMP, and the img group.
Speaks == ~silent /\ slot0.hash # NoDigest /\ Speech[slot0.hash] # "mute"
ImgGroup == Speaks /\ Speech[slot0.hash] # "bringup"

(* A reboot re-enumerates a USB device, and an open descriptor to it is    *)
(* dead; a UART bridge or a bus stays up.                                  *)
SurvivesReset == Transport # "usb"

\* The request can be delivered, run and answered; an img request too.
Reached == link /\ present /\ Speaks /\ tries <= Retries
Answered == Reached /\ ImgGroup

\* Moving on to the next request.
GoTo(p) == pc' = p /\ tries' = 0 /\ UNCHANGED <<want, skip, link, misses, code>>

\* run returned Err (main exits 1), or the container stopped (0).
Exit(status) ==
  /\ pc' = "exit" /\ code' = status
  /\ link' = FALSE /\ tries' = 0 /\ misses' = 0
  /\ UNCHANGED <<want, skip>>

Untouched == UNCHANGED <<devVars, present, deploys, mishaps, vouched, unheard>>
OnlySlots == UNCHANGED <<silent, fault, present, deploys, mishaps, vouched, unheard>>

-----------------------------------------------------------------------------
(* Deploy::run *)

\* The engine starts the service: the image is read and parsed.
Begin(d, s) ==
  /\ pc = "exit" /\ deploys < MaxDeploys
  /\ pc' = "connect" /\ want' = d /\ skip' = s
  /\ link' = FALSE /\ tries' = 0 /\ misses' = 0
  /\ deploys' = deploys + 1
  /\ UNCHANGED <<devVars, present, mishaps, vouched, unheard, code>>

\* The firmware file is missing or is not an MCUboot image.
BadFirmware ==
  /\ pc = "exit" /\ deploys < MaxDeploys
  /\ deploys' = deploys + 1 /\ code' = 1
  /\ UNCHANGED <<devVars, pc, want, skip, link, tries, misses, present, mishaps, vouched, unheard>>

\* connect and the first echo.
Connect ==
  /\ pc = "connect" /\ present /\ Speaks
  /\ ConnectMidTrial \/ ~awaiting_confirm
  /\ pc' = "identify" /\ link' = TRUE /\ tries' = 0
  /\ UNCHANGED <<want, skip, misses, code>> /\ Untouched

ConnectFails ==
  /\ pc = "connect"
  /\ ~present \/ ~Speaks \/ Lossy \/ (awaiting_confirm /\ ~ConnectMidTrial)
  /\ Exit(1) /\ Untouched

(* identify: a device that does not answer is tolerated, a contract that   *)
(* cannot be parsed or a board without image management is not; another    *)
(* major is deployed to anyway.                                            *)
Identify ==
  /\ pc = "identify"
  /\ \/ ~Reached
     \/ Reached /\ Speech[slot0.hash] \in {"match", "other", "silent"}
  /\ GoTo("list_before") /\ Untouched

IdentifyRefuses ==
  /\ pc = "identify" /\ Reached
  /\ Speech[slot0.hash] \in {"garbled", "bringup"}
  /\ Exit(1) /\ Untouched

\* The first image_list and the two early returns it decides.
AlreadyRuns == skip /\ slot0.hash = want /\ slot0.confirmed
KnownBad == \E s \in Reported : s.hash = want /\ ~s.bootable

ListBefore ==
  /\ pc = "list_before" /\ Answered
  /\ \/ AlreadyRuns /\ GoTo("resident")
     \/ ~AlreadyRuns /\ KnownBad /\ Exit(1)
     \/ ~AlreadyRuns /\ ~KnownBad /\ GoTo("upload")
  /\ Untouched

\* c.flash: every chunk acknowledged, and the final one reports a match.
Upload ==
  /\ pc = "upload" /\ Answered
  /\ UploadComplete(want) /\ GoTo("list_after") /\ OnlySlots

(* The transfer breaks off: the board declared a bad hash, or fell silent  *)
(* part way.  Nothing was stored.                                          *)
UploadFails ==
  /\ pc = "upload" /\ Answered /\ fault \in {"BadHash", "DisconnectMidUpload"}
  /\ silent' = (silent \/ fault = "DisconnectMidUpload")
  /\ Exit(1)
  /\ UNCHANGED <<slotVars, fault, present, deploys, mishaps, vouched, unheard>>

(* Where the image landed: nowhere, in the running slot and confirmed, or  *)
(* somewhere it has to be tried from.                                      *)
ListAfter ==
  /\ pc = "list_after" /\ Answered
  /\ \/ Landed(want) = NoImage /\ Exit(1)
     \/ Landed(want) # NoImage /\ LandedActive(want) /\ Landed(want).confirmed
        /\ GoTo("direct_reset")
     \/ Landed(want) # NoImage /\ ~(LandedActive(want) /\ Landed(want).confirmed)
        /\ GoTo("test")
  /\ Untouched

\* Mutant: the uploaded image is marked permanent instead of test.
MarkPermanent ==
  /\ pc = "test" /\ Answered
  /\ \/ SetState(want, TRUE) /\ GoTo("reset")
     \/ SetStateRefused(want) /\ UNCHANGED slotVars /\ Exit(1)
  /\ OnlySlots

\* c.set_state(&digest, false)
MarkTest ==
  /\ pc = "test" /\ Answered
  /\ \/ SetState(want, FALSE) /\ GoTo("reset")
     \/ SetStateRefused(want) /\ UNCHANGED slotVars /\ Exit(1)
  /\ OnlySlots

(* c.reset(), answered before the board goes down.  Afterwards the trial   *)
(* branch drops the client; the direct branch still owns it.               *)
HostReset ==
  /\ pc \in {"reset", "direct_reset"} /\ Reached
  /\ Reset
  /\ pc' = IF pc = "reset" THEN "reconnect" ELSE "direct_reconnect"
  /\ link' = FALSE /\ tries' = 0
  /\ UNCHANGED <<want, skip, misses, code>> /\ OnlySlots

(* reconnect.  serialport holds an flock on an open port, so a port the    *)
(* old client still has open cannot be opened again (demux.rs, Drop); an   *)
(* ISO-TP socket can.                                                      *)
PortFree == pc = "reconnect" \/ Transport = "can"

Reconnect ==
  /\ pc \in {"reconnect", "direct_reconnect"} /\ present /\ Speaks /\ PortFree
  /\ pc' = IF pc = "reconnect" THEN "list_booted" ELSE "resident"
  /\ link' = TRUE /\ tries' = 0
  /\ UNCHANGED <<want, skip, misses, code>> /\ Untouched

\* Mutant: the reconnect loop has no deadline.
ReconnectNeverTimesOut == FALSE

\* REBOOT_GRACE passes without an answer.
ReconnectTimesOut ==
  /\ pc \in {"reconnect", "direct_reconnect"}
  /\ ~present \/ ~Speaks \/ ~PortFree \/ Lossy
  /\ Exit(1) /\ Untouched

\* Mutant: the contract gate is skipped.
ListBootedNoGate ==
  /\ pc = "list_booted" /\ Answered
  /\ \/ slot0.hash = want /\ GoTo("confirm")
     \/ slot0.hash # want /\ Exit(1)
  /\ Untouched

\* Mutant: whatever booted is taken for the new image.
ListBootedUnchecked ==
  pc = "list_booted" /\ Answered /\ GoTo("gate") /\ Untouched

\* Which image is active after the reset.
ListBooted ==
  /\ pc = "list_booted" /\ Answered
  /\ \/ slot0.hash = want /\ GoTo("gate")
     \/ slot0.hash # want /\ Exit(1)
  /\ Untouched

\* Mutant: the gate asks, and takes any answer.
GateTakesAnyAnswer ==
  /\ pc = "gate"
  /\ \/ ~Reached
     \/ Reached /\ Speech[slot0.hash] \in {"match", "silent", "bringup", "other", "garbled"}
  /\ vouched' = IF link THEN vouched \cup {slot0.hash} ELSE vouched
  /\ unheard' = IF link /\ ~Reached THEN unheard \cup {slot0.hash} ELSE unheard
  /\ GoTo("confirm")
  /\ UNCHANGED <<devVars, present, deploys, mishaps>>

(* confirm_contract_matches: every error of describe counts as silence,    *)
(* and whether the image can be updated again is not looked at.            *)
GatePasses ==
  /\ pc = "gate"
  /\ \/ ~Reached
     \/ Reached /\ Speech[slot0.hash] \in {"match", "silent", "bringup"}
  /\ vouched' = IF link THEN vouched \cup {slot0.hash} ELSE vouched
  /\ unheard' = IF link /\ ~Reached THEN unheard \cup {slot0.hash} ELSE unheard
  /\ GoTo("confirm")
  /\ UNCHANGED <<devVars, present, deploys, mishaps>>

GateRefuses ==
  /\ pc = "gate" /\ Reached /\ Speech[slot0.hash] \in {"other", "garbled"}
  /\ Exit(1) /\ Untouched

\* c.set_state(&digest, true)
Confirm ==
  /\ pc = "confirm" /\ Answered
  /\ \/ SetState(want, TRUE) /\ GoTo("resident")
     \/ SetStateRefused(want) /\ UNCHANGED slotVars /\ Exit(1)
  /\ OnlySlots

-----------------------------------------------------------------------------
(* Unanswered requests *)

\* What the board does with a request that reaches it.
Executes ==
  \/ pc = "upload" /\ ImgGroup /\ UploadComplete(want)
  \/ pc = "test" /\ ImgGroup /\ SetState(want, FALSE)
  \/ pc = "confirm" /\ ImgGroup /\ SetState(want, TRUE)
  \/ pc \in {"reset", "direct_reset"} /\ Reset

(* A request, or the reply to one the board did run, is lost; the client   *)
(* repeats it until it has been sent 1 + Retries times.                    *)
LoseAttempt ==
  /\ Lossy /\ pc \in Requests /\ Reached
  /\ \/ UNCHANGED <<slotVars, link>>
     \/ /\ Executes
        /\ link' = (pc \in {"reset", "direct_reset"} => SurvivesReset)
  /\ tries' = tries + 1
  /\ UNCHANGED <<pc, want, skip, misses, code>> /\ OnlySlots

(* The client gives up.  Only the two describe probes survive that (see    *)
(* Identify and GatePasses); the img group of an image without image       *)
(* management answers an error.                                            *)
RequestFails ==
  /\ pc \in Requests \ {"identify", "gate"}
  /\ ~Reached \/ (~ImgGroup /\ pc \notin {"reset", "direct_reset"})
  /\ Exit(1) /\ Untouched

-----------------------------------------------------------------------------
(* stay_resident *)

Heartbeat ==
  /\ pc = "resident" /\ Reached
  /\ misses' = 0
  /\ UNCHANGED <<pc, want, skip, link, tries, code>> /\ Untouched

\* Mutant: the second strike does not end the residency.
HeartbeatNeverGivesUp ==
  /\ pc = "resident" /\ (~Reached \/ Lossy)
  /\ misses' = misses + 1 /\ misses < 3
  /\ UNCHANGED <<pc, want, skip, link, tries, code>>
  /\ Untouched

\* Mutant: a miss is not counted.
HeartbeatForgetsMisses ==
  /\ pc = "resident" /\ (~Reached \/ Lossy)
  /\ misses' = 0
  /\ UNCHANGED <<pc, want, skip, link, tries, code>>
  /\ Untouched

HeartbeatMissed ==
  /\ pc = "resident" /\ (~Reached \/ Lossy)
  /\ \/ misses + 1 >= 2 /\ Exit(1)
     \/ misses + 1 < 2 /\ misses' = misses + 1
        /\ UNCHANGED <<pc, want, skip, link, tries, code>>
  /\ Untouched

\* should_stop: a signal arrived; run returns Ok.
Stop == pc = "resident" /\ Exit(0) /\ Untouched

-----------------------------------------------------------------------------
(* The environment *)

\* The proxy is killed at any point: nothing on the host side survives.
Killed ==
  /\ pc # "exit" /\ mishaps < MaxMishaps
  /\ Exit(1) /\ mishaps' = mishaps + 1
  /\ UNCHANGED <<devVars, present, deploys, vouched, unheard>>

\* The board resets without being asked.
Reboot ==
  /\ present /\ mishaps < MaxMishaps
  /\ Reset
  /\ link' = (link /\ SurvivesReset)
  /\ mishaps' = mishaps + 1
  /\ UNCHANGED <<pc, want, skip, tries, misses, code, silent, fault, present,
                 deploys, vouched, unheard>>

\* The cable is pulled, and put back: the board boots.
Unplug ==
  /\ present /\ mishaps < MaxMishaps
  /\ present' = FALSE /\ link' = FALSE /\ mishaps' = mishaps + 1
  /\ UNCHANGED <<devVars, pc, want, skip, tries, misses, code, deploys, vouched, unheard>>

Replug ==
  /\ ~present
  /\ present' = TRUE /\ Reset
  /\ UNCHANGED <<hostVars, silent, fault, deploys, mishaps, vouched, unheard>>

-----------------------------------------------------------------------------
RunStep ==
  \/ Connect \/ ConnectFails \/ Identify \/ IdentifyRefuses \/ ListBefore
  \/ Upload \/ UploadFails \/ ListAfter \/ MarkTest \/ HostReset
  \/ Reconnect \/ ReconnectTimesOut \/ ListBooted \/ GatePasses \/ GateRefuses
  \/ Confirm \/ RequestFails \/ LoseAttempt

Resident == Heartbeat \/ HeartbeatMissed

Environment == Killed \/ Reboot \/ Unplug \/ Replug \/ Stop

Next ==
  \/ BadFirmware
  \/ \E d \in Digests, s \in BOOLEAN : Begin(d, s)
  \/ RunStep
  \/ Resident
  \/ Environment

Spec == Init /\ [][Next]_vars

(* The host process runs: a request is answered, lost or given up on in    *)
(* bounded time, and the heartbeat keeps its interval.                     *)
FairSpec == Spec /\ WF_vars(RunStep) /\ WF_vars(Resident)
-----------------------------------------------------------------------------
(* Properties *)

\* An image the board may keep for good: the one it came with, or one that was
\* running when a deploy's contract gate let it through.
Trusted(img) == img.hash = Factory \/ img.hash \in vouched

(* While an unconfirmed image runs, the staging slot holds an image that   *)
(* was confirmed, so that the next reset restores working firmware: what   *)
(* confirm_contract_matches counts on when it refuses by returning Err.    *)
RollbackKept == awaiting_confirm => slot1.confirmed /\ Trusted(slot1)

(* "Confirmation is only reachable through the contract" (device.rs): the  *)
(* running image is confirmed only if the gate passed while it ran.        *)
ConfirmedOnlyThroughContract == slot0.confirmed => Trusted(slot0)

(* Contract loss is never permanent: no image without SMP, or without the  *)
(* img group, is ever confirmed by a deploy.                               *)
ContractLossNeverPermanent ==
  slot0.confirmed /\ slot0.hash # Factory =>
    Speech[slot0.hash] \notin {"mute", "bringup"}

(* "A wrong-contract image simply never gets confirmed" (flash.rs, before  *)
(* confirm_contract_matches), save where the gate asked and every reply    *)
(* was lost: silence lets an image through.                                *)
WrongContractNeverConfirmed ==
  slot0.confirmed /\ slot0.hash # Factory =>
    Speech[slot0.hash] \in {"match", "silent"} \/ slot0.hash \in unheard

(* When run returns Ok the board runs the image asked for, confirmed,      *)
(* whichever of the three ways out was taken.                              *)
SuccessMeansRunning ==
  [][pc # "resident" /\ pc' = "resident" =>
       slot0'.hash = want /\ slot0'.confirmed]_vars

(* The board goes through the trial-boot protocol: running is slot 0, and  *)
(* trusted is what a reset leads to.                                       *)
TB == INSTANCE TrialBoot WITH
        running <- slot0.hash,
        trusted <- IF awaiting_confirm THEN slot1.hash ELSE slot0.hash

TrialBootSpec == TB!Spec

(* Every deploy comes to an end: the service is resident or has exited,    *)
(* whatever the board and the link do.                                     *)
DeployEnds == pc \in Steps ~> pc \in {"resident", "exit"}

(* A resident service whose board is gone exits, which is what makes the   *)
(* restart policy fire.                                                    *)
LostBoardIsNoticed == (pc = "resident" /\ ~link) ~> pc = "exit"

(* A deploy that finds its image written to the running slot returns a     *)
(* connected client (flash.rs, Deploy::run).                               *)
DirectWriteReturnsClient == pc = "direct_reset" ~> pc = "resident"

-----------------------------------------------------------------------------
(* One more claim of the source's comments that the code does not keep;    *)
(* the README says under which constants TLC refutes it.                   *)

(* A digest the board has rejected is not flashed again (flash.rs, the     *)
(* check for a reflash-revert storm; device.rs, failed_digests).           *)
RejectedIsNotReflashed ==
  [][pc = "upload" /\ pc' = "list_after" => want \notin failed_digests]_vars
=============================================================================
