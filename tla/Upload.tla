------------------------------- MODULE Upload -------------------------------
(***************************************************************************)
(* Transfer of an image, chunk by chunk: the client's loop (the toolkit    *)
(* behind ToolkitClient::flash), requests and replies on a link that loses *)
(* and delays them, and Device::upload_chunk with its injected faults.     *)
(* Deploy takes the whole of it as one request.                            *)
(*                                                                         *)
(* No two requests have the same sequence number here.  On the wire it has *)
(* eight bits and every process counts from its own start, so that a reply *)
(* delayed from one host to the next could be taken for another.           *)
(***************************************************************************)
EXTENDS ImageFile

CONSTANTS Units,      \* what files are made of
          Files,      \* firmware files
          Nothing,    \* Option::None
          Faults,     \* records [kind, at]: Fault, with at_offset or after_chunks
          ChunkSizes, \* units that fit into a request; the first has less room
          Samples,    \* records [file, digest]: files as imgtool makes them
          Trailers,   \* what may follow them
          Retries,    \* DEFAULT_RETRIES
          MaxLost,    \* bound: requests and replies lost
          MaxClients  \* bound: transfers attempted

FaultKinds == {"None", "BadHash", "RestartUpload", "DisconnectMidUpload"}

ASSUME UploadAssumption ==
  /\ Files \subseteq Seq(Units) \ {<<>>} /\ Nothing \notin Seq(Units)
  /\ Faults \subseteq [kind : FaultKinds, at : Nat]
  /\ ChunkSizes \subseteq Nat \ {0} /\ Retries \in Nat /\ MaxLost \in Nat /\ MaxClients \in Nat

ASSUME SamplesAssumption ==
  /\ (\A u \in Units : u.n \in Nat) /\ Trailers \subseteq Seq(Units)
  /\ \A s \in Samples : s.file \in Seq(Units) /\ LaidOut(s.file, s.digest)

VARIABLES
  pc,       \* the client: "idle", "wait", "done" or "failed"
  file,     \* the file it sends
  id,       \* sequence number of its last request
  req,      \* the request waiting for an answer
  tries,    \* times it was repeated
  why,      \* what the client failed of
  reqs,     \* requests on their way to the board
  resps,    \* replies on their way back
  upload,   \* Device.upload
  slot1,    \* Device.slot1, with the bytes stored
  silent,   \* Server.silent
  fault,    \* Device.fault
  lost, clients

clientVars == <<pc, file, id, req, tries, why, clients>>
deviceVars == <<upload, slot1, silent, fault>>
vars == <<clientVars, reqs, resps, deviceVars, lost>>

(* The SHA-256 of some bytes is represented by the bytes, so declared_sha  *)
(* is also what the declared length is the length of.                      *)
Request == [id : Nat, off : Nat, sha : Files \cup {Nothing}, data : Seq(Units)]
Reply == [id : Nat, off : Nat, match : {"yes", "no", "absent"}]

NoUpload == [declared_sha |-> <<>>, received |-> <<>>, chunks |-> 0, restart_demanded |-> FALSE]

EmptySlot == [hash |-> NoDigest, bytes |-> Nothing]

\* Image::from_bytes: the digest in the image, or else the hash of it all.
from_bytes(data) ==
  [hash |-> IF parse(data) # NoDigest THEN parse(data) ELSE data, bytes |-> data]

TypeOK ==
  /\ pc \in {"idle", "wait", "done", "failed"} /\ file \in Files \cup {Nothing}
  /\ id \in Nat /\ tries \in 0..Retries
  /\ pc = "wait" => req \in Request /\ file \in Files
  /\ why \in {"none", "unsigned", "timeout", "offset", "mismatch", "unverified"}
  /\ reqs \in Seq(Request) /\ resps \in Seq(Reply)
  /\ upload \in [declared_sha : Files \cup {<<>>}, received : Seq(Units), chunks : Nat,
                  restart_demanded : BOOLEAN]
  /\ slot1 = EmptySlot \/ \E f \in Files : slot1 = from_bytes(f)
  /\ silent \in BOOLEAN /\ fault \in Faults /\ lost \in 0..MaxLost /\ clients \in 0..MaxClients

Init ==
  /\ pc = "idle" /\ file = Nothing /\ id = 0 /\ req = Nothing /\ tries = 0 /\ why = "none"
  /\ reqs = <<>> /\ resps = <<>>
  /\ upload = NoUpload /\ slot1 = EmptySlot /\ silent = FALSE /\ fault \in Faults
  /\ lost = 0 /\ clients = 0

-----------------------------------------------------------------------------
(* The client *)

\* Length and digest go with the first chunk, and again after a restart.
Chunk(f, i, off, n) ==
  [id |-> i, off |-> off, sha |-> IF off = 0 THEN f ELSE Nothing,
   data |-> SubSeq(f, off + 1, off + n)]

Send(f, off) ==
  \E n \in {Least(c, Len(f) - off) : c \in ChunkSizes} :
    /\ id' = id + 1 /\ req' = Chunk(f, id', off, n) /\ reqs' = Append(reqs, req')
    /\ tries' = 0

(* A deploy reads its file and looks for the digest the board will report; *)
(* a file without one is refused, any other is sent from the start.        *)
Begin(f) ==
  /\ pc # "wait" /\ clients < MaxClients
  /\ clients' = clients + 1 /\ file' = f
  /\ \/ /\ parse(f) = NoDigest
        /\ pc' = "failed" /\ why' = "unsigned"
        /\ UNCHANGED <<id, req, tries, reqs>>
     \/ /\ parse(f) # NoDigest
        /\ pc' = "wait" /\ why' = "none"
        /\ Send(f, 0)
  /\ UNCHANGED <<resps, deviceVars, lost>>

End(result, reason) ==
  /\ pc' = result /\ why' = reason
  /\ UNCHANGED <<id, req, tries, reqs>>

(* The answer to the current request: the board's offset decides what is   *)
(* sent next.  An answer to the last chunk may lack the verdict, when the  *)
(* one that had it was lost; what the library makes of that is left open.  *)
Accept ==
  /\ pc = "wait" /\ resps # <<>> /\ Head(resps).id = id
  /\ LET r == Head(resps) IN
     \/ r.off < Len(file) /\ Send(file, r.off) /\ UNCHANGED <<pc, why>>
     \/ r.off > Len(file) /\ End("failed", "offset")
     \/ r.off = Len(file) /\ r.match = "no" /\ End("failed", "mismatch")
     \/ r.off = Len(file) /\ r.match = "absent" /\ End("failed", "unverified")
     \/ r.off = Len(file) /\ r.match # "no" /\ End("done", "none")
  /\ resps' = Tail(resps)
  /\ UNCHANGED <<file, clients, deviceVars, lost>>

\* An answer to an earlier request.
Discard ==
  /\ resps # <<>> /\ (pc # "wait" \/ Head(resps).id # id)
  /\ resps' = Tail(resps)
  /\ UNCHANGED <<clientVars, reqs, deviceVars, lost>>

\* No answer in time, or it is late: the same request again.
Retry ==
  /\ pc = "wait" /\ tries < Retries
  /\ tries' = tries + 1 /\ reqs' = Append(reqs, req)
  /\ UNCHANGED <<pc, file, id, req, why, clients, resps, deviceVars, lost>>

\* Mutant: gives up after one attempt more than it makes.
GiveUpLate ==
  /\ pc = "wait" /\ tries > Retries
  /\ End("failed", "timeout")
  /\ UNCHANGED <<file, clients, resps, deviceVars, lost>>

GiveUp ==
  /\ pc = "wait" /\ tries = Retries
  /\ End("failed", "timeout")
  /\ UNCHANGED <<file, clients, resps, deviceVars, lost>>

\* The proxy is killed in the middle; what it sent is still on its way.
Killed ==
  /\ pc = "wait"
  /\ End("idle", "none")
  /\ UNCHANGED <<file, clients, resps, deviceVars, lost>>

LoseRequest ==
  /\ reqs # <<>> /\ lost < MaxLost
  /\ reqs' = Tail(reqs) /\ lost' = lost + 1
  /\ UNCHANGED <<clientVars, resps, deviceVars>>

LoseReply ==
  /\ resps # <<>> /\ lost < MaxLost
  /\ resps' = Tail(resps) /\ lost' = lost + 1
  /\ UNCHANGED <<clientVars, reqs, deviceVars>>

-----------------------------------------------------------------------------
(* The board *)

Answer(r, off, match) == resps' = Append(resps, [id |-> r.id, off |-> off, match |-> match])

\* Mutant: the board answers with the offset the client expects.
OutOfStepTrusts(r) ==
  /\ r.off # 0 /\ r.off # Len(upload.received)
  /\ Answer(r, r.off + Len(r.data), "absent")
  /\ UNCHANGED deviceVars

\* off # 0 and not where the board is: it says where that is.
OutOfStep(r) ==
  /\ r.off # 0 /\ r.off # Len(upload.received)
  /\ Answer(r, Len(upload.received), "absent")
  /\ UNCHANGED deviceVars

\* Mutant: starting over keeps the bytes received so far.
OpenedKeepsBytes(r) ==
  IF r.off = 0 THEN [upload EXCEPT !.declared_sha = r.sha, !.chunks = 0] ELSE upload

(* The upload the chunk is added to.  A chunk at offset 0 starts over,     *)
(* whatever was there; only the memory of a demanded restart stays.        *)
Opened(r) ==
  IF r.off = 0
  THEN [NoUpload EXCEPT !.declared_sha = r.sha, !.restart_demanded = upload.restart_demanded]
  ELSE upload

\* Mutant: a chunk the board has already is taken again.
InStepAgain(r) == r.off <= Len(upload.received)

InStep(r) == r.off = 0 \/ r.off = Len(upload.received)

RestartDue(r) ==
  /\ fault.kind = "RestartUpload" /\ ~upload.restart_demanded
  /\ r.off >= fault.at /\ r.off # 0

DemandRestart(r) ==
  /\ InStep(r) /\ RestartDue(r)
  /\ upload' = [upload EXCEPT !.restart_demanded = TRUE, !.received = <<>>]
  /\ Answer(r, 0, "absent")
  /\ UNCHANGED <<slot1, silent, fault>>

\* Mutant: chunks are written to the slot as they come.
TakeWritesThrough(r) ==
  /\ InStep(r) /\ ~RestartDue(r)
  /\ upload' = [Opened(r) EXCEPT !.received = @ \o r.data, !.chunks = @ + 1]
  /\ slot1' = from_bytes(upload'.received)
  /\ Answer(r, Len(upload'.received),
            IF upload'.declared_sha # upload'.received THEN "absent" ELSE "yes")
  /\ UNCHANGED <<silent, fault>>

\* The rest of upload_chunk: the data is kept, and may complete the image.
Take(r) ==
  /\ InStep(r) /\ ~RestartDue(r)
  /\ upload' = [Opened(r) EXCEPT !.received = @ \o r.data, !.chunks = @ + 1]
  /\ LET size == Len(upload'.received)
         complete == upload'.declared_sha # <<>> /\ size >= Len(upload'.declared_sha)
         matches == fault.kind # "BadHash" /\ upload'.declared_sha = upload'.received
     IN \/ /\ fault.kind = "DisconnectMidUpload" /\ upload'.chunks >= fault.at
           /\ silent' = TRUE /\ UNCHANGED <<slot1, resps>>
        \/ /\ ~(fault.kind = "DisconnectMidUpload" /\ upload'.chunks >= fault.at)
           /\ slot1' = IF complete /\ matches THEN from_bytes(upload'.received) ELSE slot1
           /\ Answer(r, size, IF ~complete THEN "absent" ELSE IF matches THEN "yes" ELSE "no")
           /\ UNCHANGED silent
  /\ UNCHANGED fault

upload_chunk(r) == OutOfStep(r) \/ DemandRestart(r) \/ Take(r)

\* serve and dispatch: the next request, unless the board has gone silent.
Handle ==
  /\ reqs # <<>> /\ reqs' = Tail(reqs)
  /\ \/ silent /\ UNCHANGED <<deviceVars, resps>>
     \/ ~silent /\ upload_chunk(Head(reqs))
  /\ UNCHANGED <<clientVars, lost>>

-----------------------------------------------------------------------------
Next ==
  \/ \E f \in Files : Begin(f)
  \/ Accept \/ Discard \/ Retry \/ GiveUp \/ Killed \/ Handle \/ LoseRequest \/ LoseReply

Spec == Init /\ [][Next]_vars

\* The client's timer runs, and both sides look at what has arrived.
FairSpec == Spec /\ WF_vars(Accept \/ Discard) /\ WF_vars(Retry \/ GiveUp) /\ WF_vars(Handle)

-----------------------------------------------------------------------------
(* Properties *)

(* What the board has kept is the beginning of the file whose length and   *)
(* digest it was given, however chunks were repeated, lost, delayed, left  *)
(* by a killed client, or restarted (the offset test of upload_chunk).     *)
ReceivedIsPrefix ==
  /\ Len(upload.received) <= Len(upload.declared_sha)
  /\ upload.received = SubSeq(upload.declared_sha, 1, Len(upload.received))

(* A transfer reported as successful has left exactly the file in the      *)
(* staging slot, under the digest the deploy goes on to ask for.  The last *)
(* reply may have been lost and its chunk repeated.  (A board that finds   *)
(* every image corrupt is told apart only by that reply.)                  *)
SuccessIsStaged ==
  pc = "done" /\ fault.kind # "BadHash" =>
    slot1 = [hash |-> parse(file), bytes |-> file]

(* Repeated, delayed and restarted chunks never make a transfer look       *)
(* corrupt: it fails of a mismatch, or of an offset outside the file, only *)
(* if the board reports every image as corrupt.                            *)
OnlyBadHashMismatches == why \in {"mismatch", "offset"} => fault.kind = "BadHash"

(* parse finds the digest imgtool put into a file, whichever area it is in *)
(* and whatever follows the areas (as in a merged or padded image), and    *)
(* none in a file that carries none; of a file cut short it finds that     *)
(* digest or none, never something else.                                   *)
ParserFindsDigest ==
  file = Nothing =>
    \A s \in Samples :
      /\ \A t \in Trailers : parse(s.file \o t) = s.digest
      /\ \A n \in 0..Len(s.file) : parse(SubSeq(s.file, 1, n)) \in {s.digest, NoDigest}

(* flash returns: also with a board that falls silent, and one that        *)
(* demands a restart ("we only do it once").                               *)
TransferEnds == pc = "wait" ~> pc # "wait"

(* The chunked transfer implements the transfer in one step that Deploy    *)
(* works with: the slot goes from one whole file to another, and success   *)
(* means the file sent is in it.                                           *)
Abstract == INSTANCE Staging WITH
  Images <- Files, NoImage <- Nothing,
  sending <- file,
  staged <- slot1.bytes,
  told <- pc = "done" /\ fault.kind # "BadHash"

StagesWhole == Abstract!Spec
=============================================================================
