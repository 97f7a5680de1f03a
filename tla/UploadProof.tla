----------------------------- MODULE UploadProof -----------------------------
(***************************************************************************)
(* A transfer stages the file it sent, for any files, chunk sizes, losses  *)
(* and retries; and the parser finds the digest of any signed file.        *)
(***************************************************************************)
EXTENDS Upload, SequenceTheorems, WellFoundedInduction, TLAPS

(* A request carries a piece of one file.  Chunks behind the first are     *)
(* understood by the board as pieces of the file it has been given, so     *)
(* that file must be theirs when they arrive: it is already, and no chunk  *)
(* in front of them starts another.                                        *)
Part(r, f) ==
  /\ r.data # <<>> /\ r.off + Len(r.data) <= Len(f)
  /\ r.data = SubSeq(f, r.off + 1, r.off + Len(r.data))

Source(i, f) ==
  /\ upload.declared_sha = f
  /\ \A k \in 1..i : reqs[k].off = 0 => reqs[k].sha = f

RequestInv ==
  \A i \in 1..Len(reqs) :
    \E f \in Files : /\ Part(reqs[i], f)
                     /\ reqs[i].off = 0 => reqs[i].sha = f
                     /\ reqs[i].off # 0 => Source(i, f)

\* Requests are in the order they were made; those of now are copies of req.
OrderInv ==
  /\ \A i \in 1..Len(reqs) : reqs[i].id <= id
  /\ \A i, j \in 1..Len(reqs) : i <= j => reqs[i].id <= reqs[j].id
  /\ \A j \in 1..Len(resps) : resps[j].id <= id
  /\ pc \in {"wait", "done"} => \A i \in 1..Len(reqs) : reqs[i].id = id => reqs[i] = req

ClientInv ==
  pc \in {"wait", "done"} =>
    /\ file \in Files /\ parse(file) # NoDigest
    /\ req \in Request /\ req.id = id /\ Part(req, file)
    /\ req.off = 0 => req.sha = file
    /\ req.off # 0 => Source(Len(reqs), file)

BoardInv ==
  /\ ReceivedIsPrefix
  /\ (/\ ~silent /\ fault.kind # "BadHash" /\ upload.declared_sha # <<>>
      /\ Len(upload.received) = Len(upload.declared_sha))
     => slot1 = from_bytes(upload.declared_sha)

\* Once the current request has been answered the board works on its file.
Reached == upload.declared_sha = file /\ \A i \in 1..Len(reqs) : reqs[i] = req

ReplyInv ==
  pc = "wait" => \A j \in 1..Len(resps) : resps[j].id = id =>
    /\ Reached /\ resps[j].off <= Len(file)
    /\ fault.kind # "BadHash" =>
         /\ resps[j].match # "no"
         /\ resps[j].off = Len(file) => slot1 = from_bytes(file)

DoneInv ==
  pc = "done" => Reached /\ (fault.kind # "BadHash" => slot1 = from_bytes(file))

Inv == /\ TypeOK /\ RequestInv /\ OrderInv /\ ClientInv /\ BoardInv /\ ReplyInv /\ DoneInv
       /\ OnlyBadHashMismatches

-----------------------------------------------------------------------------
\* The first chunks of a file and the next ones are a longer beginning of it.
LEMMA Extend ==
  ASSUME NEW f \in Seq(Units), NEW m \in Nat, NEW data \in Seq(Units),
         m + Len(data) <= Len(f), data # <<>>, data = SubSeq(f, m + 1, m + Len(data))
  PROVE  /\ SubSeq(f, 1, m) \o data = SubSeq(f, 1, m + Len(data))
         /\ Len(SubSeq(f, 1, m + Len(data))) = m + Len(data)
<1>1. Len(data) \in Nat /\ Len(f) \in Nat
  OBVIOUS
<1>2. SubSeq(f, 1, m) \o SubSeq(f, m + 1, m + Len(data)) = SubSeq(f, 1, m + Len(data))
  <2>1. 1 \in 1..(Len(f) + 1) /\ m \in (1 - 1)..Len(f) /\ m + Len(data) \in m..Len(f)
    BY <1>1
  <2> QED BY <2>1, ConcatAdjacentSubSeq
<1>3. \A i \in 1..(m + Len(data)) : f[i] \in Units
  BY <1>1
<1>4. Len(SubSeq(f, 1, m + Len(data))) = m + Len(data)
  BY <1>1, <1>3, SubSeqProperties
<1> QED BY <1>2, <1>4

\* The request the client makes is a piece of its file.
LEMMA ChunkIsPart ==
  ASSUME NEW f \in Files, NEW i \in Nat, NEW off \in Nat, off < Len(f),
         NEW n \in {Least(c, Len(f) - off) : c \in ChunkSizes}
  PROVE  /\ Chunk(f, i, off, n) \in Request
         /\ Part(Chunk(f, i, off, n), f)
         /\ Chunk(f, i, off, n).id = i /\ Chunk(f, i, off, n).off = off
         /\ off = 0 => Chunk(f, i, off, n).sha = f
<1> DEFINE d == SubSeq(f, off + 1, off + n)
<1>1. f \in Seq(Units) /\ Len(f) \in Nat
  BY UploadAssumption
<1>2. n \in Nat /\ n >= 1 /\ off + n <= Len(f)
  BY <1>1, UploadAssumption DEF Least
<1>3. \A k \in (off + 1)..(off + n) : f[k] \in Units
  BY <1>1, <1>2
<1>4. d \in Seq(Units) /\ Len(d) = n
  BY <1>2, <1>3, SubSeqProperties
<1>5. d # <<>>
  BY <1>4, <1>2
<1> HIDE DEF d
<1>6. Chunk(f, i, off, n) = [id |-> i, off |-> off, sha |-> IF off = 0 THEN f ELSE Nothing,
                             data |-> d]
  BY DEF Chunk, d
<1>7. d = SubSeq(f, off + 1, off + Len(d))
  BY <1>4 DEF d
<1>8. Chunk(f, i, off, n) \in Request
  BY <1>4, <1>6 DEF Request
<1>9. Part(Chunk(f, i, off, n), f)
  <2>1. Chunk(f, i, off, n).off = off /\ Chunk(f, i, off, n).data = d
    BY <1>6
  <2> QED BY <2>1, <1>2, <1>4, <1>5, <1>7 DEF Part
<1> QED BY <1>6, <1>8, <1>9

\* The invariant holds before anything is sent.
LEMMA InitInv == Init => Inv
<1> SUFFICES ASSUME Init PROVE Inv
  OBVIOUS
<1> USE DEF Init
<1>1. upload = [declared_sha |-> <<>>, received |-> <<>>, chunks |-> 0, restart_demanded |-> FALSE]
  BY DEF NoUpload
<1>2. SubSeq(<<>>, 1, 0) = <<>>
  BY SubSeqEmpty
<1>3. TypeOK
  <2>1. upload \in [declared_sha : Files \cup {<<>>}, received : Seq(Units), chunks : Nat,
                   restart_demanded : BOOLEAN]
    BY <1>1
  <2>2. reqs \in Seq(Request) /\ resps \in Seq(Reply)
    OBVIOUS
  <2>3. tries \in 0..Retries /\ lost \in 0..MaxLost /\ clients \in 0..MaxClients /\ id \in Nat
    BY UploadAssumption
  <2> QED BY <2>1, <2>2, <2>3 DEF TypeOK
<1>4. BoardInv
  BY <1>1, <1>2 DEF BoardInv, ReceivedIsPrefix
<1>5. RequestInv /\ OrderInv /\ ClientInv /\ ReplyInv /\ DoneInv /\ OnlyBadHashMismatches
  BY DEF RequestInv, OrderInv, ClientInv, ReplyInv, DoneInv, OnlyBadHashMismatches
<1> QED BY <1>3, <1>4, <1>5 DEF Inv

-----------------------------------------------------------------------------
(* A request is appended: those in the queue stay as they are.             *)
LEMMA Appended ==
  ASSUME TypeOK, NEW r \in Request, reqs' = Append(reqs, r)
  PROVE  /\ reqs' \in Seq(Request) /\ Len(reqs) \in Nat /\ Len(reqs') = Len(reqs) + 1
         /\ \A i \in 1..Len(reqs) : reqs'[i] = reqs[i]
         /\ reqs'[Len(reqs) + 1] = r
<1>1. reqs \in Seq(Request)
  BY DEF TypeOK
<1> QED BY <1>1, AppendProperties

\* What a new request needs to keep the queue in order.
LEMMA Queued ==
  ASSUME Inv, NEW r \in Request, reqs' = Append(reqs, r), NEW f \in Files,
         Part(r, f), r.off = 0 => r.sha = f, r.off # 0 => Source(Len(reqs), f),
         r.id = id', id' \in Nat, id' >= id, UNCHANGED upload,
         \A j \in 1..Len(resps') : resps'[j].id <= id',
         pc' \in {"wait", "done"} => \A i \in 1..Len(reqs) : reqs[i].id = id' => reqs[i] = req',
         r = req'
  PROVE  RequestInv' /\ OrderInv'
<1> USE DEF Inv
<1>1. TypeOK /\ id \in Nat
  BY DEF TypeOK
<1>2. /\ reqs' \in Seq(Request) /\ Len(reqs) \in Nat /\ Len(reqs') = Len(reqs) + 1
      /\ \A i \in 1..Len(reqs) : reqs'[i] = reqs[i]
      /\ reqs'[Len(reqs) + 1] = r
  BY <1>1, Appended
<1>3. ASSUME NEW i \in 1..Len(reqs'), i # Len(reqs')
      PROVE  \E g \in Files : /\ Part(reqs'[i], g)
                              /\ reqs'[i].off = 0 => reqs'[i].sha = g
                              /\ reqs'[i].off # 0 => Source(i, g)'
  <2>1. i \in 1..Len(reqs) /\ \A k \in 1..i : reqs'[k] = reqs[k]
    BY <1>2, <1>3
  <2>2. PICK g \in Files : /\ Part(reqs[i], g)
                           /\ reqs[i].off = 0 => reqs[i].sha = g
                           /\ reqs[i].off # 0 => Source(i, g)
    BY <2>1 DEF RequestInv
  <2>3. Source(i, g) => Source(i, g)'
    BY <2>1 DEF Source
  <2> QED BY <2>1, <2>2, <2>3
<1>4. /\ Part(reqs'[Len(reqs')], f)
      /\ reqs'[Len(reqs')].off = 0 => reqs'[Len(reqs')].sha = f
      /\ reqs'[Len(reqs')].off # 0 => Source(Len(reqs), f)'
  <2>1. r.off # 0 => \A k \in 1..Len(reqs') : reqs'[k].off = 0 => reqs'[k].sha = f
    BY <1>2 DEF Source
  <2>2. r.off # 0 => Source(Len(reqs), f)'
    BY <2>1 DEF Source
  <2> QED BY <2>2, <1>2
<1>5. RequestInv'
  <2>1. ASSUME NEW i \in 1..Len(reqs')
        PROVE  \E g \in Files : /\ Part(reqs'[i], g)
                                /\ reqs'[i].off = 0 => reqs'[i].sha = g
                                /\ reqs'[i].off # 0 => Source(i, g)'
    <3>1. CASE i # Len(reqs')
      BY <3>1, <1>3
    <3>2. CASE i = Len(reqs')
      BY <3>2, <1>4 DEF Source
    <3> QED BY <3>1, <3>2
  <2> QED BY <2>1 DEF RequestInv, Part
<1>6. OrderInv'
  <2>1. \A i \in 1..Len(reqs) : reqs[i] \in Request /\ reqs[i].id \in Nat /\ reqs[i].id <= id
    <3>1. reqs \in Seq(Request)
      BY <1>1 DEF TypeOK
    <3>2. \A i \in 1..Len(reqs) : reqs[i] \in Request
      BY <3>1
    <3> QED BY <3>2 DEF OrderInv, Request
  <2>2. \A i \in 1..Len(reqs') : reqs'[i].id <= id'
    BY <2>1, <1>1, <1>2
  <2>3. \A i, j \in 1..Len(reqs') : i <= j => reqs'[i].id <= reqs'[j].id
    BY <2>1, <1>1, <1>2 DEF OrderInv
  <2>5. pc' \in {"wait", "done"} => \A i \in 1..Len(reqs') : reqs'[i].id = id' => reqs'[i] = req'
    BY <1>2
  <2> QED BY <2>2, <2>3, <2>5 DEF OrderInv
<1> QED BY <1>5, <1>6

\* Replies have the number of a request made already.
LEMMA ReplyIds ==
  ASSUME Inv
  PROVE  \A j \in 1..Len(resps) : resps[j] \in Reply /\ resps[j].id \in Nat /\ resps[j].id <= id
<1>1. resps \in Seq(Reply)
  BY DEF Inv, TypeOK
<1>2. \A j \in 1..Len(resps) : resps[j] \in Reply
  BY <1>1
<1> QED BY <1>2 DEF Inv, OrderInv, Reply

\* Requests have the number of the last one made or an earlier one.
LEMMA RequestIds ==
  ASSUME Inv
  PROVE  id \in Nat /\ \A i \in 1..Len(reqs) : reqs[i] \in Request /\ reqs[i].id \in Nat /\ reqs[i].id <= id
<1>1. reqs \in Seq(Request) /\ id \in Nat
  BY DEF Inv, TypeOK
<1>2. \A i \in 1..Len(reqs) : reqs[i] \in Request
  BY <1>1
<1> QED BY <1>1, <1>2 DEF Inv, OrderInv, Request

\* The oldest reply is taken: the others were there before.
LEMMA ReplyTaken ==
  ASSUME TypeOK, resps # <<>>, resps' = Tail(resps)
  PROVE  /\ resps' \in Seq(Reply) /\ Head(resps) = resps[1] /\ 1 \in 1..Len(resps)
         /\ \A j \in 1..Len(resps') : j + 1 \in 1..Len(resps) /\ resps'[j] = resps[j + 1]
<1>1. resps \in Seq(Reply)
  BY DEF TypeOK
<1> QED BY <1>1, HeadTailProperties

\* The oldest request is taken, or lost.
LEMMA RequestTaken ==
  ASSUME TypeOK, reqs # <<>>, reqs' = Tail(reqs)
  PROVE  /\ reqs' \in Seq(Request) /\ Head(reqs) = reqs[1] /\ 1 \in 1..Len(reqs)
         /\ Head(reqs) \in Request /\ Len(reqs) \in Nat /\ Len(reqs') = Len(reqs) - 1
         /\ \A i \in 1..Len(reqs') : i + 1 \in 1..Len(reqs) /\ reqs'[i] = reqs[i + 1]
<1>1. reqs \in Seq(Request)
  BY DEF TypeOK
<1> QED BY <1>1, HeadTailProperties

-----------------------------------------------------------------------------
(* Steps of the client.                                                    *)
LEMMA BeginStep ==
  ASSUME Inv, NEW f \in Files, Begin(f)
  PROVE  Inv'
<1> USE UploadAssumption DEF Inv
<1>0. UNCHANGED <<upload, slot1, silent, fault, resps, lost>> /\ file' = f /\ clients' \in 0..MaxClients
  BY DEF Begin, deviceVars, TypeOK
<1>1. CASE pc' = "failed" /\ why' = "unsigned" /\ UNCHANGED <<id, req, tries, reqs>>
  <2>1. TypeOK'
    BY <1>0, <1>1 DEF TypeOK
  <2>2. (ClientInv /\ ReplyInv /\ DoneInv /\ OnlyBadHashMismatches)'
    BY <1>0, <1>1 DEF ClientInv, ReplyInv, DoneInv, OnlyBadHashMismatches
  <2>4. RequestInv'
    BY <1>0, <1>1 DEF RequestInv, Source, Part
  <2>5. OrderInv'
    BY <1>0, <1>1 DEF OrderInv
  <2>3. BoardInv'
    BY <1>0, <1>1 DEF BoardInv, ReceivedIsPrefix
  <2> QED BY <2>1, <2>2, <2>3, <2>4, <2>5
<1>2. CASE parse(f) # NoDigest /\ pc' = "wait" /\ why' = "none" /\ Send(f, 0)
  <2>1. PICK n \in {Least(c, Len(f) - 0) : c \in ChunkSizes} :
          /\ id' = id + 1 /\ req' = Chunk(f, id', 0, n) /\ reqs' = Append(reqs, req') /\ tries' = 0
    BY <1>2 DEF Send
  <2>2. id \in Nat /\ id' \in Nat /\ reqs \in Seq(Request) /\ resps \in Seq(Reply) /\ 0 < Len(f)
    BY <2>1 DEF TypeOK
  <2>3. req' \in Request /\ Part(req', f) /\ req'.id = id' /\ req'.off = 0 /\ req'.sha = f
    BY <2>1, <2>2, ChunkIsPart
  <2>4. TypeOK'
    BY <1>0, <1>2, <2>1, <2>2, <2>3 DEF TypeOK
  <2>5. \A i \in 1..Len(reqs) : reqs[i].id # id'
    BY <2>1, RequestIds
  <2>10. \A j \in 1..Len(resps) : resps[j].id \in Nat /\ resps[j].id <= id
    BY ReplyIds
  <2>11. id \in Nat /\ id' = id + 1
    BY <2>1, <2>2
  <2>6. RequestInv' /\ OrderInv'
    <3>1. \A j \in 1..Len(resps) : resps[j].id <= id'
      BY ONLY <2>10, <2>11
    <3>2. \A j \in 1..Len(resps') : resps'[j].id <= id'
      BY <1>0, <3>1
    <3>3. reqs' = Append(reqs, req') /\ id' >= id /\ UNCHANGED upload
      BY <1>0, <2>1, <2>11
    <3>4. req'.off # 0 => Source(Len(reqs), f)
      BY <2>3
    <3>5. \A i \in 1..Len(reqs) : reqs[i].id = id' => reqs[i] = req'
      BY <2>5
    <3> HIDE DEF Inv
    <3> QED BY <2>2, <2>3, <3>2, <3>3, <3>4, <3>5, Queued
  <2>7. (ClientInv /\ DoneInv /\ OnlyBadHashMismatches)'
    BY <1>0, <1>2, <2>3, <2>2 DEF ClientInv, DoneInv, OnlyBadHashMismatches, Part
  <2>8. ReplyInv'
    <3>1. \A j \in 1..Len(resps) : resps[j].id # id'
      BY ONLY <2>10, <2>11
    <3> QED BY <1>0, <3>1 DEF ReplyInv
  <2>9. BoardInv'
    BY <1>0 DEF BoardInv, ReceivedIsPrefix
  <2> QED BY <2>4, <2>6, <2>7, <2>8, <2>9
<1> QED BY <1>1, <1>2 DEF Begin

\* Requests that stay on the link, to a board whose upload stays as it is.
LEMMA RequestsStay ==
  ASSUME RequestInv, reqs' = reqs, upload' = upload
  PROVE  RequestInv'
<1>1. ASSUME NEW i \in 1..Len(reqs), NEW f \in Files, Source(i, f)
      PROVE  Source(i, f)'
  BY <1>1 DEF Source
<1>2. SUFFICES ASSUME NEW i \in 1..Len(reqs)
               PROVE  \E f \in Files : /\ Part(reqs[i], f)
                                       /\ reqs[i].off = 0 => reqs[i].sha = f
                                       /\ reqs[i].off # 0 => Source(i, f)'
  BY DEF RequestInv, Part
<1>3. PICK f \in Files : /\ Part(reqs[i], f)
                         /\ reqs[i].off = 0 => reqs[i].sha = f
                         /\ reqs[i].off # 0 => Source(i, f)
  BY DEF RequestInv
<1> QED BY <1>1, <1>3

\* What a step that only ends the client's wait, or lets a reply go, keeps.
LEMMA QuietStep ==
  ASSUME Inv, UNCHANGED <<reqs, deviceVars, id, req, file>>,
         \A j \in 1..Len(resps') : resps'[j].id <= id,
         pc' = pc \/ pc = "wait"
  PROVE  /\ RequestInv' /\ BoardInv' /\ OrderInv'
         /\ ClientInv'
<1> USE DEF Inv, deviceVars
<1>1. RequestInv'
  BY RequestsStay
<1>2. BoardInv'
  BY DEF BoardInv, ReceivedIsPrefix
<1>3. OrderInv'
  BY DEF OrderInv
<1>4. ClientInv'
  BY DEF ClientInv, Part, Source
<1> QED BY <1>1, <1>2, <1>3, <1>4

\* A reply is lost, or is none to the current request.
LEMMA ReplyGoneStep ==
  ASSUME Inv, Discard \/ LoseReply
  PROVE  Inv'
<1> USE DEF Inv
<1>1. /\ UNCHANGED <<clientVars, reqs, deviceVars>> /\ resps # <<>> /\ resps' = Tail(resps)
      /\ lost' \in 0..MaxLost
  BY UploadAssumption DEF Discard, LoseReply, TypeOK
<1>2. /\ resps' \in Seq(Reply)
      /\ \A j \in 1..Len(resps') : j + 1 \in 1..Len(resps) /\ resps'[j] = resps[j + 1]
  BY <1>1, ReplyTaken
<1>3. TypeOK'
  BY <1>1, <1>2 DEF TypeOK, clientVars, deviceVars
<1>4. RequestInv' /\ BoardInv' /\ OrderInv' /\ ClientInv'
  <2>1. \A j \in 1..Len(resps') : resps'[j].id <= id
    BY <1>2, ReplyIds
  <2> QED BY <1>1, <2>1, QuietStep DEF clientVars
<1>5. ReplyInv'
  BY <1>1, <1>2 DEF ReplyInv, Reached, clientVars, deviceVars
<1>6. DoneInv' /\ OnlyBadHashMismatches'
  BY <1>1 DEF DoneInv, Reached, OnlyBadHashMismatches, clientVars, deviceVars
<1> QED BY <1>3, <1>4, <1>5, <1>6

LEMMA RetryStep ==
  ASSUME Inv, Retry
  PROVE  Inv'
<1> USE DEF Inv
<1>1. /\ pc = "wait" /\ reqs' = Append(reqs, req) /\ tries' \in 0..Retries
      /\ UNCHANGED <<pc, file, id, req, why, clients, resps, deviceVars, lost>>
  BY UploadAssumption DEF Retry, TypeOK
<1>2. /\ file \in Files /\ parse(file) # NoDigest /\ req \in Request /\ req.id = id
      /\ Part(req, file) /\ (req.off = 0 => req.sha = file) /\ id \in Nat
      /\ req.off # 0 => Source(Len(reqs), file)
  BY <1>1 DEF ClientInv, TypeOK
<1>3. /\ reqs' \in Seq(Request) /\ Len(reqs) \in Nat /\ Len(reqs') = Len(reqs) + 1
      /\ \A i \in 1..Len(reqs) : reqs'[i] = reqs[i]
      /\ reqs'[Len(reqs) + 1] = req
  BY <1>1, <1>2, Appended
<1>4. TypeOK'
  BY <1>1, <1>3 DEF TypeOK, deviceVars
<1>5. RequestInv' /\ OrderInv'
  <2>1. \A j \in 1..Len(resps') : resps'[j].id <= id'
    BY <1>1, ReplyIds
  <2>2. \A i \in 1..Len(reqs) : reqs[i].id = id' => reqs[i] = req'
    BY <1>1 DEF OrderInv
  <2> QED BY <1>1, <1>2, <2>1, <2>2, Queued DEF deviceVars
<1>6. ClientInv'
  <2>1. req.off # 0 => Source(Len(reqs), file)'
    BY <1>1, <1>2, <1>3 DEF Source, deviceVars
  <2> QED BY <1>1, <1>2, <2>1 DEF ClientInv, Part
<1>7. ReplyInv'
  <2>1. Reached => Reached'
    BY <1>1, <1>3 DEF Reached, deviceVars
  <2> QED BY <1>1, <2>1 DEF ReplyInv, deviceVars
<1>8. BoardInv' /\ DoneInv' /\ OnlyBadHashMismatches'
  BY <1>1 DEF BoardInv, ReceivedIsPrefix, DoneInv, OnlyBadHashMismatches, deviceVars
<1> QED BY <1>4, <1>5, <1>6, <1>7, <1>8

LEMMA LeaveStep ==
  ASSUME Inv, GiveUp \/ Killed
  PROVE  Inv'
<1> USE DEF Inv
<1>1. /\ pc = "wait" /\ pc' \in {"failed", "idle"} /\ why' \in {"timeout", "none"}
      /\ UNCHANGED <<id, req, tries, reqs, file, clients, resps, deviceVars, lost>>
  BY DEF GiveUp, Killed, End
<1>2. TypeOK'
  BY <1>1 DEF TypeOK, deviceVars
<1>3. RequestInv' /\ BoardInv' /\ OrderInv' /\ ClientInv'
  BY <1>1, ReplyIds, QuietStep
<1>4. ReplyInv' /\ DoneInv' /\ OnlyBadHashMismatches'
  BY <1>1 DEF ReplyInv, DoneInv, OnlyBadHashMismatches
<1> QED BY <1>2, <1>3, <1>4

LEMMA AcceptStep ==
  ASSUME Inv, Accept
  PROVE  Inv'
<1> USE DEF Inv
<1> DEFINE r == Head(resps)
<1>1. /\ pc = "wait" /\ resps # <<>> /\ r.id = id /\ resps' = Tail(resps)
      /\ UNCHANGED <<file, clients, deviceVars, lost>>
  BY DEF Accept
<1>2. /\ resps' \in Seq(Reply) /\ r = resps[1] /\ 1 \in 1..Len(resps)
      /\ \A j \in 1..Len(resps') : j + 1 \in 1..Len(resps) /\ resps'[j] = resps[j + 1]
  BY <1>1, ReplyTaken
<1>3. /\ Reached /\ r.off <= Len(file)
      /\ fault.kind # "BadHash" =>
           /\ r.match # "no"
           /\ r.off = Len(file) => slot1 = from_bytes(file)
  BY <1>1, <1>2 DEF ReplyInv
<1>4. r \in Reply /\ r.off \in Nat /\ file \in Files /\ parse(file) # NoDigest /\ Len(file) \in Nat
  <2>1. r \in Reply /\ file \in Files /\ parse(file) # NoDigest
    BY <1>1, <1>2, ReplyIds DEF ClientInv
  <2> QED BY <2>1, UploadAssumption DEF Reply
<1>5. \A j \in 1..Len(resps') : resps'[j].id \in Nat /\ resps'[j].id <= id
  BY <1>2, ReplyIds
<1> HIDE DEF r
<1>6. CASE r.off < Len(file) /\ Send(file, r.off) /\ UNCHANGED <<pc, why>>
  <2>1. PICK n \in {Least(c, Len(file) - r.off) : c \in ChunkSizes} :
          /\ id' = id + 1 /\ req' = Chunk(file, id', r.off, n)
          /\ reqs' = Append(reqs, req') /\ tries' = 0
    BY <1>6 DEF Send
  <2>2. id \in Nat /\ id' \in Nat
    BY <2>1 DEF TypeOK
  <2>3. /\ req' \in Request /\ Part(req', file) /\ req'.id = id' /\ req'.off = r.off
        /\ r.off = 0 => req'.sha = file
    BY <1>4, <1>6, <2>1, <2>2, ChunkIsPart
  <2>4. Source(Len(reqs), file)
    BY <1>1, <1>3 DEF Source, Reached, ClientInv
  <2>5. /\ reqs' \in Seq(Request) /\ Len(reqs) \in Nat /\ Len(reqs') = Len(reqs) + 1
        /\ \A i \in 1..Len(reqs) : reqs'[i] = reqs[i]
        /\ reqs'[Len(reqs) + 1] = req'
    BY <2>1, <2>3, Appended
  <2>6. TypeOK'
    <3>1. tries' \in 0..Retries
      BY <2>1, UploadAssumption
    <3> QED BY <1>1, <1>2, <1>4, <1>6, <2>2, <2>3, <2>5, <3>1 DEF TypeOK, deviceVars
  <2>7. RequestInv' /\ OrderInv'
    <3>1. \A j \in 1..Len(resps') : resps'[j].id <= id'
      BY <1>5, <2>1, <2>2
    <3>2. \A i \in 1..Len(reqs) : reqs[i].id # id'
      BY <2>1, RequestIds
    <3>3. UNCHANGED upload
      BY <1>1 DEF deviceVars
    <3>4. id' >= id
      BY <2>1, <2>2
    <3> QED BY <1>4, <2>1, <2>2, <2>3, <2>4, <3>1, <3>2, <3>3, <3>4, Queued
  <2>8. ClientInv'
    <3>1. r.off # 0 => Source(Len(reqs), file)'
      BY <1>1, <2>3, <2>4, <2>5 DEF Source, deviceVars
    <3> QED BY <1>1, <1>4, <2>3, <3>1 DEF ClientInv, Part
  <2>9. ReplyInv' /\ DoneInv'
    <3>1. \A j \in 1..Len(resps') : resps'[j].id # id'
      BY <1>5, <2>1, <2>2
    <3> QED BY <1>1, <1>6, <3>1 DEF ReplyInv, DoneInv
  <2>10. BoardInv' /\ OnlyBadHashMismatches'
    BY <1>1, <1>6 DEF BoardInv, ReceivedIsPrefix, OnlyBadHashMismatches, deviceVars
  <2> QED BY <2>6, <2>7, <2>8, <2>9, <2>10
<1>7. ASSUME NEW result, NEW reason, End(result, reason),
             \/ result = "failed" /\ reason = "unverified"
             \/ result = "failed" /\ reason = "mismatch" /\ r.match = "no"
             \/ result = "done" /\ reason = "none" /\ r.off = Len(file)
      PROVE  Inv'
  <2>1. UNCHANGED <<id, req, tries, reqs>> /\ pc' = result /\ why' = reason
    BY <1>7 DEF End
  <2>2. TypeOK'
    BY <1>1, <1>2, <1>4, <1>7, <2>1 DEF TypeOK, deviceVars
  <2>3. RequestInv' /\ BoardInv' /\ OrderInv' /\ ClientInv'
    BY <1>1, <1>5, <2>1, QuietStep
  <2>4. ReplyInv'
    BY <1>7, <2>1 DEF ReplyInv
  <2>5. DoneInv'
    BY <1>1, <1>3, <1>7, <2>1 DEF DoneInv, Reached, deviceVars
  <2>6. OnlyBadHashMismatches'
    BY <1>1, <1>3, <1>7, <2>1 DEF OnlyBadHashMismatches, deviceVars
  <2> QED BY <2>2, <2>3, <2>4, <2>5, <2>6
<1>8. ~(r.off > Len(file))
  BY <1>3, <1>4
<1> QED BY <1>6, <1>7, <1>8 DEF Accept, r

-----------------------------------------------------------------------------
(* Steps of the board, and requests that get lost.                         *)

\* What taking the oldest request off the queue keeps.
LEMMA RequestGone ==
  ASSUME Inv, reqs # <<>>, reqs' = Tail(reqs), UNCHANGED clientVars,
         \/ upload'.declared_sha = upload.declared_sha
         \/ Head(reqs).off = 0 /\ upload'.declared_sha = Head(reqs).sha
  PROVE  /\ RequestInv' /\ ClientInv'
         /\ (\A j \in 1..Len(resps') : resps'[j].id <= id) => OrderInv'
         /\ pc \in {"wait", "done"} /\ Reached => Reached'
<1> USE DEF Inv, clientVars
<1>1. /\ reqs' \in Seq(Request) /\ Head(reqs) = reqs[1] /\ 1 \in 1..Len(reqs)
      /\ Len(reqs) \in Nat /\ Len(reqs') = Len(reqs) - 1
      /\ \A i \in 1..Len(reqs') : i + 1 \in 1..Len(reqs) /\ reqs'[i] = reqs[i + 1]
  BY RequestTaken
<1>2. ASSUME NEW n \in 1..Len(reqs), NEW m \in Nat, m + 1 = n, NEW g, Source(n, g)
      PROVE  Source(m, g)'
  <2>1. upload.declared_sha = g /\ (reqs[1].off = 0 => reqs[1].sha = g)
    BY <1>2 DEF Source
  <2>2. upload'.declared_sha = g
    BY <1>1, <2>1
  <2>3. \A k \in 1..m : k \in 1..Len(reqs') /\ k + 1 \in 1..n
    BY <1>1, <1>2
  <2> QED BY <1>1, <1>2, <2>2, <2>3 DEF Source
<1>3. RequestInv'
  <2>1. ASSUME NEW i \in 1..Len(reqs')
        PROVE  \E g \in Files : /\ Part(reqs'[i], g)
                                /\ reqs'[i].off = 0 => reqs'[i].sha = g
                                /\ reqs'[i].off # 0 => Source(i, g)'
    <3>1. i \in Nat /\ i + 1 \in 1..Len(reqs) /\ reqs'[i] = reqs[i + 1]
      BY <1>1
    <3>2. PICK g \in Files : /\ Part(reqs[i + 1], g)
                             /\ reqs[i + 1].off = 0 => reqs[i + 1].sha = g
                             /\ reqs[i + 1].off # 0 => Source(i + 1, g)
      BY <3>1 DEF RequestInv
    <3>3. Source(i + 1, g) => Source(i, g)'
      BY <3>1, <1>2
    <3> QED BY <3>1, <3>2, <3>3
  <2> QED BY <2>1 DEF RequestInv, Part
<1>4. ClientInv'
  <2>1. Source(Len(reqs), file) => Source(Len(reqs), file)'
    <3>3. ASSUME Source(Len(reqs), file), NEW k \in 1..Len(reqs'), reqs'[k].off = 0
          PROVE  reqs'[k].sha = file
      BY <3>3, <1>1 DEF Source
    <3>4. Source(Len(reqs), file) => upload'.declared_sha = file
      BY <1>1 DEF Source
    <3> QED BY <3>3, <3>4 DEF Source
  <2> QED BY <2>1 DEF ClientInv, Part
<1>5. (\A j \in 1..Len(resps') : resps'[j].id <= id) => OrderInv'
  BY <1>1 DEF OrderInv
<1>6. pc \in {"wait", "done"} /\ Reached => Reached'
  <2>1. pc \in {"wait", "done"} /\ Reached => reqs[1] = req /\ (req.off = 0 => req.sha = file)
    BY <1>1 DEF Reached, ClientInv
  <2> QED BY <1>1, <2>1 DEF Reached
<1> QED BY <1>3, <1>4, <1>5, <1>6

\* A board that is silent reads requests and does nothing; others get lost.
LEMMA UnansweredStep ==
  ASSUME Inv, reqs # <<>>, reqs' = Tail(reqs), lost' \in 0..MaxLost,
         UNCHANGED <<clientVars, deviceVars, resps>>
  PROVE  Inv'
<1> USE DEF Inv, clientVars, deviceVars
<1>1. RequestInv' /\ ClientInv' /\ OrderInv' /\ (pc \in {"wait", "done"} /\ Reached => Reached')
  BY ReplyIds, RequestGone
<1>2. TypeOK'
  <2>1. reqs' \in Seq(Request)
    BY RequestTaken
  <2> QED BY <2>1 DEF TypeOK
<1>3. BoardInv' /\ OnlyBadHashMismatches'
  BY DEF BoardInv, ReceivedIsPrefix, OnlyBadHashMismatches
<1>4. ReplyInv' /\ DoneInv'
  BY <1>1 DEF ReplyInv, DoneInv
<1> QED BY <1>1, <1>2, <1>3, <1>4

\* Where the board takes the file of a request from.
FromFile(r, f) == (r.off = 0 => r.sha = f) /\ (r.off # 0 => upload.declared_sha = f)

\* What the oldest request is part of, and what it means to the client.
LEMMA HeadPart ==
  ASSUME Inv, reqs # <<>>, NEW r, r = Head(reqs)
  PROVE  /\ r \in Request
         /\ \E g \in Files : Part(r, g) /\ FromFile(r, g)
         /\ pc \in {"wait", "done"} /\ r.id = id => \A i \in 1..Len(reqs) : reqs[i] = req
         /\ pc \in {"wait", "done"} /\ r = req => FromFile(r, file)
<1> USE DEF Inv
<1>1. r = reqs[1] /\ 1 \in 1..Len(reqs) /\ Len(reqs) \in Nat
  BY DEF TypeOK
<1>2. r \in Request
  BY <1>1, RequestIds
<1>3. \E g \in Files : Part(r, g) /\ FromFile(r, g)
  BY <1>1 DEF RequestInv, Source, FromFile
<1>4. pc \in {"wait", "done"} /\ r.id = id => \A i \in 1..Len(reqs) : reqs[i] = req
  <2>1. ASSUME NEW i \in 1..Len(reqs), r.id = id
        PROVE  reqs[i].id = id
    <3>1. reqs[1].id <= reqs[i].id
      BY <1>1 DEF OrderInv
    <3> QED BY <1>1, <2>1, <3>1, RequestIds
  <2> QED BY <2>1 DEF OrderInv
<1>5. pc \in {"wait", "done"} /\ r = req => FromFile(r, file)
  BY DEF ClientInv, Source, FromFile
<1> QED BY <1>2, <1>3, <1>4, <1>5

\* Taking a chunk makes the board's beginning of the file longer.
LEMMA TakeBoard ==
  ASSUME Inv, ~silent, NEW r \in Request, Take(r), NEW g \in Files, Part(r, g), FromFile(r, g)
  PROVE  LET size == r.off + Len(r.data) IN
         /\ upload'.declared_sha = g /\ size \in Nat /\ size <= Len(g)
         /\ upload'.received = SubSeq(g, 1, size) /\ Len(upload'.received) = size
         /\ upload' \in [declared_sha : Files \cup {<<>>}, received : Seq(Units), chunks : Nat,
                          restart_demanded : BOOLEAN]
         /\ fault' = fault
         /\ \/ silent' = TRUE /\ slot1' = slot1 /\ resps' = resps
            \/ /\ silent' = FALSE
               /\ slot1' = IF size = Len(g) /\ fault.kind # "BadHash" THEN from_bytes(g) ELSE slot1
               /\ \E m \in {"yes", "no", "absent"} :
                    /\ resps' = Append(resps, [id |-> r.id, off |-> size, match |-> m])
                    /\ fault.kind # "BadHash" => m # "no"
<1> DEFINE size == r.off + Len(r.data)
<1> USE DEF Inv
<1>1. /\ r.off \in Nat /\ r.data \in Seq(Units) /\ Len(r.data) \in Nat
      /\ g \in Seq(Units) /\ Len(g) \in Nat /\ g # <<>> /\ Len(g) # 0
  BY UploadAssumption DEF Request
<1>2. size \in Nat /\ size <= Len(g) /\ r.data # <<>>
      /\ r.data = SubSeq(g, r.off + 1, r.off + Len(r.data))
  BY <1>1 DEF Part
<1>3. upload \in [declared_sha : Files \cup {<<>>}, received : Seq(Units), chunks : Nat,
                  restart_demanded : BOOLEAN]
  BY DEF TypeOK
<1>4. Opened(r) = [declared_sha |-> g, received |-> SubSeq(g, 1, r.off),
                   chunks |-> IF r.off = 0 THEN 0 ELSE upload.chunks,
                   restart_demanded |-> upload.restart_demanded]
  <2>1. CASE r.off = 0
    <3>1. SubSeq(g, 1, 0) = <<>>
      BY SubSeqEmpty
    <3> QED BY <2>1, <3>1 DEF Opened, NoUpload, FromFile
  <2>2. CASE r.off # 0
    <3>1. r.off = Len(upload.received) /\ upload.declared_sha = g
      BY <2>2 DEF Take, InStep, FromFile
    <3>2. upload.received = SubSeq(g, 1, r.off)
      BY <3>1 DEF BoardInv, ReceivedIsPrefix
    <3> QED BY <2>2, <3>1, <3>2, <1>3 DEF Opened
  <2> QED BY <2>1, <2>2
<1>5. /\ SubSeq(g, 1, r.off) \o r.data = SubSeq(g, 1, size)
      /\ Len(SubSeq(g, 1, size)) = size
  BY <1>1, <1>2, Extend
<1>6. SubSeq(g, 1, size) \in Seq(Units)
  <2>1. \A i \in 1..size : g[i] \in Units
    BY <1>1, <1>2
  <2> QED BY <1>2, <2>1, SubSeqProperties
<1>7. /\ upload'.declared_sha = g /\ upload'.received = SubSeq(g, 1, size)
      /\ upload' \in [declared_sha : Files \cup {<<>>}, received : Seq(Units), chunks : Nat,
                       restart_demanded : BOOLEAN]
  <2>1. upload' = [Opened(r) EXCEPT !.received = @ \o r.data, !.chunks = @ + 1]
    BY DEF Take
  <2>2. upload' = [[declared_sha |-> g, received |-> SubSeq(g, 1, r.off),
                    chunks |-> IF r.off = 0 THEN 0 ELSE upload.chunks,
                    restart_demanded |-> upload.restart_demanded]
                   EXCEPT !.received = @ \o r.data, !.chunks = @ + 1]
    BY <2>1, <1>4, Zenon
  <2>3. upload' = [declared_sha |-> g, received |-> SubSeq(g, 1, r.off) \o r.data,
                   chunks |-> (IF r.off = 0 THEN 0 ELSE upload.chunks) + 1,
                   restart_demanded |-> upload.restart_demanded]
    BY <2>2
  <2>4. upload' = [declared_sha |-> g, received |-> SubSeq(g, 1, size),
                   chunks |-> (IF r.off = 0 THEN 0 ELSE upload.chunks) + 1,
                   restart_demanded |-> upload.restart_demanded]
    BY <2>3, <1>5
  <2> HIDE DEF size
  <2> QED BY <2>4, <1>3, <1>6
<1>8. Len(upload'.received) = size
  BY <1>5, <1>7
<1>9. SubSeq(g, 1, Len(g)) = g
  BY <1>1, SubSeqFull
<1>10. /\ (upload'.declared_sha # <<>> /\ size >= Len(upload'.declared_sha)) <=> size = Len(g)
       /\ size = Len(g) => upload'.declared_sha = upload'.received
  BY <1>1, <1>2, <1>7, <1>9
<1>11. fault' = fault
  BY DEF Take
<1> DEFINE complete == upload'.declared_sha # <<>> /\ size >= Len(upload'.declared_sha)
           matches == fault.kind # "BadHash" /\ upload'.declared_sha = upload'.received
           m == IF ~complete THEN "absent" ELSE IF matches THEN "yes" ELSE "no"
<1>12. \/ silent' = TRUE /\ slot1' = slot1 /\ resps' = resps
       \/ /\ slot1' = IF complete /\ matches THEN from_bytes(upload'.received) ELSE slot1
          /\ resps' = Append(resps, [id |-> r.id, off |-> size, match |-> m])
          /\ silent' = silent
  BY <1>8 DEF Take, Answer
<1>13. /\ complete <=> size = Len(g)
       /\ complete => upload'.declared_sha = upload'.received /\ upload'.received = g
  BY <1>7, <1>9, <1>10
<1> HIDE DEF complete, size
<1>14. /\ (complete /\ matches) <=> (size = Len(g) /\ fault.kind # "BadHash")
       /\ fault.kind # "BadHash" => m # "no"
       /\ m \in {"yes", "no", "absent"}
  BY <1>13
<1>15. (IF complete /\ matches THEN from_bytes(upload'.received) ELSE slot1)
        = (IF size = Len(g) /\ fault.kind # "BadHash" THEN from_bytes(g) ELSE slot1)
  BY <1>13, <1>14
<1> HIDE DEF m, matches
<1> QED BY <1>2, <1>7, <1>8, <1>11, <1>12, <1>14, <1>15 DEF size

\* A reply is appended: those in the queue stay as they are.
LEMMA ReplyQueued ==
  ASSUME Inv, NEW m \in Reply, resps' = Append(resps, m)
  PROVE  /\ resps' \in Seq(Reply)
         /\ \A j \in 1..Len(resps') : resps'[j] = m \/ (j \in 1..Len(resps) /\ resps'[j] = resps[j])
<1>1. resps \in Seq(Reply)
  BY DEF Inv, TypeOK
<1> QED BY <1>1, AppendProperties

\* A chunk out of step, or one that the board makes a demand to restart of.
LEMMA RefuseStep ==
  ASSUME Inv, reqs # <<>>, reqs' = Tail(reqs), ~silent, UNCHANGED <<clientVars, lost>>,
         NEW r, r = Head(reqs), r.off # 0, OutOfStep(r) \/ DemandRestart(r)
  PROVE  Inv'
<1> USE DEF Inv
<1>1. /\ r \in Request
      /\ pc \in {"wait", "done"} /\ r.id = id =>
           Reached /\ file \in Files /\ file # <<>> /\ upload.declared_sha = file
  <2>1. pc \in {"wait", "done"} => file \in Files /\ file # <<>>
    BY UploadAssumption DEF ClientInv
  <2>2. pc \in {"wait", "done"} /\ r.id = id => r = req /\ \A i \in 1..Len(reqs) : reqs[i] = req
    BY HeadPart, RequestTaken
  <2>3. pc \in {"wait", "done"} /\ r.id = id => upload.declared_sha = file
    BY <2>2, HeadPart DEF FromFile
  <2> QED BY <2>1, <2>2, <2>3, HeadPart DEF Reached
<1>2. PICK off \in Nat :
        /\ resps' = Append(resps, [id |-> r.id, off |-> off, match |-> "absent"])
        /\ off <= Len(upload.declared_sha) /\ Len(upload.declared_sha) \in Nat
        /\ (upload.declared_sha # <<>> /\ fault.kind # "BadHash" /\ off = Len(upload.declared_sha))
             => slot1 = from_bytes(upload.declared_sha)
  <2>1. /\ upload.received \in Seq(Units) /\ Len(upload.received) \in Nat
        /\ upload.declared_sha \in Seq(Units) /\ Len(upload.declared_sha) \in Nat
        /\ Len(upload.received) <= Len(upload.declared_sha)
    BY UploadAssumption DEF TypeOK, BoardInv, ReceivedIsPrefix
  <2>2. CASE OutOfStep(r)
    BY <2>1, <2>2 DEF OutOfStep, Answer, BoardInv
  <2>3. CASE DemandRestart(r)
    BY <2>1, <2>3 DEF DemandRestart, Answer
  <2> QED BY <2>2, <2>3
<1>3. /\ UNCHANGED <<slot1, silent, fault>> /\ upload'.declared_sha = upload.declared_sha
      /\ upload'.received = upload.received \/ upload'.received = <<>>
      /\ upload' \in [declared_sha : Files \cup {<<>>}, received : Seq(Units), chunks : Nat,
                       restart_demanded : BOOLEAN]
  <2>1. CASE OutOfStep(r)
    BY <2>1 DEF OutOfStep, deviceVars, TypeOK
  <2>2. CASE DemandRestart(r)
    <3> DEFINE v == [upload EXCEPT !.restart_demanded = TRUE]
    <3>1. upload' = [v EXCEPT !.received = <<>>] /\ UNCHANGED <<slot1, silent, fault>>
      BY <2>2 DEF DemandRestart
    <3>2. /\ v \in [declared_sha : Files \cup {<<>>}, received : Seq(Units), chunks : Nat,
                    restart_demanded : BOOLEAN]
          /\ v.declared_sha = upload.declared_sha
      BY DEF TypeOK
    <3> HIDE DEF v
    <3>3. upload'.declared_sha = v.declared_sha /\ upload'.received = <<>>
      BY <3>1, <3>2
    <3>4. upload' \in [declared_sha : Files \cup {<<>>}, received : Seq(Units), chunks : Nat,
                       restart_demanded : BOOLEAN]
      <4>1. <<>> \in Seq(Units)
        OBVIOUS
      <4> QED BY <3>1, <3>2, <4>1, Zenon
    <3> QED BY <3>1, <3>2, <3>3, <3>4
  <2> QED BY <2>1, <2>2
<1> DEFINE m == [id |-> r.id, off |-> off, match |-> "absent"]
<1>4. m \in Reply /\ m.id = r.id /\ m.off = off /\ m.match = "absent"
  BY <1>1 DEF Reply, Request
<1> HIDE DEF m
<1>5. /\ resps' \in Seq(Reply)
      /\ \A j \in 1..Len(resps') : resps'[j] = m \/ (j \in 1..Len(resps) /\ resps'[j] = resps[j])
  BY <1>2, <1>4, ReplyQueued DEF m
<1>6. r.id \in Nat /\ r.id <= id
  BY RequestTaken, RequestIds
<1>7. RequestInv' /\ ClientInv' /\ OrderInv' /\ (pc \in {"wait", "done"} /\ Reached => Reached')
  <2>1. \A j \in 1..Len(resps') : resps'[j].id <= id
    BY <1>4, <1>5, <1>6, ReplyIds
  <2> QED BY <1>3, <2>1, RequestGone
<1>8. TypeOK'
  <2>1. reqs' \in Seq(Request)
    BY RequestTaken
  <2> QED BY <1>3, <1>5, <2>1 DEF TypeOK, clientVars
<1>9. BoardInv'
  <2>1. CASE upload'.received = upload.received
    BY <1>3, <2>1 DEF BoardInv, ReceivedIsPrefix
  <2>2. CASE upload'.received = <<>>
    <3>1. upload'.declared_sha \in Seq(Units)
      <4>1. Files \subseteq Seq(Units) /\ <<>> \in Seq(Units)
        BY UploadAssumption
      <4>2. upload'.declared_sha \in Files \cup {<<>>}
        BY <1>3
      <4> QED BY <4>1, <4>2, Zenon
    <3>2. Len(upload'.received) = 0 /\ SubSeq(upload'.declared_sha, 1, 0) = <<>>
      BY <2>2, SubSeqEmpty
    <3> QED BY <2>2, <3>1, <3>2 DEF BoardInv, ReceivedIsPrefix
  <2> QED BY <1>3, <2>1, <2>2
<1>10. ReplyInv'
  <2>1. ASSUME pc = "wait", NEW j \in 1..Len(resps'), resps'[j].id = id
        PROVE  /\ Reached /\ resps'[j].off <= Len(file)
               /\ fault.kind # "BadHash" =>
                    /\ resps'[j].match # "no"
                    /\ resps'[j].off = Len(file) => slot1 = from_bytes(file)
    <3>1. CASE resps'[j] = m
      BY <1>1, <1>2, <1>4, <2>1, <3>1
    <3>2. CASE j \in 1..Len(resps) /\ resps'[j] = resps[j]
      BY <2>1, <3>2 DEF ReplyInv
    <3> QED BY <1>5, <3>1, <3>2
  <2> QED BY <1>3, <1>7, <2>1 DEF ReplyInv, clientVars
<1>11. DoneInv' /\ OnlyBadHashMismatches'
  BY <1>3, <1>7 DEF DoneInv, OnlyBadHashMismatches, clientVars
<1> QED BY <1>7, <1>8, <1>9, <1>10, <1>11

\* A chunk in step.
LEMMA TakeStep ==
  ASSUME Inv, reqs # <<>>, reqs' = Tail(reqs), ~silent, UNCHANGED <<clientVars, lost>>,
         NEW r, r = Head(reqs), Take(r)
  PROVE  Inv'
<1> USE DEF Inv
<1>1. r \in Request
  BY HeadPart
<1>2. PICK g \in Files : Part(r, g) /\ FromFile(r, g)
  BY HeadPart
<1> DEFINE size == r.off + Len(r.data)
<1>3. /\ upload'.declared_sha = g /\ size \in Nat /\ size <= Len(g)
      /\ upload'.received = SubSeq(g, 1, size) /\ Len(upload'.received) = size
      /\ upload' \in [declared_sha : Files \cup {<<>>}, received : Seq(Units), chunks : Nat,
                       restart_demanded : BOOLEAN]
      /\ fault' = fault
  BY <1>1, <1>2, TakeBoard
<1>4. \/ silent' = TRUE /\ slot1' = slot1 /\ resps' = resps
      \/ /\ silent' = FALSE
         /\ slot1' = IF size = Len(g) /\ fault.kind # "BadHash" THEN from_bytes(g) ELSE slot1
         /\ \E m \in {"yes", "no", "absent"} :
              /\ resps' = Append(resps, [id |-> r.id, off |-> size, match |-> m])
              /\ fault.kind # "BadHash" => m # "no"
  BY <1>1, <1>2, TakeBoard
<1> HIDE DEF size
<1>5. /\ r.id \in Nat /\ r.id <= id
      /\ pc \in {"wait", "done"} /\ r.id = id => r = req /\ \A i \in 1..Len(reqs) : reqs[i] = req
      /\ pc \in {"wait", "done"} /\ r = req => g = file
  <2>1. pc \in {"wait", "done"} /\ r = req => FromFile(r, file)
    BY HeadPart
  <2>2. pc \in {"wait", "done"} /\ r = req => g = file
    BY <1>2, <2>1 DEF FromFile
  <2>3. pc \in {"wait", "done"} /\ r.id = id => r = req /\ \A i \in 1..Len(reqs) : reqs[i] = req
    BY HeadPart, RequestTaken
  <2> QED BY <2>2, <2>3, RequestTaken, RequestIds
<1>6. /\ Len(g) \in Nat /\ SubSeq(g, 1, Len(g)) = g
  BY UploadAssumption, SubSeqFull
<1>7. upload'.declared_sha = upload.declared_sha \/ (r.off = 0 /\ upload'.declared_sha = r.sha)
  BY <1>2, <1>3 DEF FromFile
<1>8. /\ resps' \in Seq(Reply)
      /\ \A j \in 1..Len(resps') :
           \/ j \in 1..Len(resps) /\ resps'[j] = resps[j]
           \/ /\ resps'[j].id = r.id /\ resps'[j].off = size
              /\ fault.kind # "BadHash" => resps'[j].match # "no"
              /\ size = Len(g) /\ fault.kind # "BadHash" => slot1' = from_bytes(g)
  <2>1. CASE resps' = resps
    BY <2>1 DEF TypeOK
  <2>2. CASE resps' # resps
    <3>1. PICK m \in {"yes", "no", "absent"} :
            /\ resps' = Append(resps, [id |-> r.id, off |-> size, match |-> m])
            /\ fault.kind # "BadHash" => m # "no"
      BY <1>4, <2>2
    <3> DEFINE p == [id |-> r.id, off |-> size, match |-> m]
    <3>2. p \in Reply /\ p.id = r.id /\ p.off = size /\ p.match = m
      BY <1>3, <1>5 DEF Reply
    <3> HIDE DEF p
    <3>3. /\ resps' \in Seq(Reply)
          /\ \A j \in 1..Len(resps') : resps'[j] = p \/ (j \in 1..Len(resps) /\ resps'[j] = resps[j])
      BY <3>1, <3>2, ReplyQueued DEF p
    <3> QED BY <1>4, <2>2, <3>1, <3>2, <3>3
  <2> QED BY <2>1, <2>2
<1>9. RequestInv' /\ ClientInv' /\ OrderInv' /\ (pc \in {"wait", "done"} /\ Reached => Reached')
  <2>1. \A j \in 1..Len(resps') : resps'[j].id <= id
    BY <1>5, <1>8, ReplyIds
  <2> QED BY <1>7, <2>1, RequestGone
<1>10. TypeOK'
  <2>1. reqs' \in Seq(Request)
    BY RequestTaken
  <2>2. (slot1 = EmptySlot \/ \E f \in Files : slot1 = from_bytes(f))'
    BY <1>4 DEF TypeOK, EmptySlot, from_bytes
  <2>3. silent' \in BOOLEAN
    BY <1>4
  <2> QED BY <1>3, <1>8, <2>1, <2>2, <2>3 DEF TypeOK, clientVars
<1>11. BoardInv'
  <2>1. ReceivedIsPrefix'
    BY <1>3 DEF ReceivedIsPrefix
  <2>2. ~silent' /\ fault.kind # "BadHash" /\ size = Len(g) => slot1' = from_bytes(g)
    BY <1>4
  <2> QED BY <1>3, <2>1, <2>2 DEF BoardInv, from_bytes
<1>12. slot1' = slot1 \/ slot1' = from_bytes(g)
  BY <1>4
<1>13. pc \in {"wait", "done"} /\ Reached => slot1' = slot1 \/ slot1' = from_bytes(file)
  BY <1>5, <1>12, RequestTaken DEF Reached
<1>14. ReplyInv'
  <2>1. ASSUME pc = "wait", NEW j \in 1..Len(resps'), resps'[j].id = id
        PROVE  /\ Reached' /\ resps'[j].off <= Len(file)
               /\ fault.kind # "BadHash" =>
                    /\ resps'[j].match # "no"
                    /\ resps'[j].off = Len(file) => slot1' = from_bytes(file)
    <3>1. CASE j \in 1..Len(resps) /\ resps'[j] = resps[j]
      BY <1>9, <1>13, <2>1, <3>1 DEF ReplyInv
    <3>2. CASE /\ resps'[j].id = r.id /\ resps'[j].off = size
               /\ fault.kind # "BadHash" => resps'[j].match # "no"
               /\ size = Len(g) /\ fault.kind # "BadHash" => slot1' = from_bytes(g)
      <4>1. r = req /\ g = file /\ \A i \in 1..Len(reqs) : reqs[i] = req
        BY <1>5, <2>1, <3>2
      <4>2. Reached'
        BY <1>3, <4>1, RequestTaken DEF Reached, clientVars
      <4> QED BY <1>3, <3>2, <4>1, <4>2
    <3> QED BY <1>8, <3>1, <3>2
  <2> QED BY <1>3, <2>1 DEF ReplyInv, from_bytes, clientVars
<1>15. DoneInv' /\ OnlyBadHashMismatches'
  BY <1>3, <1>9, <1>13 DEF DoneInv, OnlyBadHashMismatches, from_bytes, clientVars
<1> QED BY <1>9, <1>10, <1>11, <1>14, <1>15

LEMMA HandleStep ==
  ASSUME Inv, Handle \/ LoseRequest
  PROVE  Inv'
<1> USE DEF Inv
<1>1. reqs # <<>> /\ reqs' = Tail(reqs) /\ UNCHANGED clientVars /\ lost' \in 0..MaxLost
  <2>1. reqs # <<>> /\ reqs' = Tail(reqs) /\ UNCHANGED clientVars
    BY DEF Handle, LoseRequest
  <2>2. lost' = lost \/ (lost < MaxLost /\ lost' = lost + 1)
    BY DEF Handle, LoseRequest
  <2>3. lost \in 0..MaxLost /\ MaxLost \in Nat
    BY UploadAssumption DEF TypeOK
  <2> QED BY ONLY <2>1, <2>2, <2>3
<1>2. CASE UNCHANGED <<deviceVars, resps>>
  BY <1>1, <1>2, UnansweredStep
<1>3. CASE /\ ~silent /\ lost' = lost
           /\ OutOfStep(Head(reqs)) \/ DemandRestart(Head(reqs)) \/ Take(Head(reqs))
  <2>1. OutOfStep(Head(reqs)) \/ DemandRestart(Head(reqs)) => Head(reqs).off # 0
    BY DEF OutOfStep, DemandRestart, RestartDue
  <2> QED BY <1>1, <1>3, <2>1, RefuseStep, TakeStep
<1> QED BY <1>2, <1>3 DEF Handle, LoseRequest, upload_chunk, deviceVars

LEMMA NextInv == Inv /\ [Next]_vars => Inv'
<1> SUFFICES ASSUME Inv, [Next]_vars PROVE Inv'
  OBVIOUS
<1>1. CASE UNCHANGED vars
  <2> USE <1>1 DEF vars, clientVars, deviceVars, Inv
  <2>1. TypeOK' /\ OnlyBadHashMismatches'
    BY DEF TypeOK, OnlyBadHashMismatches
  <2>2. RequestInv'
    BY RequestsStay
  <2>3. OrderInv' /\ ClientInv' /\ BoardInv'
    BY DEF OrderInv, ClientInv, BoardInv, ReceivedIsPrefix, Part, Source, from_bytes
  <2>4. ReplyInv' /\ DoneInv'
    BY DEF ReplyInv, DoneInv, Reached, from_bytes
  <2> QED BY <2>1, <2>2, <2>3, <2>4
<1>2. CASE \E f \in Files : Begin(f)
  BY <1>2, BeginStep
<1>3. CASE Accept
  BY <1>3, AcceptStep
<1>4. CASE Discard \/ LoseReply
  BY <1>4, ReplyGoneStep
<1>5. CASE Retry
  BY <1>5, RetryStep
<1>6. CASE GiveUp \/ Killed
  BY <1>6, LeaveStep
<1>7. CASE Handle \/ LoseRequest
  BY <1>7, HandleStep
<1> QED BY <1>1, <1>2, <1>3, <1>4, <1>5, <1>6, <1>7 DEF Next

-----------------------------------------------------------------------------
(* The state of the transfer stays well-formed, for any files and faults,  *)
(* with any number of losses and repetitions.                              *)
THEOREM UploadTypeOK == Spec => []TypeOK
<1>1. Inv => TypeOK
  BY DEF Inv
<1> QED BY InitInv, NextInv, <1>1, PTL DEF Spec

(* Device::upload_chunk never keeps anything but the beginning of the file *)
(* it was told the length and digest of, whatever order chunks of which    *)
(* transfers arrive in.                                                    *)
THEOREM PrefixKept == Spec => []ReceivedIsPrefix
<1>1. Inv => ReceivedIsPrefix
  BY DEF Inv, BoardInv
<1> QED BY InitInv, NextInv, <1>1, PTL DEF Spec

(* A transfer that flash reports as done has put its file, the whole of    *)
(* it, into the staging slot under the digest the deploy waits for.        *)
THEOREM SuccessMeansStaged == Spec => []SuccessIsStaged
<1>1. Inv => SuccessIsStaged
  BY DEF Inv, DoneInv, ClientInv, SuccessIsStaged, from_bytes
<1> QED BY InitInv, NextInv, <1>1, PTL DEF Spec

(* Lost, late and repeated chunks and a demanded restart never end in a    *)
(* report of a corrupt image or of an offset outside the file.             *)
THEOREM MismatchIsReal == Spec => []OnlyBadHashMismatches
<1>1. Inv => OnlyBadHashMismatches
  BY DEF Inv
<1> QED BY InitInv, NextInv, <1>1, PTL DEF Spec

-----------------------------------------------------------------------------
(* Refinement of Staging.                                                  *)

\* What the board stores is one of the files.
LEMMA StoredIsFile ==
  ASSUME Inv, Inv', NEW r, Take(r)
  PROVE  slot1' = slot1 \/ \E g \in Files : slot1' = from_bytes(g)
<1>1. upload'.declared_sha \in Files \cup {<<>>}
  BY DEF Inv, TypeOK
<1>2. slot1' = slot1 \/ (upload'.declared_sha # <<>> /\ upload'.declared_sha = upload'.received
                        /\ slot1' = from_bytes(upload'.received))
  BY DEF Take
<1> QED BY <1>1, <1>2

LEMMA StepStages == Inv /\ Inv' /\ [Next]_vars => [Abstract!Next]_<<file, slot1.bytes, pc = "done" /\ fault.kind # "BadHash">>
<1> SUFFICES ASSUME Inv, Inv', [Next]_vars
             PROVE  Abstract!Next \/ UNCHANGED <<file, slot1.bytes, pc = "done" /\ fault.kind # "BadHash">>
  OBVIOUS
<1> USE DEF Abstract!Next
<1>1. CASE UNCHANGED vars
  BY <1>1 DEF vars, clientVars, deviceVars
<1>2. CASE \E f \in Files : Begin(f)
  <2>1. file' \in Files /\ UNCHANGED slot1 /\ pc' # "done"
    BY <1>2 DEF Begin, deviceVars
  <2> QED BY <2>1 DEF Abstract!Start
<1>3. CASE Accept
  <2>1. pc = "wait" /\ UNCHANGED <<file, slot1, fault>>
    BY <1>3 DEF Accept, deviceVars
  <2>2. CASE pc' = "done" /\ fault.kind # "BadHash"
    <3>1. slot1 = from_bytes(file)
      BY <2>1, <2>2 DEF Inv, DoneInv, from_bytes
    <3> QED BY <2>1, <2>2, <3>1 DEF Abstract!Succeed, from_bytes
  <2> QED BY <2>1, <2>2
<1>4. CASE Discard \/ LoseReply \/ LoseRequest \/ Retry
  BY <1>4 DEF Discard, LoseReply, LoseRequest, Retry, clientVars, deviceVars
<1>5. CASE GiveUp \/ Killed
  BY <1>5 DEF GiveUp, Killed, End, deviceVars
<1>6. CASE Handle
  <2>1. UNCHANGED <<pc, file>>
    BY <1>6 DEF Handle, clientVars
  <2>2. CASE UNCHANGED <<slot1, fault>>
    BY <2>1, <2>2
  <2>3. CASE Take(Head(reqs))
    <3>1. fault' = fault
      BY <2>3 DEF Take
    <3>2. CASE slot1' = slot1
      BY <2>2, <3>1, <3>2
    <3>3. CASE \E g \in Files : slot1' = from_bytes(g)
      <4>1. slot1'.bytes \in Files
        BY <3>3 DEF from_bytes
      <4>2. pc = "done" /\ fault.kind # "BadHash" => slot1'.bytes = file
        BY <2>1, <3>1 DEF Inv, DoneInv, from_bytes
      <4> QED BY <2>1, <3>1, <4>1, <4>2 DEF Abstract!Store
    <3> QED BY <2>3, <3>2, <3>3, StoredIsFile
  <2> QED BY <1>6, <2>2, <2>3 DEF Handle, upload_chunk, OutOfStep, DemandRestart, deviceVars
<1> QED BY <1>1, <1>2, <1>3, <1>4, <1>5, <1>6 DEF Next

(* The chunked transfer implements Staging, the transfer in one step that  *)
(* Deploy relies on: whole files only in the slot, and success reported    *)
(* only of the file that is in it.                                         *)
THEOREM UploadStagesWhole == Spec => StagesWhole
<1>1. Init => Abstract!Init
  BY DEF Init, Abstract!Init, EmptySlot
<1> QED BY InitInv, NextInv, <1>1, StepStages, PTL DEF Spec, StagesWhole, Abstract!Spec


-----------------------------------------------------------------------------
(* The image parser.  Both of its loops go from a position to one behind   *)
(* it, so that what they compute exists; what it is follows by going       *)
(* through the positions from the last one down.                           *)

\* The least-number principle, stated for sets.
LEMMA Smallest ==
  ASSUME NEW T, T \subseteq Nat, T # {}
  PROVE  \E n \in T : \A m \in T : n <= m
<1> DEFINE R == {ss \in Nat \X Nat : ss[1] < ss[2]}
<1>1. IsWellFoundedOn(R, Nat)
  BY NatLessThanWellFounded DEF OpToRel
<1> HIDE DEF R
<1>2. PICK n \in T : \A m \in T : ~(<<m, n>> \in R)
  BY <1>1, WFMin
<1>3. \A m \in T : <<m, n>> \in R <=> m < n
  BY DEF R
<1>4. \A m \in T : m \in Nat /\ n \in Nat /\ ~(m < n)
  BY <1>2, <1>3
<1>5. \A m \in T : n <= m
  BY <1>4
<1> QED BY <1>5

\* Induction over the naturals, for a set in place of a predicate.
LEMMA Induction ==
  ASSUME NEW S, 0 \in S, \A n \in Nat : n \in S => n + 1 \in S
  PROVE  \A n \in Nat : n \in S
<1> SUFFICES ASSUME Nat \ S # {} PROVE FALSE
  OBVIOUS
<1>1. PICK n \in Nat \ S : \A m \in Nat \ S : n <= m
  BY Smallest
<1>2. n # 0 /\ n - 1 \in Nat /\ ~(n <= n - 1)
  BY <1>1
<1>3. n - 1 \in S
  BY <1>1, <1>2
<1> QED BY <1>2, <1>3

LEMMA Downward ==
  ASSUME NEW N \in Nat, NEW S,
         \A n \in 0..N : (\A m \in 0..N : m > n => m \in S) => n \in S
  PROVE  \A n \in 0..N : n \in S
<1> SUFFICES ASSUME NEW x \in 0..N, x \notin S PROVE FALSE
  OBVIOUS
<1> DEFINE T == {k \in Nat : \E n \in 0..N : n \notin S /\ k = N - n}
<1>1. T \subseteq Nat /\ T # {}
  <2>1. N - x \in T
    OBVIOUS
  <2> QED BY <2>1
<1> HIDE DEF T
<1>2. PICK k \in T : \A j \in T : k <= j
  BY <1>1, Smallest
<1> USE DEF T
<1>3. PICK n \in 0..N : n \notin S /\ k = N - n
  OBVIOUS
<1>4. ASSUME NEW m \in 0..N, m > n PROVE m \in S
  <2> SUFFICES ASSUME m \notin S PROVE FALSE
    OBVIOUS
  <2>1. N - m \in T
    OBVIOUS
  <2>2. N - m < N - n
    BY <1>4
  <2> QED BY <1>2, <1>3, <2>1, <2>2
<1> QED BY <1>3, <1>4

\* f takes its value at a position of D from b, at any other from a later position.
Solves(f, at, D, b, next) == f[at] = IF at \in D THEN b[at] ELSE f[next[at]]

Walk(f, N, D, b, next) == f = [at \in 0..N |-> IF at \in D THEN b[at] ELSE f[next[at]]]

LEMMA Recursion ==
  ASSUME NEW N \in Nat, NEW D, NEW b, NEW next,
         \A at \in 0..N : at \notin D => next[at] \in at + 1..N
  PROVE  \E f : Walk(f, N, D, b, next)
<1> DEFINE From(m) == (N + 1 - m)..N
           T == {m \in Nat : m <= N + 1 =>
                   \E f : /\ f = [at \in From(m) |-> f[at]]
                          /\ \A at \in From(m) : Solves(f, at, D, b, next)}
<1>1. 0 \in T
  <2> DEFINE f == [at \in From(0) |-> 0]
  <2>1. From(0) = {}
    OBVIOUS
  <2>2. f = [at \in From(0) |-> f[at]]
    OBVIOUS
  <2> QED BY <2>1, <2>2
<1>2. ASSUME NEW m \in Nat, m \in T PROVE m + 1 \in T
  <2> SUFFICES ASSUME m + 1 <= N + 1
               PROVE  \E f : /\ f = [at \in From(m + 1) |-> f[at]]
                             /\ \A at \in From(m + 1) : Solves(f, at, D, b, next)
    OBVIOUS
  <2>1. PICK f : \A at \in From(m) : Solves(f, at, D, b, next)
    BY <1>2
  <2> DEFINE lo == N - m
             g == [at \in From(m + 1) |-> IF at # lo THEN f[at]
                                          ELSE IF lo \in D THEN b[lo] ELSE f[next[lo]]]
  <2>2. lo \in 0..N /\ \A at \in From(m + 1) : at \in 0..N /\ (at = lo \/ at \in From(m))
    OBVIOUS
  <2>3. \A at \in From(m) : at \in From(m + 1) /\ at # lo
    OBVIOUS
  <2>4. \A at \in From(m + 1) : at \notin D => next[at] \in From(m)
    <3> SUFFICES ASSUME NEW at \in From(m + 1), at \notin D PROVE next[at] \in From(m)
      OBVIOUS
    <3>1. next[at] \in at + 1..N
      BY <2>2
    <3> QED BY <3>1
  <2> HIDE DEF lo, From
  <2>5. \A at \in From(m) : g[at] = f[at]
    BY <2>3
  <2>6. ASSUME NEW at \in From(m + 1) PROVE Solves(g, at, D, b, next)
    <3>1. at \notin D => g[next[at]] = f[next[at]]
      BY <2>4, <2>5
    <3>2. CASE at = lo
      <4>1. g[at] = IF at \in D THEN b[at] ELSE f[next[at]]
        BY <3>2
      <4> QED BY <3>1, <4>1 DEF Solves
    <3>3. CASE at # lo
      <4>1. at \in From(m)
        BY <2>2, <3>3
      <4>2. g[at] = f[at] /\ f[at] = IF at \in D THEN b[at] ELSE f[next[at]]
        BY <2>1, <2>5, <4>1 DEF Solves
      <4> QED BY <3>1, <4>2 DEF Solves
    <3> QED BY <3>2, <3>3
  <2>7. g = [at \in From(m + 1) |-> g[at]]
    OBVIOUS
  <2> QED BY <2>6, <2>7
<1>3. N + 1 \in T
  <2> HIDE DEF T
  <2>1. \A m \in Nat : m \in T
    BY <1>1, <1>2, Induction
  <2> QED BY <2>1
<1>4. From(N + 1) = 0..N
  OBVIOUS
<1>5. PICK f : /\ f = [at \in 0..N |-> f[at]]
               /\ \A at \in 0..N : Solves(f, at, D, b, next)
  BY <1>3, <1>4
<1>6. [at \in 0..N |-> f[at]] = [at \in 0..N |-> IF at \in D THEN b[at] ELSE f[next[at]]]
  BY <1>5 DEF Solves
<1> QED BY <1>5, <1>6 DEF Walk

\* What the loop of Entries does at one position, f being what it does at the others.
EntryStep(image, area_end, f, at) ==
  IF at + 1 > area_end THEN [digest |-> NoDigest, then |-> area_end]
  ELSE IF Behind(image, at) > Len(image) THEN [digest |-> NoDigest, then |-> Len(image)]
  ELSE IF IsDigest(image, at) THEN [digest |-> Kind(image, at + 1), then |-> area_end]
  ELSE f[Behind(image, at)]

LEMMA NumbersFit ==
  \A image \in Seq(Units) : Len(image) \in Nat /\ \A at \in 0..Len(image) - 1 : Number(image, at) \in Nat
<1> SUFFICES ASSUME NEW image \in Seq(Units), NEW at \in 0..Len(image) - 1
             PROVE  Number(image, at) \in Nat
  OBVIOUS
<1>1. image[at + 1] \in Units
  OBVIOUS
<1> QED BY <1>1, SamplesAssumption DEF Number

LEMMA EntriesWalk ==
  ASSUME NEW image \in Seq(Units), NEW start \in 0..Len(image) - 1
  PROVE  \E f : /\ Entries(image, start) = f[start + 1]
                /\ \A at \in 0..Len(image) :
                     f[at] = EntryStep(image, Least(start + Number(image, start), Len(image)), f, at)
<1> DEFINE N == Len(image)
           area_end == Least(start + Number(image, start), N)
           D == {at \in 0..N : at + 1 > area_end \/ Behind(image, at) > N \/ IsDigest(image, at)}
           b == [at \in 0..N |-> EntryStep(image, area_end, <<>>, at)]
           next == [at \in 0..N |-> Behind(image, at)]
<1>1. N \in Nat /\ area_end \in 0..N
  BY NumbersFit DEF Least
<1>2. Entries(image, start)
        = (CHOOSE f : f = [at \in 0..N |-> EntryStep(image, area_end, f, at)])[start + 1]
  BY DEF Entries, EntryStep, Behind, IsDigest
<1> HIDE DEF N, area_end
<1>3. \A at \in 0..N : at \notin D => next[at] \in at + 1..N
  <2> SUFFICES ASSUME NEW at \in 0..N, at \notin D PROVE next[at] \in at + 1..N
    OBVIOUS
  <2>1. at + 1 <= N /\ Behind(image, at) <= N /\ Number(image, at) \in Nat
    BY <1>1, NumbersFit DEF N, Behind
  <2> QED BY <2>1 DEF Behind
<1>4. PICK f : Walk(f, N, D, b, next)
  <2> HIDE DEF D, b, next
  <2> QED BY <1>1, <1>3, Recursion
<1>5. \A at \in 0..N : (IF at \in D THEN b[at] ELSE f[next[at]]) = EntryStep(image, area_end, f, at)
  BY DEF EntryStep, N
<1>6. f = [at \in 0..N |-> EntryStep(image, area_end, f, at)]
  <2> HIDE DEF D, b, next
  <2> QED BY <1>4, <1>5 DEF Walk
<1> DEFINE c == CHOOSE ff : ff = [at \in 0..N |-> EntryStep(image, area_end, ff, at)]
<1>7. c = [at \in 0..N |-> EntryStep(image, area_end, c, at)]
  BY <1>6
<1> HIDE DEF c
<1>8. \A at \in 0..N : c[at] = EntryStep(image, area_end, c, at)
  BY <1>7
<1> QED BY <1>2, <1>8 DEF N, area_end, c

\* Where the search goes on lies behind the area, in any file.
LEMMA EntriesThen ==
  ASSUME NEW image \in Seq(Units), NEW start \in 0..Len(image) - 1
  PROVE  Entries(image, start).then \in start..Len(image)
<1> DEFINE N == Len(image)
           area_end == Least(start + Number(image, start), N)
<1>1. PICK f : /\ Entries(image, start) = f[start + 1]
               /\ \A at \in 0..N : f[at] = EntryStep(image, area_end, f, at)
  BY EntriesWalk
<1>2. N \in Nat /\ start \in 0..N - 1 /\ area_end \in start..N
  BY NumbersFit DEF Least
<1> HIDE DEF N, area_end
<1> DEFINE S == {at \in 0..N : f[at].then \in start..N}
<1>3. ASSUME NEW at \in 0..N, \A m \in 0..N : m > at => m \in S
      PROVE  at \in S
  <2>1. f[at] = EntryStep(image, area_end, f, at)
    BY <1>1
  <2>2. CASE at + 1 > area_end \/ Behind(image, at) > N \/ IsDigest(image, at)
    BY <1>2, <2>1, <2>2 DEF EntryStep, N
  <2>3. CASE ~(at + 1 > area_end \/ Behind(image, at) > N \/ IsDigest(image, at))
    <3>1. Number(image, at) \in Nat
      BY <1>2, <2>3, NumbersFit DEF N
    <3>2. Behind(image, at) \in 0..N /\ Behind(image, at) > at
      BY <1>2, <2>3, <3>1 DEF Behind
    <3>3. f[at] = f[Behind(image, at)]
      BY <2>1, <2>3 DEF EntryStep, N
    <3> QED BY <1>3, <3>2, <3>3
  <2> QED BY <2>2, <2>3
<1>4. \A at \in 0..N : at \in S
  <2> HIDE DEF S
  <2> QED BY <1>2, <1>3, Downward
<1>5. start + 1 \in 0..N
  BY <1>2
<1> QED BY <1>1, <1>4, <1>5 DEF N

\* g is f cut anywhere, or f with something behind it.
Agree(f, g) == \A i \in 1..Len(g) : i <= Len(f) => g[i] = f[i]

\* Every digest among the entries in E is d.
OneDigest(f, E, d) == \A p \in E : IsDigest(f, p) => Kind(f, p + 1) = d

\* What the search of an area up to `to` with the entries in E comes to, if g holds all of it.
Verdict(f, E, d) == IF \E p \in E : IsDigest(f, p) THEN d ELSE NoDigest

\* r is what the search of that area comes to in g.
Searched(f, g, to, E, d, r) ==
  /\ r.digest \in {d, NoDigest} /\ r.then = Least(to, Len(g))
  /\ to <= Len(g) => r.digest = Verdict(f, E, d)

LEMMA EntriesIn ==
  ASSUME NEW f \in Seq(Units), NEW g \in Seq(Units), NEW kind, NEW from \in Nat, NEW to \in Nat,
         NEW E \in SUBSET (from + 1..to - 1), NEW d,
         Agree(f, g), AreaAt(f, kind, from, to, E), OneDigest(f, E, d), from + 1 <= Len(g)
  PROVE  Searched(f, g, to, E, d, Entries(g, from))
<1> DEFINE M == Len(f)
           N == Len(g)
           area_end == Least(to, N)
<1>1. M \in Nat /\ N \in Nat /\ from < to /\ to <= M /\ from + 1 <= N
  BY NumbersFit DEF AreaAt
<1>2. \A at \in 0..N - 1 : at < M => Number(g, at) = Number(f, at) /\ Kind(g, at) = Kind(f, at)
  BY <1>1 DEF Agree, Number, Kind
<1>3. \A at \in 0..N - 1 : Number(g, at) \in Nat
  BY NumbersFit
<1>4. PICK w : /\ Entries(g, from) = w[from + 1]
               /\ \A at \in 0..N : w[at] = EntryStep(g, area_end, w, at)
  <2>1. from \in 0..N - 1 /\ Number(g, from) = Number(f, from) /\ from + Number(f, from) = to
    BY <1>1, <1>2 DEF AreaAt
  <2> QED BY <2>1, EntriesWalk
<1>5. Filled(f, from + 1, to, E) /\ \A p \in E : p \in Nat /\ from + 1 <= p /\ p < to
  BY DEF AreaAt
<1> HIDE DEF M, N, area_end
<1>6. area_end \in 0..N /\ area_end <= to /\ (to <= N => area_end = to) /\ (to > N => area_end = N)
  BY <1>1 DEF area_end, Least
<1> DEFINE Rest(at) == {p \in E : p >= at}
           Good(at) == /\ w[at].digest \in {d, NoDigest} /\ w[at].then = area_end
                       /\ to <= N => w[at].digest = Verdict(f, Rest(at), d)
           S == {at \in 0..N : at \in E \cup {to} => Good(at)}
<1>7. ASSUME NEW at \in 0..N, \A m \in 0..N : m > at => m \in S
      PROVE  at \in S
  <2> SUFFICES ASSUME at \in E \cup {to} PROVE Good(at)
    OBVIOUS
  <2>1. w[at] = EntryStep(g, area_end, w, at)
    BY <1>4
  <2>2. at \in Nat /\ (at # to => at \in E /\ at < to)
    BY <1>1
  <2>3. CASE at + 1 > area_end
    <3>1. w[at] = [digest |-> NoDigest, then |-> area_end]
      BY <2>1, <2>3 DEF EntryStep
    <3>2. to <= N => at = to
      BY <1>1, <1>6, <2>2, <2>3
    <3>3. to <= N => Rest(at) = {}
      <4>1. \A p \in E : ~(p >= to)
        BY <1>5
      <4>2. to <= N => \A p \in E : ~(p >= at)
        BY <3>2, <4>1
      <4> QED BY <4>2
    <3>4. to <= N => Verdict(f, Rest(at), d) = NoDigest
      BY <3>3 DEF Verdict
    <3> QED BY <3>1, <3>4
  <2>4. CASE at + 1 <= area_end
    <3>1. at \in E /\ at < to /\ at + 1 <= N /\ at < M
      BY <1>1, <1>6, <2>2, <2>4
    <3>2. Number(g, at) = Number(f, at) /\ Kind(g, at) = Kind(f, at) /\ Number(g, at) \in Nat
      BY <1>1, <1>2, <1>3, <3>1
    <3>3. /\ Behind(g, at) = Behind(f, at) /\ Behind(f, at) \in Nat /\ Behind(f, at) > at
          /\ IsDigest(g, at) <=> IsDigest(f, at)
      BY <2>2, <3>2 DEF Behind, IsDigest
    <3>4. Behind(f, at) \in E \cup {to} /\ Behind(f, at) <= to
      <4>1. Behind(f, at) = to \/ Behind(f, at) \in E
        BY <1>5, <3>1 DEF Filled
      <4> QED BY <1>5, <3>3, <4>1
    <3>5. CASE Behind(f, at) > N
      <4>1. w[at] = [digest |-> NoDigest, then |-> N]
        BY <1>1, <1>6, <2>1, <2>4, <3>3, <3>5 DEF EntryStep, N
      <4>2. to > N
        BY <1>1, <3>3, <3>4, <3>5
      <4> QED BY <1>1, <1>6, <4>1, <4>2
    <3>6. CASE Behind(f, at) <= N /\ IsDigest(f, at)
      <4>1. w[at] = [digest |-> Kind(g, at + 1), then |-> area_end]
        BY <1>1, <1>6, <2>1, <2>4, <3>3, <3>6 DEF EntryStep, N
      <4>2. at + 1 \in 0..N - 1 /\ at + 1 < M
        BY <1>1, <2>2, <3>1, <3>3, <3>4, <3>6 DEF Behind, IsDigest, SHA_LEN
      <4>3. Kind(g, at + 1) = d
        BY <1>2, <3>1, <3>6, <4>2 DEF OneDigest
      <4>4. at \in Rest(at)
        BY <2>2, <3>1
      <4>5. Verdict(f, Rest(at), d) = d
        BY <3>6, <4>4 DEF Verdict
      <4> QED BY <4>1, <4>3, <4>5
    <3>7. CASE Behind(f, at) <= N /\ ~IsDigest(f, at)
      <4> DEFINE q == Behind(f, at)
      <4>1. w[at] = w[q]
        BY <1>1, <1>6, <2>1, <2>4, <3>3, <3>7 DEF EntryStep, N
      <4>2. q \in 0..N /\ q > at /\ q \in E \cup {to}
        BY <1>1, <3>3, <3>4, <3>7
      <4> HIDE DEF q
      <4>3. Good(q)
        BY <1>7, <4>2
      <4>4. \A p \in Rest(at) : p = at \/ p \in Rest(q)
        BY <1>1, <1>5, <2>2, <3>1, <4>2 DEF Filled, q
      <4>5. \A p \in Rest(q) : p \in Rest(at)
        BY <1>1, <2>2, <4>2
      <4>6. Verdict(f, Rest(at), d) = Verdict(f, Rest(q), d)
        BY <3>7, <4>4, <4>5 DEF Verdict
      <4> QED BY <4>1, <4>3, <4>6
    <3> QED BY <1>1, <3>3, <3>5, <3>6, <3>7
  <2> QED BY <1>1, <1>6, <2>2, <2>3, <2>4
<1>8. \A at \in 0..N : at \in S
  <2> HIDE DEF S
  <2> QED BY <1>1, <1>7, Downward
<1>9. from + 1 \in 0..N /\ from + 1 \in E \cup {to}
  BY <1>1, <1>5 DEF Filled
<1>10. Rest(from + 1) = E
  BY <1>5
<1>11. Good(from + 1)
  BY <1>8, <1>9
<1> QED BY <1>4, <1>10, <1>11 DEF Searched, area_end, N

\* What find_sha256 does at one area, f being what it does at the others.
FindStep(image, f, s) ==
  IF s + 1 > Len(image) \/ Kind(image, s) \notin {"plain", "protected"} THEN NoDigest
  ELSE LET e == Entries(image, s)
       IN IF e.digest # NoDigest \/ Kind(image, s) = "plain" \/ e.then = s
          THEN e.digest
          ELSE f[e.then]

LEMMA FindWalk ==
  ASSUME NEW image \in Seq(Units)
  PROVE  \E f : /\ \A s \in 0..Len(image) : f[s] = FindStep(image, f, s)
                /\ \A s \in Nat : find_sha256(image, s) = IF s > Len(image) THEN NoDigest ELSE f[s]
<1> DEFINE N == Len(image)
           D == {s \in 0..N : \/ s + 1 > N \/ Kind(image, s) \notin {"plain", "protected"}
                              \/ Entries(image, s).digest # NoDigest
                              \/ Kind(image, s) = "plain" \/ Entries(image, s).then = s}
           b == [s \in 0..N |-> FindStep(image, <<>>, s)]
           next == [s \in 0..N |-> Entries(image, s).then]
           c == CHOOSE ff : ff = [s \in 0..N |-> FindStep(image, ff, s)]
<1>1. N \in Nat
  OBVIOUS
<1>2. \A s \in Nat : find_sha256(image, s) = IF s > N THEN NoDigest ELSE c[s]
  BY DEF find_sha256, FindStep
<1> HIDE DEF N, c
<1>3. \A s \in 0..N : s \notin D => next[s] \in s + 1..N
  <2> SUFFICES ASSUME NEW s \in 0..N, s \notin D PROVE next[s] \in s + 1..N
    OBVIOUS
  <2>1. s \in 0..N - 1 /\ Entries(image, s).then # s
    BY <1>1
  <2>2. Entries(image, s).then \in s..N
    BY <2>1, EntriesThen DEF N
  <2> QED BY <1>1, <2>1, <2>2
<1>4. PICK f : Walk(f, N, D, b, next)
  <2> HIDE DEF D, b, next
  <2> QED BY <1>1, <1>3, Recursion
<1>5. \A s \in 0..N : (IF s \in D THEN b[s] ELSE f[next[s]]) = FindStep(image, f, s)
  BY DEF FindStep, N
<1>6. f = [s \in 0..N |-> FindStep(image, f, s)]
  <2> HIDE DEF D, b, next
  <2> QED BY <1>4, <1>5 DEF Walk
<1>7. c = [s \in 0..N |-> FindStep(image, c, s)]
  BY <1>6 DEF c
<1>8. \A s \in 0..N : c[s] = FindStep(image, c, s)
  BY <1>7
<1> QED BY <1>2, <1>8 DEF N

\* A search behind the end finds nothing; one at an area looks into it first.
LEMMA FindStops ==
  ASSUME NEW g \in Seq(Units), NEW s \in Nat, s + 1 > Len(g)
  PROVE  find_sha256(g, s) = NoDigest
<1>1. PICK w : /\ \A x \in 0..Len(g) : w[x] = FindStep(g, w, x)
               /\ \A x \in Nat : find_sha256(g, x) = IF x > Len(g) THEN NoDigest ELSE w[x]
  BY FindWalk
<1>2. CASE s > Len(g)
  BY <1>1, <1>2
<1>3. CASE s <= Len(g)
  <2>1. w[s] = FindStep(g, w, s) /\ find_sha256(g, s) = w[s]
    BY <1>1, <1>3
  <2> QED BY <2>1 DEF FindStep
<1> QED BY <1>2, <1>3

LEMMA FindInPlain ==
  ASSUME NEW g \in Seq(Units), NEW s \in Nat, s + 1 <= Len(g), Kind(g, s) = "plain"
  PROVE  find_sha256(g, s) = Entries(g, s).digest
<1>1. PICK w : /\ \A x \in 0..Len(g) : w[x] = FindStep(g, w, x)
               /\ \A x \in Nat : find_sha256(g, x) = IF x > Len(g) THEN NoDigest ELSE w[x]
  BY FindWalk
<1>2. w[s] = FindStep(g, w, s) /\ find_sha256(g, s) = w[s]
  BY <1>1
<1> QED BY <1>2 DEF FindStep

LEMMA FindInProtected ==
  ASSUME NEW g \in Seq(Units), NEW s \in Nat, s + 1 <= Len(g), Kind(g, s) = "protected",
         Entries(g, s).then # s
  PROVE  find_sha256(g, s) = IF Entries(g, s).digest # NoDigest THEN Entries(g, s).digest
                             ELSE find_sha256(g, Entries(g, s).then)
<1> DEFINE e == Entries(g, s)
<1>1. PICK w : /\ \A x \in 0..Len(g) : w[x] = FindStep(g, w, x)
               /\ \A x \in Nat : find_sha256(g, x) = IF x > Len(g) THEN NoDigest ELSE w[x]
  BY FindWalk
<1>2. w[s] = FindStep(g, w, s) /\ find_sha256(g, s) = w[s]
  BY <1>1
<1>3. e.then \in s..Len(g)
  BY EntriesThen
<1>4. e.then \in Nat /\ ~(e.then > Len(g))
  BY <1>3
<1>5. find_sha256(g, e.then) = w[e.then]
  BY <1>1, <1>4
<1> QED BY <1>2, <1>5 DEF FindStep

LEMMA KindsAgree ==
  ASSUME NEW f \in Seq(Units), NEW g \in Seq(Units), Agree(f, g), NEW at \in Nat,
         at + 1 <= Len(f), at + 1 <= Len(g)
  PROVE  Kind(g, at) = Kind(f, at)
<1>1. at + 1 \in 1..Len(g)
  OBVIOUS
<1> QED BY <1>1 DEF Agree, Kind

\* The search of the unprotected area, up to which the file is the same.
LEMMA PlainSearch ==
  ASSUME NEW f \in Seq(Units), NEW g \in Seq(Units), NEW from \in Nat,
         NEW E \in SUBSET (from + 1..Len(f) - 1), NEW d,
         Agree(f, g), AreaAt(f, "plain", from, Len(f), E), OneDigest(f, E, d)
  PROVE  /\ find_sha256(g, from) \in {d, NoDigest}
         /\ Len(f) <= Len(g) => find_sha256(g, from) = Verdict(f, E, d)
<1>1. Len(f) \in Nat /\ Len(g) \in Nat /\ from + 1 <= Len(f) /\ Kind(f, from) = "plain"
  BY NumbersFit DEF AreaAt
<1>2. CASE from + 1 > Len(g)
  BY <1>1, <1>2, FindStops
<1>3. CASE from + 1 <= Len(g)
  <2>1. find_sha256(g, from) = Entries(g, from).digest
    BY <1>1, <1>3, KindsAgree, FindInPlain
  <2>2. Searched(f, g, Len(f), E, d, Entries(g, from))
    BY <1>1, <1>3, EntriesIn
  <2> QED BY <2>1, <2>2 DEF Searched
<1> QED BY <1>1, <1>2, <1>3

\* That of the protected area, which goes on with the one behind it.
LEMMA ProtectedSearch ==
  ASSUME NEW f \in Seq(Units), NEW g \in Seq(Units), NEW from \in Nat, NEW to \in Nat,
         NEW P \in SUBSET (from + 1..to - 1), NEW d,
         Agree(f, g), AreaAt(f, "protected", from, to, P), OneDigest(f, P, d),
         find_sha256(g, to) \in {d, NoDigest}
  PROVE  /\ find_sha256(g, from) \in {d, NoDigest}
         /\ Len(f) <= Len(g) => find_sha256(g, from) = IF Verdict(f, P, d) # NoDigest THEN d
                                                       ELSE find_sha256(g, to)
<1> DEFINE e == Entries(g, from)
<1>1. /\ Len(f) \in Nat /\ Len(g) \in Nat /\ from < to /\ to <= Len(f)
      /\ Kind(f, from) = "protected"
  BY NumbersFit DEF AreaAt
<1>2. CASE from + 1 > Len(g)
  BY <1>1, <1>2, FindStops
<1>3. CASE from + 1 <= Len(g)
  <2>1. Searched(f, g, to, P, d, e)
    BY <1>1, <1>3, EntriesIn
  <2>2. Kind(g, from) = "protected"
    BY <1>1, <1>3, KindsAgree
  <2>3. e.then = Least(to, Len(g)) /\ e.then # from
    BY <1>1, <1>3, <2>1 DEF Searched, Least
  <2>4. find_sha256(g, from) = IF e.digest # NoDigest THEN e.digest ELSE find_sha256(g, e.then)
    BY <1>3, <2>2, <2>3, FindInProtected
  <2>5. CASE to <= Len(g)
    <3>1. e.then = to /\ e.digest = Verdict(f, P, d)
      BY <2>1, <2>3, <2>5 DEF Searched, Least
    <3> QED BY <2>4, <3>1 DEF Verdict
  <2>6. CASE to > Len(g)
    <3>1. e.then = Len(g) /\ e.digest \in {d, NoDigest}
      BY <1>1, <2>1, <2>3, <2>6 DEF Searched, Least
    <3>2. find_sha256(g, Len(g)) = NoDigest
      BY <1>1, FindStops
    <3> QED BY <1>1, <2>4, <2>6, <3>1, <3>2
  <2> QED BY <1>1, <2>5, <2>6
<1> QED BY <1>1, <1>2, <1>3

(* Of a file that imgtool laid out, parse finds the digest whatever        *)
(* follows; of a part of it, that one or none.                             *)
LEMMA ParseLaidOut ==
  ASSUME NEW f \in Seq(Units), NEW g \in Seq(Units), NEW d, LaidOut(f, d), Agree(f, g)
  PROVE  parse(g) \in {d, NoDigest} /\ (Len(f) <= Len(g) => parse(g) = d)
<1> DEFINE body_end == f[1].n + f[1].body
           plain == body_end + f[1].prot
<1>1. /\ Len(f) \in Nat \ {0} /\ Len(g) \in Nat
      /\ f[1].tag = "image" /\ f[1].prot \in Nat /\ body_end \in Nat /\ plain \in Nat
      /\ plain = body_end <=> f[1].prot = 0
  BY NumbersFit DEF LaidOut
<1>2. PICK P \in SUBSET (body_end + 1..plain - 1), E \in SUBSET (plain + 1..Len(f) - 1) :
        /\ IF plain = body_end THEN P = {} ELSE AreaAt(f, "protected", body_end, plain, P)
        /\ AreaAt(f, "plain", plain, Len(f), E)
        /\ {Kind(f, p + 1) : p \in {q \in P \cup E : IsDigest(f, q)}}
             = IF d = NoDigest THEN {} ELSE {d}
  BY DEF LaidOut
<1>3. CASE Len(g) = 0
  BY <1>1, <1>3 DEF parse, HEADER_LEN
<1>4. CASE Len(g) # 0
  <2>1. g[1] = f[1]
    BY <1>1, <1>4 DEF Agree
  <2> DEFINE last == find_sha256(g, plain)
             first == find_sha256(g, body_end)
  <2>2. parse(g) = IF last = NoDigest /\ f[1].prot # 0 THEN first ELSE last
    BY <1>1, <1>4, <2>1 DEF parse, HEADER_LEN
  <2> HIDE DEF body_end, plain
  <2>3. OneDigest(f, P, d) /\ OneDigest(f, E, d)
    <3> SUFFICES ASSUME NEW p \in P \cup E, IsDigest(f, p) PROVE Kind(f, p + 1) = d
      BY DEF OneDigest
    <3>1. Kind(f, p + 1) \in {Kind(f, x + 1) : x \in {q \in P \cup E : IsDigest(f, q)}}
      OBVIOUS
    <3> QED BY <1>2, <3>1
  <2>4. d # NoDigest => Verdict(f, P, d) = d \/ Verdict(f, E, d) = d
    <3> SUFFICES ASSUME d # NoDigest PROVE \E p \in P \cup E : IsDigest(f, p)
      BY DEF Verdict
    <3>1. d \in {Kind(f, x + 1) : x \in {q \in P \cup E : IsDigest(f, q)}}
      BY <1>2
    <3> QED BY <3>1
  <2>5. Verdict(f, P, d) \in {d, NoDigest} /\ Verdict(f, E, d) \in {d, NoDigest}
    BY DEF Verdict
  <2>6. last \in {d, NoDigest} /\ (Len(f) <= Len(g) => last = Verdict(f, E, d))
    BY <1>1, <1>2, <2>3, PlainSearch
  <2>7. CASE plain = body_end
    <3>1. parse(g) = last
      BY <1>1, <2>2, <2>7
    <3>2. P = {}
      BY <1>2, <2>7
    <3>3. Verdict(f, P, d) = NoDigest
      BY <3>2 DEF Verdict
    <3> QED BY <2>4, <2>5, <2>6, <3>1, <3>3
  <2>8. CASE plain # body_end
    <3>1. AreaAt(f, "protected", body_end, plain, P)
      BY <1>2, <2>8
    <3>2. /\ first \in {d, NoDigest}
          /\ Len(f) <= Len(g) => first = IF Verdict(f, P, d) # NoDigest THEN d ELSE last
      BY <1>1, <2>3, <2>6, <3>1, ProtectedSearch
    <3>3. parse(g) = IF last = NoDigest THEN first ELSE last
      BY <1>1, <2>2, <2>8
    <3> HIDE DEF first, last
    <3> QED BY <2>4, <2>5, <2>6, <3>2, <3>3
  <2> QED BY <2>7, <2>8
<1> QED BY <1>3, <1>4

(* While no client has begun, and so whatever the state: parse finds the   *)
(* digest of every signed file in either area, whatever follows the file,  *)
(* and of a file cut short finds that digest or none.                      *)
THEOREM ParserTheorem == Spec => []ParserFindsDigest
<1>1. ASSUME NEW s \in Samples, NEW t \in Trailers PROVE parse(s.file \o t) = s.digest
  <2> DEFINE g == s.file \o t
  <2>1. s.file \in Seq(Units) /\ LaidOut(s.file, s.digest) /\ t \in Seq(Units)
    BY SamplesAssumption
  <2>2. g \in Seq(Units) /\ Len(s.file) <= Len(g)
    BY <2>1
  <2>3. Agree(s.file, g)
    BY <2>1 DEF Agree
  <2> HIDE DEF g
  <2>4. parse(g) = s.digest
    BY <2>1, <2>2, <2>3, ParseLaidOut
  <2> QED BY <2>4 DEF g
<1>2. ASSUME NEW s \in Samples, NEW n \in 0..Len(s.file)
      PROVE  parse(SubSeq(s.file, 1, n)) \in {s.digest, NoDigest}
  <2> DEFINE g == SubSeq(s.file, 1, n)
  <2>1. s.file \in Seq(Units) /\ LaidOut(s.file, s.digest)
    BY SamplesAssumption
  <2>2. g \in Seq(Units) /\ Agree(s.file, g)
    BY <2>1 DEF Agree
  <2> HIDE DEF g
  <2>3. parse(g) \in {s.digest, NoDigest}
    BY <2>1, <2>2, ParseLaidOut
  <2> QED BY <2>3 DEF g
<1>3. ParserFindsDigest
  BY <1>1, <1>2 DEF ParserFindsDigest
<1> QED BY <1>3, PTL
=============================================================================
