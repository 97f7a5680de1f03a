------------------------------- MODULE Demux -------------------------------
(***************************************************************************)
(* One serial link shared by SMP frames and log output                     *)
(* (runtt-smp/src/demux.rs): the device writes lines, a reader thread      *)
(* splits the bytes it reads back into lines and routes them by prefix,    *)
(* the SMP client reads frames from a queue, and drops the whole when it   *)
(* is done, to open the port again (flash.rs, around the reset).           *)
(***************************************************************************)
EXTENDS Naturals, Sequences, SequencesExt

CONSTANTS Bodies,    \* what a line can carry, each used once per connection
          MaxLines,  \* bound: lines the device writes on one connection
          MaxOpens   \* bound: connections made

ASSUME DemuxAssumption == MaxLines \in Nat /\ MaxOpens \in Nat /\ Bodies \cap {"m", "r", "n"} = {}

VARIABLES
  wire,     \* bytes written by the device and not read yet
  gone,     \* the device has left: reads fail
  reader,   \* pump: "read", "route" or "done"
  buf,      \* bytes of the last read not looked at yet
  line,     \* the line being put together
  queue,    \* the mpsc channel: whole frames
  out,      \* lines given to the sink
  client,   \* "closed", "open", or "dropping" (joining the reader)
  stop,     \* the flag the reader polls
  pending,  \* bytes of a frame not handed to the caller yet
  result,   \* outcome of the client's last read
  handles,  \* open duplicates of the port; serialport's flock lasts while any is
  opens,
  sent,     \* history: lines the device has written on this connection
  got       \* history: bytes handed to the caller

pumpVars == <<reader, buf, line, queue, out>>
callVars == <<client, stop, pending, result, got>>
linkVars == <<wire, gone, sent>>
vars == <<wire, gone, reader, buf, line, queue, out, client, stop, pending, result,
          handles, opens, sent, got>>

\* "m" stands for either two-byte marker, "r" for CR, "n" for the newline.
Bytes == Bodies \cup {"m", "r", "n"}

TypeOK ==
  /\ wire \in Seq(Bytes) /\ buf \in Seq(Bytes) /\ line \in Seq(Bytes \ {"n"})
  /\ queue \in Seq(Seq(Bytes)) /\ out \in Seq(Seq(Bytes)) /\ pending \in Seq(Bytes)
  /\ got \in Seq(Bytes) /\ sent \in Seq(Seq(Bytes))
  /\ gone \in BOOLEAN /\ stop \in BOOLEAN
  /\ reader \in {"read", "route", "done"} /\ client \in {"closed", "open", "dropping"}
  /\ result \in {"none", "bytes", "timeout", "eof"}
  /\ handles \subseteq {"reader", "writer"} /\ opens \in 0..MaxOpens
  /\ reader = "route" <=> buf # <<>>

Init ==
  /\ wire = <<>> /\ gone = FALSE /\ sent = <<>>
  /\ reader = "done" /\ buf = <<>> /\ line = <<>> /\ queue = <<>> /\ out = <<>>
  /\ client = "closed" /\ stop = TRUE /\ pending = <<>> /\ result = "none" /\ got = <<>>
  /\ handles = {} /\ opens = 0

-----------------------------------------------------------------------------
(* The device *)

\* A frame or continuation, a log line with either ending, or an empty line.
Lines(b) == {<<"m", b, "n">>, <<b, "n">>, <<b, "r", "n">>, <<"r", "n">>}

Fresh(b) == \A i \in DOMAIN sent : b \notin Range(sent[i])

Emit(l) ==
  /\ client # "closed" /\ ~gone /\ Len(sent) < MaxLines
  /\ wire' = wire \o l /\ sent' = Append(sent, l)
  /\ UNCHANGED <<gone, pumpVars, callVars, handles, opens>>

Detach ==
  /\ client # "closed" /\ ~gone
  /\ gone' = TRUE
  /\ UNCHANGED <<wire, sent, pumpVars, callVars, handles, opens>>

-----------------------------------------------------------------------------
(* pump *)

\* Mutant: the stop flag is only looked at when a read has failed.
PumpStopsOnError ==
  /\ reader = "read" /\ stop /\ gone
  /\ reader' = "done" /\ handles' = handles \ {"reader"}
  /\ UNCHANGED <<linkVars, buf, line, queue, out, callVars, opens>>

\* The loop condition, tested before every read.
PumpStops ==
  /\ reader = "read" /\ stop
  /\ reader' = "done" /\ handles' = handles \ {"reader"}
  /\ UNCHANGED <<linkVars, buf, line, queue, out, callVars, opens>>

\* read fails or returns 0: the device is gone.
PumpFails ==
  /\ reader = "read" /\ ~stop /\ gone
  /\ reader' = "done" /\ handles' = handles \ {"reader"}
  /\ UNCHANGED <<linkVars, buf, line, queue, out, callVars, opens>>

\* read returns some of the bytes that have arrived.
PumpReads(n) ==
  /\ reader = "read" /\ ~stop /\ n \in 1..Len(wire)
  /\ buf' = SubSeq(wire, 1, n) /\ wire' = SubSeq(wire, n + 1, Len(wire))
  /\ reader' = "route"
  /\ UNCHANGED <<gone, sent, line, queue, out, callVars, handles, opens>>

is_smp_line(l) == l # <<>> /\ l[1] = "m"

\* strip_suffix("\r")
Trim(l) == IF l # <<>> /\ l[Len(l)] = "r" THEN SubSeq(l, 1, Len(l) - 1) ELSE l

\* Mutant: a line cut by the end of a read is routed as it stands.
RouteEachRead ==
  /\ reader = "route"
  /\ buf' = Tail(buf) /\ reader' = IF Tail(buf) = <<>> THEN "read" ELSE "route"
  /\ LET l == IF Head(buf) = "n" THEN line ELSE Append(line, Head(buf)) IN
     IF Head(buf) # "n" /\ Tail(buf) # <<>>
     THEN line' = l /\ UNCHANGED <<queue, out>>
     ELSE /\ line' = <<>>
          /\ queue' = IF is_smp_line(l) THEN Append(queue, Append(l, "n")) ELSE queue
          /\ out' = IF ~is_smp_line(l) /\ Trim(l) # <<>> THEN Append(out, Trim(l)) ELSE out
  /\ UNCHANGED <<linkVars, callVars, handles, opens>>

\* One byte: it extends the line, or ends it and the line is routed.
Route ==
  /\ reader = "route"
  /\ buf' = Tail(buf) /\ reader' = IF Tail(buf) = <<>> THEN "read" ELSE "route"
  /\ IF Head(buf) # "n"
     THEN line' = Append(line, Head(buf)) /\ UNCHANGED <<queue, out>>
     ELSE /\ line' = <<>>
          /\ queue' = IF is_smp_line(line) THEN Append(queue, Append(line, "n")) ELSE queue
          /\ out' = IF ~is_smp_line(line) /\ Trim(line) # <<>>
                    THEN Append(out, Trim(line)) ELSE out
  /\ UNCHANGED <<linkVars, callVars, handles, opens>>

-----------------------------------------------------------------------------
(* The client's side *)

(* with_sink: a second handle for writing, and the reader is started.  The *)
(* device may be in the middle of a line.                                  *)
Open ==
  /\ client = "closed" /\ handles = {} /\ opens < MaxOpens
  /\ client' = "open" /\ stop' = FALSE /\ pending' = <<>> /\ result' = "none" /\ got' = <<>>
  /\ reader' = "read" /\ buf' = <<>> /\ line' = <<>> /\ queue' = <<>> /\ out' = <<>>
  /\ handles' = {"reader", "writer"} /\ opens' = opens + 1
  /\ gone' = FALSE
  /\ \E b \in Bodies : wire' \in {<<>>, <<b, "n">>}
  /\ sent' = IF wire' = <<>> THEN <<>> ELSE <<wire'>>

\* What read finds without waiting; the queue outlives the reader.
Available == IF pending # <<>> \/ queue = <<>> THEN pending ELSE Head(queue)

\* Mutant: what the caller's buffer does not hold is dropped.
ReadTruncates(n) ==
  /\ client = "open" /\ n \in 1..Len(Available)
  /\ got' = got \o SubSeq(Available, 1, n)
  /\ pending' = <<>>
  /\ queue' = IF pending = <<>> THEN Tail(queue) ELSE queue
  /\ result' = "bytes"
  /\ UNCHANGED <<linkVars, reader, buf, line, out, client, stop, handles, opens>>

\* Read::read into a buffer of at least n bytes.
Read(n) ==
  /\ client = "open" /\ n \in 1..Len(Available)
  /\ got' = got \o SubSeq(Available, 1, n)
  /\ pending' = SubSeq(Available, n + 1, Len(Available))
  /\ queue' = IF pending = <<>> THEN Tail(queue) ELSE queue
  /\ result' = "bytes"
  /\ UNCHANGED <<linkVars, reader, buf, line, out, client, stop, handles, opens>>

ReadTimesOut ==
  /\ client = "open" /\ Available = <<>> /\ reader # "done"
  /\ result' = "timeout"
  /\ UNCHANGED <<linkVars, pumpVars, client, stop, pending, got, handles, opens>>

\* Mutant: the end of the stream looks like a quiet link.
ReadEofHidden ==
  /\ client = "open" /\ Available = <<>> /\ reader = "done"
  /\ result' = "timeout"
  /\ UNCHANGED <<linkVars, pumpVars, client, stop, pending, got, handles, opens>>

\* The reader is gone and has left nothing: Ok(0).
ReadEof ==
  /\ client = "open" /\ Available = <<>> /\ reader = "done"
  /\ result' = "eof"
  /\ UNCHANGED <<linkVars, pumpVars, client, stop, pending, got, handles, opens>>

\* Drop: ask the reader to stop ...
Drop ==
  /\ client = "open"
  /\ client' = "dropping" /\ stop' = TRUE
  /\ UNCHANGED <<linkVars, pumpVars, pending, result, got, handles, opens>>

\* Mutant: the reader is told to stop and not waited for.
CloseUnjoined ==
  /\ client = "dropping"
  /\ client' = "closed" /\ handles' = handles \ {"writer"}
  /\ UNCHANGED <<linkVars, pumpVars, stop, pending, result, got, opens>>

\* ... wait for it, and only then close the writing handle.
Close ==
  /\ client = "dropping" /\ reader = "done"
  /\ client' = "closed" /\ handles' = handles \ {"writer"}
  /\ UNCHANGED <<linkVars, pumpVars, stop, pending, result, got, opens>>

Pump == PumpStops \/ PumpFails \/ Route \/ \E n \in 1..Len(wire) : PumpReads(n)

Reads == ReadTimesOut \/ ReadEof \/ \E n \in 1..Len(Available) : Read(n)

Next ==
  \/ \E b \in Bodies : Fresh(b) /\ \E l \in Lines(b) : Emit(l)
  \/ Detach \/ Pump \/ Reads \/ Open \/ Drop \/ Close

Spec == Init /\ [][Next]_vars

(* Both threads run, the client reads on (the heartbeat does), and the     *)
(* sink accepts what it is given: stdout is drained.                       *)
FairSpec == Spec /\ WF_vars(Pump) /\ WF_vars(Reads) /\ WF_vars(Close)

-----------------------------------------------------------------------------
(* Properties *)

\* Everything the device wrote has been through the reader.
CaughtUp == wire = <<>> /\ buf = <<>> /\ client # "closed"

\* The frames among some lines, byte for byte.
FramesOf(lines) ==
  FlattenSeq([i \in 1..Len(lines) |-> IF is_smp_line(lines[i]) THEN lines[i] ELSE <<>>])

\* The log lines among them, without their endings; blank ones are not output.
LogText(l) == Trim(SubSeq(l, 1, Len(l) - 1))
LogsOf(lines) ==
  FlattenSeq([i \in 1..Len(lines) |->
    IF is_smp_line(lines[i]) \/ LogText(lines[i]) = <<>> THEN <<>> ELSE <<LogText(lines[i])>>])

(* The client sees the SMP frames the device wrote, whole and in order,    *)
(* and nothing else, however the reads cut the bytes (LogDemux, "so the    *)
(* SMP client sees only SMP bytes"); none is lost on the way.              *)
FramesKept ==
  LET seen == got \o pending \o FlattenSeq(queue)
  IN IsPrefix(seen, FramesOf(sent)) /\ (CaughtUp => seen = FramesOf(sent))

(* The sink gets every log line, whole, in order, without its ending, and  *)
(* no frame: a container's log is what its firmware printed.               *)
LogsKept == IsPrefix(out, LogsOf(sent)) /\ (CaughtUp => out = LogsOf(sent))

(* Once drop has returned the port is closed, so that the reconnect after  *)
(* a reset does not meet its own lock ("the close-before-reopen ordering   *)
(* a property of the type rather than a race").                            *)
ClosedMeansFree == client = "closed" => handles = {}

(* Dropping the client comes to an end: joining the reader does not hang.  *)
DropReturns == client = "dropping" ~> client = "closed"

(* A device that leaves is reported to whoever keeps reading, which is     *)
(* what a failed heartbeat comes from.                                     *)
DetachReported == (gone /\ client = "open") ~> (result = "eof" \/ client # "open")
=============================================================================
