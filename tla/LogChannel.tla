----------------------------- MODULE LogChannel -----------------------------
(***************************************************************************)
(* The log channel of a container: an application that prints, the serial  *)
(* port or the CAN frames that carry it (CanLogReader), and pump_logs, the *)
(* thread that turns bytes into lines on stdout.                           *)
(***************************************************************************)
EXTENDS Naturals, Sequences, FiniteSets, SequencesExt

CONSTANTS Lines,        \* what the application prints, each ending in a newline
          FrameSize,    \* bytes in a CAN frame, or in what a serial port has ready
          BufSize,      \* size of the buffer that CanLogReader::read is given
          MaxPrinted,   \* bound: lines printed
          MaxDropped,   \* bound: frames dropped by the board or on the bus
          MaxForeign,   \* bound: frames that are not the log's, or are empty
          MaxSilences   \* bound: hours in which nothing is printed

(* Bytes: "a" for text, "hi" and "lo" for the two bytes of a character     *)
(* that takes two, "nl", and "bin" for a byte that is in no text.          *)
Byte == {"a", "hi", "lo", "nl", "bin"}

ASSUME LogAssumption ==
  /\ Lines \subseteq Seq(Byte \ {"bin"}) \ {<<>>}
  /\ \A l \in Lines : \A i \in 1..Len(l) : l[i] = "nl" <=> i = Len(l)
  /\ FrameSize \in Nat \ {0} /\ BufSize \in Nat \ {0}
  /\ {MaxPrinted, MaxDropped, MaxForeign, MaxSilences} \subseteq Nat

VARIABLES
  source,    \* LogSource: "Serial" or "Can"
  printed,   \* history: the lines printed
  out,       \* bytes the board has not sent yet
  state,     \* the pump: "new", "bound" (no filter yet), "open", "closed" before
             \* it read or with the process, "ended" with Ok or "failed" with an error
  gone,      \* the board is unplugged, or the CAN interface is down
  queue,     \* the kernel's queue of what has arrived
  pending, at, \* CanLogReader
  held,      \* BufReader's buffer
  partial,   \* the line being read
  passed,    \* history: what was taken off the channel, [shown, text]
  arrived,   \* history: bytes that have reached the queue
  dropped, foreign, silences

readerVars == <<pending, at, held, partial, passed>>
faultVars == <<gone, dropped, foreign, silences>>
vars == <<source, printed, out, state, queue, readerVars, arrived, faultVars>>

TypeOK ==
  /\ source \in {"Serial", "Can"} /\ gone \in BOOLEAN
  /\ state \in {"new", "bound", "open", "closed", "ended", "failed"}
  /\ printed \in Seq(Lines) /\ out \in Seq(Byte) /\ queue \in Seq(Seq(Byte))
  /\ pending \in Seq(Byte) /\ at \in 0..Len(pending) /\ Len(pending) <= FrameSize
  /\ held \in Seq(Byte) /\ Len(held) <= BufSize /\ partial \in Seq(Byte \ {"nl"})
  /\ passed \in Seq([shown : BOOLEAN, text : Seq(Byte)]) /\ arrived \in Seq(Byte)
  /\ dropped \in 0..MaxDropped /\ foreign \in 0..MaxForeign /\ silences \in 0..MaxSilences

Init ==
  /\ source \in {"Serial", "Can"} /\ printed = <<>> /\ out = <<>> /\ state = "new" /\ gone = FALSE
  /\ queue = <<>> /\ pending = <<>> /\ at = 0 /\ held = <<>> /\ partial = <<>>
  /\ passed = <<>> /\ arrived = <<>> /\ dropped = 0 /\ foreign = 0 /\ silences = 0

-----------------------------------------------------------------------------
(* The board and the bus *)

Emit(l) ==
  /\ Len(printed) < MaxPrinted
  /\ printed' = Append(printed, l) /\ out' = out \o l
  /\ UNCHANGED <<source, state, queue, readerVars, arrived, faultVars>>

Listening == state \in {"bound", "open"}

Arrive(bytes) ==
  IF Listening THEN queue' = Append(queue, bytes) /\ arrived' = arrived \o bytes
               ELSE UNCHANGED <<queue, arrived>>

\* The next bytes go out; raw frames are sent whether or not anyone listens.
Transmit ==
  \E n \in 1..FrameSize :
    /\ n <= Len(out) /\ ~gone
    /\ out' = SubSeq(out, n + 1, Len(out)) /\ Arrive(SubSeq(out, 1, n))
    /\ UNCHANGED <<source, printed, state, readerVars, faultVars>>

\* "The device drops what it cannot send."
Drop ==
  \E n \in 1..FrameSize :
    /\ source = "Can" /\ n <= Len(out) /\ dropped < MaxDropped
    /\ out' = SubSeq(out, n + 1, Len(out)) /\ dropped' = dropped + 1
    /\ UNCHANGED <<source, printed, state, queue, readerVars, arrived, gone, foreign, silences>>

(* A frame that is no piece of the log: any other frame of the bus while   *)
(* there is no filter; later a remote frame, or one with an extended       *)
(* identifier that ends in the log's, since the filter's mask has neither  *)
(* flag; or a frame of the log identifier without a byte.                  *)
Foreign ==
  /\ source = "Can" /\ Listening /\ ~gone /\ foreign < MaxForeign
  /\ \E bytes \in {<<"bin">>, <<"a">>, <<>>} : Arrive(bytes)
  /\ foreign' = foreign + 1
  /\ UNCHANGED <<source, printed, out, state, readerVars, gone, dropped, silences>>

\* The board is unplugged, or the interface is taken down, for good.
Unplug ==
  /\ ~gone /\ gone' = TRUE
  /\ UNCHANGED <<source, printed, out, state, queue, readerVars, arrived, dropped, foreign, silences>>

-----------------------------------------------------------------------------
(* Opening the channel *)

(* SerialChannel::open, or the socket and the bind of CanLogReader::open.  *)
(* From then on the socket takes every frame on the bus.  A CAN interface  *)
(* may be bound while it is down.                                          *)
Bind ==
  /\ state = "new" /\ (source = "Serial" => ~gone)
  /\ state' = IF source = "Serial" THEN "open" ELSE "bound"
  /\ UNCHANGED <<source, printed, out, queue, readerVars, arrived, faultVars>>

\* The filter, "AFTER bind, not before", and the receive timeout.
Filter ==
  /\ state = "bound" /\ state' = "open"
  /\ UNCHANGED <<source, printed, out, queue, readerVars, arrived, faultVars>>

\* Any call of open fails: the pump ends before it has read anything.
OpenFails ==
  /\ state \in {"new", "bound"} /\ state' = "closed"
  /\ UNCHANGED <<source, printed, out, queue, readerVars, arrived, faultVars>>

-----------------------------------------------------------------------------
(* pump_logs *)

Least(a, b) == IF a < b THEN a ELSE b

Exhausted == at = Len(pending)
Frame == IF Exhausted THEN Head(queue) ELSE pending
From == IF Exhausted THEN 0 ELSE at

\* Mutant: what did not fit into the buffer is forgotten.
CanReadForgets ==
  /\ source = "Can" /\ (~Exhausted \/ (queue # <<>> /\ ~gone))
  /\ queue' = IF Exhausted THEN Tail(queue) ELSE queue
  /\ pending' = Frame /\ at' = Len(Frame)
  /\ held' = SubSeq(Frame, From + 1, Least(From + BufSize, Len(Frame)))

\* Mutant: the next frame is read once the buffer is empty, which it never is.
CanReadOnce ==
  /\ source = "Can" /\ (~Exhausted \/ (pending = <<>> /\ queue # <<>> /\ ~gone))
  /\ queue' = IF Exhausted THEN Tail(queue) ELSE queue
  /\ pending' = Frame /\ at' = Least(From + BufSize, Len(Frame))
  /\ held' = SubSeq(Frame, From + 1, at')

(* CanLogReader::read: what the last frame left over, or else another      *)
(* frame; as much of it as the buffer takes.  A socket whose interface is  *)
(* down reports that before it gives a frame.                              *)
CanRead ==
  /\ source = "Can" /\ (~Exhausted \/ (queue # <<>> /\ ~gone))
  /\ queue' = IF Exhausted THEN Tail(queue) ELSE queue
  /\ pending' = Frame /\ at' = Least(From + BufSize, Len(Frame))
  /\ held' = SubSeq(Frame, From + 1, at')

\* A serial port gives what is there, until it hangs up.
SerialRead ==
  /\ source = "Serial" /\ queue # <<>> /\ ~gone
  /\ LET bytes == Head(queue)
         n == Least(BufSize, Len(bytes))
     IN /\ held' = SubSeq(bytes, 1, n)
        /\ queue' = IF n = Len(bytes) THEN Tail(queue)
                    ELSE <<SubSeq(bytes, n + 1, Len(bytes))>> \o Tail(queue)
  /\ UNCHANGED <<pending, at>>

IsText(bytes) ==
  /\ \A i \in 1..Len(bytes) : bytes[i] # "bin"
  /\ \A i \in 1..Len(bytes) : bytes[i] = "hi" => i < Len(bytes) /\ bytes[i + 1] = "lo"
  /\ \A i \in 1..Len(bytes) : bytes[i] = "lo" => i > 1 /\ bytes[i - 1] = "hi"

\* The bytes up to the first newline of the buffer end a line.
Ends(i) == held[i] = "nl" /\ \A j \in 1..i - 1 : held[j] # "nl"

(* A line is shown, without the newline that the history keeps, if it is   *)
(* text, and ends the pump if it is not.                                   *)
Pass(text) ==
  /\ passed' = Append(passed, [shown |-> IsText(text), text |-> text])
  /\ state' = IF IsText(text) THEN "open" ELSE "failed"

(* A read that gives no byte is an end of file: what has been gathered is  *)
(* the last line, and without it lines() ends, and the pump with Ok.       *)
EndOfFile ==
  IF partial = <<>> THEN state' = "ended" /\ UNCHANGED <<partial, passed>>
                    ELSE Pass(partial) /\ partial' = <<>>

\* BufReader::fill_buf, when its buffer is used up; an empty frame is an end of file.
Fill ==
  /\ state = "open" /\ held = <<>>
  /\ CanRead \/ SerialRead
  /\ IF held' = <<>> THEN EndOfFile ELSE UNCHANGED <<state, partial, passed>>
  /\ UNCHANGED <<source, printed, out, arrived, faultVars>>

\* read_line returns an error and forgets what it had of the line.
GiveUp ==
  /\ partial' = <<>>
  /\ passed' = IF partial = <<>> THEN passed ELSE Append(passed, [shown |-> FALSE, text |-> partial])

(* The read of a port that hung up, or of a socket whose interface went    *)
(* down, is an error that the pump does not forgive; a port may report an  *)
(* end of file instead.                                                    *)
Hangup ==
  /\ state = "open" /\ held = <<>> /\ gone /\ (source = "Can" => Exhausted)
  /\ (GiveUp /\ state' = "failed") \/ (source = "Serial" /\ EndOfFile)
  /\ UNCHANGED <<source, printed, out, queue, pending, at, held, arrived, faultVars>>

\* Mutant: each buffer is checked on its own.
GatherChecks ==
  /\ partial' = partial \o held /\ held' = <<>>
  /\ state' = IF IsText(held) THEN "open" ELSE "failed"
  /\ UNCHANGED passed

Gather == partial' = partial \o held /\ held' = <<>> /\ UNCHANGED <<passed, state>>

\* Mutant: only the buffer with the newline makes the line.
LineAlone(i) ==
  Pass(SubSeq(held, 1, i)) /\ partial' = <<>> /\ held' = SubSeq(held, i + 1, Len(held))

Line(i) ==
  /\ Pass(partial \o SubSeq(held, 1, i))
  /\ partial' = <<>> /\ held' = SubSeq(held, i + 1, Len(held))

\* read_line: bytes are gathered up to a newline.
Scan ==
  /\ state = "open" /\ held # <<>>
  /\ \/ (\A i \in 1..Len(held) : held[i] # "nl") /\ Gather
     \/ \E i \in 1..Len(held) : Ends(i) /\ Line(i)
  /\ UNCHANGED <<source, printed, out, queue, pending, at, arrived, faultVars>>

(* An hour without a byte (the board has sent what it printed).  A serial  *)
(* port reports TimedOut, and the pump goes on with the next line; the     *)
(* socket's error is WouldBlock, and ends it.                              *)
Silence ==
  /\ state = "open" /\ out = <<>> /\ held = <<>> /\ queue = <<>> /\ Exhausted /\ ~gone
  /\ silences < MaxSilences /\ silences' = silences + 1
  /\ GiveUp /\ state' = IF source = "Can" THEN "failed" ELSE "open"
  /\ UNCHANGED <<source, printed, out, queue, pending, at, held, arrived, gone, dropped, foreign>>

\* The proxy returns from stay_resident, and the process ends with the thread.
Exit ==
  /\ state \notin {"closed", "ended", "failed"} /\ state' = "closed"
  /\ UNCHANGED <<source, printed, out, queue, readerVars, arrived, faultVars>>

Next ==
  \/ \E l \in Lines : Emit(l)
  \/ Transmit \/ Drop \/ Foreign \/ Unplug \/ Bind \/ Filter \/ OpenFails
  \/ Fill \/ Scan \/ Hangup \/ Silence \/ Exit

Spec == Init /\ [][Next]_vars

\* The pump's thread runs.
FairSpec == Spec /\ WF_vars(Bind \/ Filter \/ Fill \/ Scan \/ Hangup)

-----------------------------------------------------------------------------
(* Properties *)

\* Lines with their newlines; one that was given up or cut off has none.
Taken == FlattenSeq([k \in 1..Len(passed) |-> passed[k].text])

(* Between the kernel's queue and stdout no byte is lost, repeated or      *)
(* moved, though it passes a frame, a cursor, a buffer and a line.         *)
NothingLostOnTheWay ==
  arrived = Taken \o partial \o held \o SubSeq(pending, at + 1, Len(pending)) \o FlattenSeq(queue)

(* The lines that end in a newline are the lines that were printed, in     *)
(* order and byte for byte, if nothing was dropped or mixed in.  The first *)
(* may be the end of one, and lines printed before the pump listened are   *)
(* missing.  (A line that the board's leaving cuts off has no newline.)    *)
ShownAsPrinted ==
  dropped = 0 /\ foreign = 0 /\ (\A k \in 1..Len(passed) : Last(passed[k].text) = "nl") =>
    \E skip \in 0..Len(printed) :
      \A k \in 1..Len(passed) :
        /\ skip + k <= Len(printed)
        /\ IF k > 1 THEN passed[k].text = printed[skip + k]
           ELSE IsSuffix(passed[1].text, printed[skip + 1])

\* The pump began to listen in the middle of a character.
JoinedMidway == arrived # <<>> /\ arrived[1] = "lo"

(* What ends the pump.  It returns Ok only for an empty frame or a port    *)
(* that hung up, and an error only for a frame that went missing or was    *)
(* not the log's, a character it came too late for, an hour of silence on  *)
(* CAN, or a port or interface that went away.  A character that frames,   *)
(* cursor or buffer split, or a quiet serial port, is no cause.            *)
EndsForACause ==
  /\ state = "ended" => foreign > 0 \/ (source = "Serial" /\ gone)
  /\ state = "failed" => \/ dropped > 0 \/ foreign > 0 \/ JoinedMidway \/ gone
                         \/ source = "Can" /\ silences > 0

\* Every line that reaches the host comes out, unless the pump has ended.
LinesComeOut ==
  \A n \in 1..MaxPrinted :
    Len(SelectSeq(arrived, LAMBDA b : b = "nl")) >= n
      ~> Len(SelectSeq(passed, LAMBDA p : p.shown)) >= n \/ ~Listening

(* "A dropped frame shows up as a mangled line": it does not end the log.  *)
DropsOnlyMangle == state = "failed" => foreign > 0 \/ silences > 0 \/ JoinedMidway \/ gone

(* What the reader hands on is "the device's console output": frames of    *)
(* the log identifier, which "has exactly one sender".                     *)
OnlyLogFrames == \A i \in 1..Len(pending) : pending[i] # "bin"
=============================================================================
