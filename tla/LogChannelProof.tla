-------------------------- MODULE LogChannelProof --------------------------
(***************************************************************************)
(* The log channel, for any lines, frame and buffer sizes: the reader's    *)
(* cursor stays inside the frame it holds; no byte is lost on its way to   *)
(* stdout; the lines that come out are those that were printed; and the    *)
(* pump ends only for a cause.  Sequences are joined by Cat, which is \o   *)
(* under a name of its own, so that a proof can leave it unexpanded.       *)
(***************************************************************************)
EXTENDS LogChannel, SequenceTheorems, WellFoundedInduction, TLAPS

\* Every entry of the queue is a frame's worth of bytes.
Frames == {q \in Seq(Byte) : Len(q) <= FrameSize}

Inv == TypeOK /\ queue \in Seq(Frames)

LEMMA Sizes ==
  /\ FrameSize \in Nat \ {0} /\ BufSize \in Nat \ {0} /\ Lines \subseteq Seq(Byte)
  /\ MaxPrinted \in Nat /\ MaxDropped \in Nat /\ MaxForeign \in Nat /\ MaxSilences \in Nat
<1>1. Byte \ {"bin"} \subseteq Byte
  OBVIOUS
<1>2. Seq(Byte \ {"bin"}) \subseteq Seq(Byte)
  BY <1>1, SeqMonotonic
<1> QED BY <1>2, LogAssumption

LEMMA Cut ==
  ASSUME NEW S, NEW s \in Seq(S), NEW m \in Nat \ {0}, NEW n \in Nat, n <= Len(s)
  PROVE  /\ SubSeq(s, m, n) \in Seq(S)
         /\ Len(SubSeq(s, m, n)) = IF m <= n THEN n - m + 1 ELSE 0
         /\ \A i \in 1..n - m + 1 : SubSeq(s, m, n)[i] = s[m + i - 1]
<1>1. \A i \in m..n : s[i] \in S
  BY ElementOfSeq, LenProperties
<1> QED BY <1>1, SubSeqProperties

LEMMA QueueType ==
  ASSUME queue \in Seq(Frames), queue # <<>>
  PROVE  Head(queue) \in Frames /\ Tail(queue) \in Seq(Frames)
BY HeadTailProperties

LEMMA FramesAreBytes == Seq(Frames) \subseteq Seq(Seq(Byte))
<1>1. Frames \subseteq Seq(Byte)
  BY DEF Frames
<1> QED BY <1>1, SeqMonotonic

LEMMA InitInv == Init => Inv
<1> SUFFICES ASSUME Init PROVE Inv
  OBVIOUS
<1>1. /\ <<>> \in Seq(Lines) /\ <<>> \in Seq(Byte) /\ <<>> \in Seq(Seq(Byte))
      /\ <<>> \in Seq(Byte \ {"nl"}) /\ <<>> \in Seq([shown : BOOLEAN, text : Seq(Byte)])
      /\ <<>> \in Seq(Frames) /\ Len(<<>>) = 0
  OBVIOUS
<1>2. /\ 0 \in 0..MaxDropped /\ 0 \in 0..MaxForeign /\ 0 \in 0..MaxSilences
      /\ 0 <= FrameSize /\ 0 <= BufSize
  BY Sizes
<1>3. gone \in BOOLEAN
  BY DEF Init
<1>4. /\ source \in {"Serial", "Can"} /\ state = "new" /\ printed = <<>> /\ out = <<>> /\ queue = <<>>
      /\ pending = <<>> /\ at = 0 /\ held = <<>> /\ partial = <<>> /\ passed = <<>> /\ arrived = <<>>
      /\ dropped = 0 /\ foreign = 0 /\ silences = 0
  BY DEF Init
<1> QED BY <1>1, <1>2, <1>3, <1>4 DEF Inv, TypeOK

LEMMA StrayFrames == {<<"bin">>, <<"a">>, <<>>} \subseteq Frames
<1>1. <<"bin">> \in Frames /\ <<"a">> \in Frames
  BY Sizes DEF Frames, Byte
<1>2. <<>> \in Seq(Byte) /\ Len(<<>>) = 0
  OBVIOUS
<1>3. <<>> \in Frames
  BY <1>2, Sizes DEF Frames
<1> QED BY <1>1, <1>3

\* What reaches the host, or is dropped, is a frame's worth.
LEMMA ArriveType ==
  ASSUME Inv, NEW bytes \in Frames, Arrive(bytes)
  PROVE  queue' \in Seq(Frames) /\ queue' \in Seq(Seq(Byte)) /\ arrived' \in Seq(Byte)
<1>1. bytes \in Seq(Byte) /\ queue \in Seq(Frames) /\ arrived \in Seq(Byte)
  BY DEF Frames, Inv, TypeOK
<1>2. Append(queue, bytes) \in Seq(Frames) /\ arrived \o bytes \in Seq(Byte)
  BY <1>1, AppendProperties, ConcatProperties
<1>3. queue' \in {queue, Append(queue, bytes)} /\ arrived' \in {arrived, arrived \o bytes}
  BY DEF Arrive
<1> QED BY <1>1, <1>2, <1>3, FramesAreBytes

LEMMA BoardStep ==
  ASSUME Inv, Transmit \/ Drop \/ Foreign \/ \E l \in Lines : Emit(l)
  PROVE  Inv'
<1>1. out \in Seq(Byte) /\ Len(out) \in Nat
  BY LenProperties DEF Inv, TypeOK
<1>2. \A n \in 1..FrameSize : n <= Len(out) =>
        SubSeq(out, 1, n) \in Frames /\ SubSeq(out, n + 1, Len(out)) \in Seq(Byte)
  <2> SUFFICES ASSUME NEW n \in 1..FrameSize, n <= Len(out)
               PROVE  SubSeq(out, 1, n) \in Frames /\ SubSeq(out, n + 1, Len(out)) \in Seq(Byte)
    OBVIOUS
  <2>1. n \in Nat \ {0} /\ n + 1 \in Nat \ {0} /\ n <= FrameSize
    BY Sizes
  <2>2. SubSeq(out, 1, n) \in Seq(Byte) /\ Len(SubSeq(out, 1, n)) = n
    BY <1>1, <2>1, Cut
  <2>3. SubSeq(out, n + 1, Len(out)) \in Seq(Byte)
    BY <1>1, <2>1, Cut
  <2> QED BY <2>1, <2>2, <2>3 DEF Frames
<1>3. CASE Transmit
  <2>1. PICK n \in 1..FrameSize :
          /\ n <= Len(out)
          /\ out' = SubSeq(out, n + 1, Len(out)) /\ Arrive(SubSeq(out, 1, n))
          /\ UNCHANGED <<source, printed, state, readerVars, faultVars>>
    BY <1>3 DEF Transmit
  <2>2. out' \in Seq(Byte) /\ SubSeq(out, 1, n) \in Frames
    BY <1>2, <2>1
  <2>3. queue' \in Seq(Frames) /\ queue' \in Seq(Seq(Byte)) /\ arrived' \in Seq(Byte)
    BY <2>1, <2>2, ArriveType
  <2> QED BY <2>1, <2>2, <2>3 DEF Inv, TypeOK, readerVars, faultVars
<1>4. CASE Drop
  <2>1. out' \in Seq(Byte)
    BY <1>2, <1>4 DEF Drop
  <2>2. dropped' \in 0..MaxDropped
    <3>1. dropped \in 0..MaxDropped /\ dropped < MaxDropped /\ dropped' = dropped + 1
      BY <1>4 DEF Drop, Inv, TypeOK
    <3> QED BY <3>1, Sizes
  <2> QED BY <1>4, <2>1, <2>2 DEF Drop, Inv, TypeOK, readerVars
<1>5. CASE Foreign
  <2>1. PICK b \in {<<"bin">>, <<"a">>, <<>>} : Arrive(b)
    BY <1>5 DEF Foreign
  <2>2. b \in Frames
    BY StrayFrames
  <2>3. queue' \in Seq(Frames) /\ queue' \in Seq(Seq(Byte)) /\ arrived' \in Seq(Byte)
    BY <2>1, <2>2, ArriveType
  <2>4. foreign' \in 0..MaxForeign
    <3>1. foreign \in 0..MaxForeign /\ foreign < MaxForeign /\ foreign' = foreign + 1
      BY <1>5 DEF Foreign, Inv, TypeOK
    <3> QED BY <3>1, Sizes
  <2> QED BY <1>5, <2>3, <2>4 DEF Foreign, Inv, TypeOK, readerVars
<1>6. CASE \E l \in Lines : Emit(l)
  <2>1. PICK l \in Lines : Emit(l)
    BY <1>6
  <2>2. printed' \in Seq(Lines)
    BY <2>1, AppendProperties DEF Emit, Inv, TypeOK
  <2>3. out' \in Seq(Byte)
    BY <1>1, <2>1, ConcatProperties, Sizes DEF Emit
  <2> QED BY <2>1, <2>2, <2>3 DEF Emit, Inv, TypeOK, readerVars, faultVars
<1> QED BY <1>3, <1>4, <1>5, <1>6

\* The cursor stays in the frame, and the buffer gets what it can take.
LEMMA CanReadType ==
  ASSUME Inv, CanRead
  PROVE  /\ queue' \in Seq(Frames) /\ pending' \in Frames
         /\ at' \in 0..Len(pending') /\ held' \in Seq(Byte) /\ Len(held') <= BufSize
<1>1. /\ queue \in Seq(Frames) /\ pending \in Frames /\ at \in 0..Len(pending)
      /\ Len(pending) \in Nat
  BY LenProperties DEF Inv, TypeOK, Frames
<1>2. Exhausted => queue # <<>>
  BY DEF CanRead
<1>3. Frame \in Frames /\ queue' \in Seq(Frames)
  BY <1>1, <1>2, QueueType DEF CanRead, Frame
<1>4. Frame \in Seq(Byte) /\ Len(Frame) \in Nat
  BY <1>3, LenProperties DEF Frames
<1>5. From \in 0..Len(Frame)
  BY <1>1, <1>4 DEF From, Frame
<1>6. /\ at' = Least(From + BufSize, Len(Frame)) /\ pending' = Frame
      /\ held' = SubSeq(Frame, From + 1, at')
  BY DEF CanRead
<1>7. at' \in 0..Len(Frame) /\ at' <= From + BufSize /\ From + 1 \in Nat \ {0}
  BY <1>4, <1>5, <1>6, Sizes DEF Least
<1>8. held' \in Seq(Byte) /\ Len(held') = IF From + 1 <= at' THEN at' - (From + 1) + 1 ELSE 0
  BY <1>4, <1>6, <1>7, Cut
<1>9. Len(held') <= BufSize
  <2>1. From \in Nat /\ at' \in Nat /\ BufSize \in Nat
    BY <1>4, <1>5, <1>7, Sizes
  <2>2. CASE From + 1 <= at'
    <3>1. Len(held') = at' - From
      BY <1>8, <2>1, <2>2
    <3>2. at' - From <= BufSize
      <4>1. at' <= From + BufSize
        BY <1>7
      <4>2. \A a, b, c \in Nat : a <= b + c => a - b <= c
        OBVIOUS
      <4> QED BY <2>1, <4>1, <4>2
    <3> QED BY <3>1, <3>2
  <2>3. CASE ~(From + 1 <= at')
    BY <1>8, <2>1, <2>3
  <2> QED BY <2>2, <2>3
<1> QED BY <1>3, <1>6, <1>7, <1>8, <1>9

LEMMA SerialReadType ==
  ASSUME Inv, SerialRead
  PROVE  queue' \in Seq(Frames) /\ held' \in Seq(Byte) /\ Len(held') <= BufSize
<1> DEFINE bytes == Head(queue)
           n == Least(BufSize, Len(bytes))
<1>1. queue \in Seq(Frames) /\ queue # <<>> /\ bytes \in Frames /\ Tail(queue) \in Seq(Frames)
  BY QueueType DEF SerialRead, Inv
<1>2. bytes \in Seq(Byte) /\ Len(bytes) \in Nat /\ Len(bytes) <= FrameSize
  BY <1>1, LenProperties DEF Frames
<1>3. n \in Nat /\ n <= Len(bytes) /\ n <= BufSize /\ n + 1 \in Nat \ {0}
  <2>1. BufSize \in Nat /\ Len(bytes) \in Nat
    BY <1>2, Sizes
  <2>2. n = IF BufSize < Len(bytes) THEN BufSize ELSE Len(bytes)
    BY DEF Least
  <2> HIDE DEF n
  <2> QED BY <2>1, <2>2
<1>4. /\ held' = SubSeq(bytes, 1, n)
      /\ queue' \in {Tail(queue), <<SubSeq(bytes, n + 1, Len(bytes))>> \o Tail(queue)}
  BY DEF SerialRead
<1> HIDE DEF n
<1>5. held' \in Seq(Byte) /\ Len(held') = IF 1 <= n THEN n - 1 + 1 ELSE 0
  BY <1>2, <1>3, <1>4, Cut
<1>6. /\ SubSeq(bytes, n + 1, Len(bytes)) \in Seq(Byte)
      /\ Len(SubSeq(bytes, n + 1, Len(bytes))) <= FrameSize
  <2>1. /\ SubSeq(bytes, n + 1, Len(bytes)) \in Seq(Byte)
        /\ Len(SubSeq(bytes, n + 1, Len(bytes)))
             = IF n + 1 <= Len(bytes) THEN Len(bytes) - (n + 1) + 1 ELSE 0
    BY <1>2, <1>3, Cut
  <2> QED BY <1>2, <1>3, <2>1, Sizes
<1>7. <<SubSeq(bytes, n + 1, Len(bytes))>> \in Seq(Frames)
  BY <1>6 DEF Frames
<1>8. <<SubSeq(bytes, n + 1, Len(bytes))>> \o Tail(queue) \in Seq(Frames)
  BY <1>1, <1>7, ConcatProperties
<1>9. Len(held') <= BufSize
  BY <1>3, <1>5, Sizes
<1> QED BY <1>1, <1>4, <1>5, <1>8, <1>9

LEMMA PassType ==
  ASSUME Inv, NEW text \in Seq(Byte), Pass(text)
  PROVE  /\ passed' \in Seq([shown : BOOLEAN, text : Seq(Byte)])
         /\ state' \in {"open", "failed"}
<1>1. IsText(text) \in BOOLEAN
  BY DEF IsText
<1>2. [shown |-> IsText(text), text |-> text] \in [shown : BOOLEAN, text : Seq(Byte)]
  BY <1>1
<1>3. passed \in Seq([shown : BOOLEAN, text : Seq(Byte)])
  BY DEF Inv, TypeOK
<1> QED BY <1>2, <1>3, AppendProperties DEF Pass

LEMMA PartialType ==
  ASSUME Inv
  PROVE  partial \in Seq(Byte) /\ <<>> \in Seq(Byte \ {"nl"})
<1>1. Seq(Byte \ {"nl"}) \subseteq Seq(Byte)
  BY SeqMonotonic
<1> QED BY <1>1 DEF Inv, TypeOK

LEMMA EndOfFileType ==
  ASSUME Inv, EndOfFile
  PROVE  /\ passed' \in Seq([shown : BOOLEAN, text : Seq(Byte)])
         /\ state' \in {"open", "ended", "failed"} /\ partial' \in Seq(Byte \ {"nl"})
<1>1. CASE partial = <<>>
  BY <1>1 DEF EndOfFile, Inv, TypeOK
<1>2. CASE partial # <<>>
  BY <1>2, PartialType, PassType DEF EndOfFile
<1> QED BY <1>1, <1>2

LEMMA GiveUpType ==
  ASSUME Inv, GiveUp
  PROVE  /\ passed' \in Seq([shown : BOOLEAN, text : Seq(Byte)])
         /\ partial' \in Seq(Byte \ {"nl"})
<1>1. passed \in Seq([shown : BOOLEAN, text : Seq(Byte)])
  BY DEF Inv, TypeOK
<1>2. [shown |-> FALSE, text |-> partial] \in [shown : BOOLEAN, text : Seq(Byte)]
  BY PartialType
<1>3. passed' \in {passed, Append(passed, [shown |-> FALSE, text |-> partial])}
  BY DEF GiveUp
<1>4. Append(passed, [shown |-> FALSE, text |-> partial]) \in Seq([shown : BOOLEAN, text : Seq(Byte)])
  BY <1>1, <1>2, AppendProperties
<1> QED BY <1>1, <1>3, <1>4, PartialType DEF GiveUp

LEMMA FillStep == ASSUME Inv, Fill PROVE Inv'
<1>1. /\ passed' \in Seq([shown : BOOLEAN, text : Seq(Byte)])
      /\ state' \in {"open", "ended", "failed"} /\ partial' \in Seq(Byte \ {"nl"})
  <2>1. CASE held' = <<>>
    BY <2>1, EndOfFileType DEF Fill
  <2>2. CASE held' # <<>>
    BY <2>2 DEF Fill, Inv, TypeOK
  <2> QED BY <2>1, <2>2
<1>2. UNCHANGED <<source, printed, out, arrived, gone, dropped, foreign, silences>>
  BY DEF Fill, faultVars
<1>3. CASE CanRead
  <2>1. /\ queue' \in Seq(Frames) /\ pending' \in Frames
        /\ at' \in 0..Len(pending') /\ held' \in Seq(Byte) /\ Len(held') <= BufSize
    BY <1>3, CanReadType
  <2> QED BY <1>1, <1>2, <2>1, FramesAreBytes DEF Inv, TypeOK, Frames
<1>4. CASE SerialRead
  <2>1. queue' \in Seq(Frames) /\ held' \in Seq(Byte) /\ Len(held') <= BufSize
    BY <1>4, SerialReadType
  <2>2. UNCHANGED <<pending, at>>
    BY <1>4 DEF SerialRead
  <2> QED BY <1>1, <1>2, <2>1, <2>2, FramesAreBytes DEF Inv, TypeOK
<1> QED BY <1>3, <1>4 DEF Fill

LEMMA ScanStep == ASSUME Inv, Scan PROVE Inv'
<1>1. /\ held \in Seq(Byte) /\ Len(held) \in Nat /\ Len(held) <= BufSize
      /\ partial \in Seq(Byte \ {"nl"}) /\ partial \in Seq(Byte)
  <2>1. Seq(Byte \ {"nl"}) \subseteq Seq(Byte)
    BY SeqMonotonic
  <2> QED BY <2>1, LenProperties DEF Inv, TypeOK
<1>2. UNCHANGED <<source, printed, out, queue, pending, at, arrived, gone, dropped, foreign, silences>>
  BY DEF Scan, faultVars
<1>3. SUFFICES /\ partial' \in Seq(Byte \ {"nl"}) /\ held' \in Seq(Byte) /\ Len(held') <= BufSize
               /\ passed' \in Seq([shown : BOOLEAN, text : Seq(Byte)])
               /\ state' \in {"open", "failed"}
  BY <1>2, <1>3 DEF Inv, TypeOK
<1>4. CASE (\A i \in 1..Len(held) : held[i] # "nl") /\ Gather
  <2>1. \A i \in 1..Len(held) : held[i] \in Byte \ {"nl"}
    BY <1>1, <1>4, ElementOfSeq
  <2>2. held \in Seq(Byte \ {"nl"})
    <3>1. held = [i \in 1..Len(held) |-> held[i]]
      BY <1>1, LenProperties
    <3> QED BY <1>1, <2>1, <3>1, IsASeq
  <2>3. partial \o held \in Seq(Byte \ {"nl"})
    BY <1>1, <2>2, ConcatProperties
  <2>4. held' = <<>> /\ Len(held') = 0
    BY <1>4 DEF Gather
  <2>5. state' \in {"open", "failed"}
    BY <1>4 DEF Scan, Gather
  <2> QED BY <1>4, <2>3, <2>4, <2>5, Sizes DEF Gather, Inv, TypeOK
<1>5. CASE \E i \in 1..Len(held) : Ends(i) /\ Line(i)
  <2>1. PICK i \in 1..Len(held) : Line(i)
    BY <1>5
  <2>2. i \in Nat \ {0} /\ i <= Len(held) /\ i + 1 \in Nat \ {0}
    BY <1>1
  <2>3. SubSeq(held, 1, i) \in Seq(Byte)
    BY <1>1, <2>2, Cut
  <2>4. partial \o SubSeq(held, 1, i) \in Seq(Byte)
    BY <1>1, <2>3, ConcatProperties
  <2>5. /\ passed' \in Seq([shown : BOOLEAN, text : Seq(Byte)])
        /\ state' \in {"open", "failed"}
    BY <2>1, <2>4, PassType DEF Line
  <2>6. /\ held' \in Seq(Byte)
        /\ Len(held') = IF i + 1 <= Len(held) THEN Len(held) - (i + 1) + 1 ELSE 0
    BY <1>1, <2>1, <2>2, Cut DEF Line
  <2>7. Len(held') <= BufSize
    BY <1>1, <2>2, <2>6, Sizes
  <2>8. partial' = <<>>
    BY <2>1 DEF Line
  <2> QED BY <2>5, <2>6, <2>7, <2>8
<1> QED BY <1>4, <1>5 DEF Scan

LEMMA HangupStep == ASSUME Inv, Hangup PROVE Inv'
<1>1. /\ passed' \in Seq([shown : BOOLEAN, text : Seq(Byte)])
      /\ state' \in {"open", "ended", "failed"} /\ partial' \in Seq(Byte \ {"nl"})
  BY EndOfFileType, GiveUpType DEF Hangup
<1>2. /\ UNCHANGED <<source, printed, out, queue, pending, at, held, arrived>>
      /\ UNCHANGED <<gone, dropped, foreign, silences>>
  BY DEF Hangup, faultVars
<1> QED BY <1>1, <1>2 DEF Inv, TypeOK

LEMMA SilenceStep == ASSUME Inv, Silence PROVE Inv'
<1>1. passed' \in Seq([shown : BOOLEAN, text : Seq(Byte)]) /\ partial' \in Seq(Byte \ {"nl"})
  BY GiveUpType DEF Silence
<1>2. silences' \in 0..MaxSilences
  <2>1. silences \in 0..MaxSilences /\ silences < MaxSilences /\ silences' = silences + 1
    BY DEF Silence, Inv, TypeOK
  <2> QED BY <2>1, Sizes
<1>3. /\ state' \in {"failed", "open"}
      /\ UNCHANGED <<source, printed, out, queue, pending, at, held, arrived, gone, dropped, foreign>>
  BY DEF Silence
<1> QED BY <1>1, <1>2, <1>3 DEF Inv, TypeOK

LEMMA OtherStep == ASSUME Inv, Unplug \/ Bind \/ Filter \/ OpenFails \/ Exit PROVE Inv'
BY DEF Unplug, Bind, Filter, OpenFails, Exit, Inv, TypeOK, readerVars, faultVars

LEMMA Step == ASSUME Inv, [Next]_vars PROVE Inv'
<1>1. CASE UNCHANGED vars
  BY <1>1 DEF Inv, vars, readerVars, faultVars, TypeOK
<1>2. CASE Next
  BY <1>2, BoardStep, FillStep, ScanStep, HangupStep, SilenceStep, OtherStep DEF Next
<1> QED BY <1>1, <1>2

\* A frame that has arrived is a frame's worth of bytes, and types hold.
THEOREM LogInv == Spec => []Inv
BY InitInv, Step, PTL DEF Spec

(* The log channel is type-correct: CanLogReader::read never slices its    *)
(* frame outside its bounds nor writes past the caller's buffer, whatever  *)
(* the sizes of either, and a line of pump_logs never holds a newline.     *)
THEOREM LogTypeOK == Spec => []TypeOK
<1>1. Inv => TypeOK
  BY DEF Inv
<1> QED BY <1>1, LogInv, PTL

-----------------------------------------------------------------------------
(* Concatenation of a sequence of sequences (FlattenSeq), by induction on  *)
(* its length: each induction is over a set, T, of the values for which    *)
(* the claim holds.                                                        *)

\* The least-number principle, stated for sets.
LEMMA Smallest ==
  ASSUME NEW T, T \subseteq Nat, T # {}
  PROVE  \E n \in T : \A m \in T : n <= m
<1> DEFINE R == {ss \in Nat \X Nat : ss[1] < ss[2]}
<1>1. IsWellFoundedOn(R, Nat)
  BY NatLessThanWellFounded DEF OpToRel
<1> HIDE DEF R
<1>2. PICK n \in T : \A m \in T : ~(<<m, n>> \in R)
  BY <1>1, WFMin
<1>3. \A m \in T : <<m, n>> \in R <=> m < n
  BY DEF R
<1>4. \A m \in T : m \in Nat /\ n \in Nat /\ ~(m < n)
  BY <1>2, <1>3
<1>5. \A m \in T : n <= m
  BY <1>4
<1> QED BY <1>5

\* Induction over the naturals, for a set in place of a predicate.
LEMMA Induction ==
  ASSUME NEW S, 0 \in S, \A n \in Nat : n \in S => n + 1 \in S
  PROVE  \A n \in Nat : n \in S
<1> SUFFICES ASSUME Nat \ S # {} PROVE FALSE
  OBVIOUS
<1>1. PICK n \in Nat \ S : \A m \in Nat \ S : n <= m
  BY Smallest
<1>2. n # 0 /\ n - 1 \in Nat /\ ~(n <= n - 1)
  BY <1>1
<1>3. n - 1 \in S
  BY <1>1, <1>2
<1> QED BY <1>2, <1>3

\* Induction over sequences, by Append.
LEMMA SeqInduction ==
  ASSUME NEW S, NEW T, <<>> \in T,
         \A s \in Seq(S), e \in S : s \in T => Append(s, e) \in T
  PROVE  \A s \in Seq(S) : s \in T
<1> DEFINE L == {n \in Nat : \A s \in Seq(S) : Len(s) = n => s \in T}
<1>1. 0 \in L
  BY EmptySeq
<1>2. ASSUME NEW n \in Nat, n \in L PROVE n + 1 \in L
  <2> SUFFICES ASSUME NEW s \in Seq(S), Len(s) = n + 1 PROVE s \in T
    OBVIOUS
  <2>1. s # <<>>
    BY EmptySeq
  <2>2. PICK t \in Seq(S), e \in S : s = Append(t, e)
    BY <2>1, SequenceEmptyOrAppend
  <2>3. Len(t) = n
    BY <2>2, AppendProperties, LenProperties
  <2> QED BY <1>2, <2>2, <2>3
<1> HIDE DEF L
<1>3. \A n \in Nat : n \in L
  BY <1>1, <1>2, Induction
<1> QED BY <1>3, LenProperties DEF L

\* The recurrence FlattenSeq is defined by.
Upto(q, n, f) == \A i \in 1..n : f[i] = IF i = 1 THEN q[i] ELSE f[i - 1] \o q[i]
Flattens(q, f) == f = [i \in 1..Len(q) |-> IF i = 1 THEN q[i] ELSE f[i - 1] \o q[i]]

LEMMA FlattenDef ==
  ASSUME NEW q, Len(q) # 0
  PROVE  FlattenSeq(q) = (CHOOSE f : Flattens(q, f))[Len(q)]
BY DEF FlattenSeq, Flattens

LEMMA FlattensIs ==
  ASSUME NEW q, NEW f, Len(q) \in Nat
  PROVE  Flattens(q, f) => Upto(q, Len(q), f)
<1> SUFFICES ASSUME Flattens(q, f), NEW i \in 1..Len(q)
             PROVE  f[i] = IF i = 1 THEN q[i] ELSE f[i - 1] \o q[i]
  BY DEF Upto
<1> DEFINE e(j) == IF j = 1 THEN q[j] ELSE f[j - 1] \o q[j]
<1>1. f = [j \in 1..Len(q) |-> e(j)]
  BY DEF Flattens
<1> HIDE DEF e
<1>2. f[i] = e(i)
  BY <1>1
<1> QED BY <1>2 DEF e

LEMMA UptoFirst ==
  ASSUME NEW q, NEW n \in Nat, NEW f, Upto(q, n, f), 1 \in 1..n
  PROVE  f[1] = q[1]
BY DEF Upto

LEMMA UptoNext ==
  ASSUME NEW q, NEW n \in Nat, NEW f, Upto(q, n, f), NEW i \in 1..n, i + 1 <= n
  PROVE  f[i + 1] = f[i] \o q[i + 1]
<1> DEFINE j == i + 1
<1>1. j \in 1..n /\ j # 1 /\ j - 1 = i
  OBVIOUS
<1> HIDE DEF j
<1>2. f[j] = f[j - 1] \o q[j]
  BY <1>1 DEF Upto
<1>3. f[j] = f[i] \o q[j]
  BY <1>1, <1>2
<1> QED BY <1>3 DEF j

LEMMA UptoIsOne ==
  ASSUME NEW q, NEW p, NEW n \in Nat, \A i \in 1..n : q[i] = p[i],
         NEW f, NEW g, Upto(q, n, f), Upto(p, n, g)
  PROVE  \A i \in 1..n : f[i] = g[i]
<1> DEFINE T == {i \in Nat : i \in 1..n => f[i] = g[i]}
<1>1. 0 \in T
  OBVIOUS
<1>2. ASSUME NEW i \in Nat, i \in T PROVE i + 1 \in T
  <2> SUFFICES ASSUME i + 1 \in 1..n PROVE f[i + 1] = g[i + 1]
    OBVIOUS
  <2>1. CASE i = 0
    <3>1. 1 \in 1..n /\ i + 1 = 1
      BY <2>1
    <3>2. f[1] = q[1] /\ g[1] = p[1]
      BY <3>1, UptoFirst
    <3>3. q[1] = p[1]
      BY <3>1
    <3> QED BY <3>1, <3>2, <3>3
  <2>2. CASE i # 0
    <3>1. i \in 1..n /\ i + 1 <= n
      BY <2>2
    <3>2. f[i] = g[i]
      BY <1>2, <3>1
    <3>3. f[i + 1] = f[i] \o q[i + 1] /\ g[i + 1] = g[i] \o p[i + 1]
      BY <3>1, UptoNext
    <3> QED BY <3>2, <3>3
  <2> QED BY <2>1, <2>2
<1> HIDE DEF T
<1>3. \A i \in Nat : i \in T
  BY <1>1, <1>2, Induction
<1> QED BY <1>3 DEF T

LEMMA UptoExtends ==
  ASSUME NEW S, NEW q \in Seq(Seq(S)), NEW n \in Nat, n + 1 <= Len(q),
         NEW f \in [1..n -> Seq(S)], Upto(q, n, f)
  PROVE  \E g \in [1..n + 1 -> Seq(S)] : Upto(q, n + 1, g)
<1> DEFINE x == IF n = 0 THEN q[1] ELSE f[n] \o q[n + 1]
           g == [i \in 1..n + 1 |-> IF i = n + 1 THEN x ELSE f[i]]
<1>1. q[n + 1] \in Seq(S) /\ (n = 0 => q[1] \in Seq(S))
  BY ElementOfSeq, LenProperties
<1>2. x \in Seq(S)
  <2>1. CASE n = 0
    BY <1>1, <2>1
  <2>2. CASE n # 0
    <3>1. f[n] \in Seq(S)
      BY <2>2
    <3> QED BY <1>1, <2>2, <3>1, ConcatProperties
  <2> QED BY <2>1, <2>2
<1> HIDE DEF x
<1>3. /\ \A i \in 1..n : g[i] = f[i]
      /\ g[n + 1] = x
      /\ \A i \in 1..n + 1 : i = n + 1 \/ i \in 1..n
  <2>1. \A i \in 1..n + 1 : (i = n + 1 \/ i \in 1..n) /\ n + 1 \notin 1..n /\ n + 1 \in 1..n + 1
    OBVIOUS
  <2>2. \A i \in 1..n : i \in 1..n + 1 /\ i # n + 1
    OBVIOUS
  <2> QED BY <2>1, <2>2
<1>4. g \in [1..n + 1 -> Seq(S)]
  BY <1>2
<1> HIDE DEF g
<1>5. ASSUME NEW i \in 1..n PROVE g[i] = IF i = 1 THEN q[i] ELSE g[i - 1] \o q[i]
  <2>1. i = 1 \/ i - 1 \in 1..n
    OBVIOUS
  <2>2. i # 1 => g[i - 1] = f[i - 1]
    BY <1>3, <2>1
  <2> QED BY <1>3, <2>2 DEF Upto
<1>6. g[n + 1] = IF n + 1 = 1 THEN q[n + 1] ELSE g[n + 1 - 1] \o q[n + 1]
  <2>1. CASE n = 0
    BY <1>3, <2>1 DEF x
  <2>2. CASE n # 0
    <3>1. n \in 1..n /\ n + 1 - 1 = n /\ n + 1 # 1
      BY <2>2
    <3>2. g[n] = f[n]
      BY <1>3, <3>1
    <3> QED BY <1>3, <2>2, <3>1, <3>2 DEF x
  <2> QED BY <2>1, <2>2
<1>7. ASSUME NEW i \in 1..n + 1 PROVE g[i] = IF i = 1 THEN q[i] ELSE g[i - 1] \o q[i]
  <2>1. CASE i = n + 1
    BY <1>6, <2>1
  <2>2. CASE i \in 1..n
    BY <1>5, <2>2
  <2> QED BY <1>3, <2>1, <2>2
<1>8. Upto(q, n + 1, g)
  BY <1>7 DEF Upto
<1> QED BY <1>4, <1>8

LEMMA FlattenExists ==
  ASSUME NEW S, NEW q \in Seq(Seq(S))
  PROVE  \E f \in [1..Len(q) -> Seq(S)] : Flattens(q, f)
<1> DEFINE G(n) == \E f \in [1..n -> Seq(S)] : Upto(q, n, f)
           T == {n \in Nat : n <= Len(q) => G(n)}
<1>0. Len(q) \in Nat
  BY LenProperties
<1>1. G(0)
  <2>1. [i \in 1..0 |-> q] \in [1..0 -> Seq(S)] /\ 1..0 = {}
    OBVIOUS
  <2> QED BY <2>1 DEF Upto
<1>2. ASSUME NEW n \in Nat, G(n), n + 1 <= Len(q) PROVE G(n + 1)
  BY <1>2, UptoExtends
<1> HIDE DEF G
<1>3. 0 \in T /\ \A n \in Nat : n \in T => n + 1 \in T
  BY <1>0, <1>1, <1>2
<1> HIDE DEF T
<1>4. Len(q) \in T
  BY <1>0, <1>3, Induction
<1>5. PICK f \in [1..Len(q) -> Seq(S)] : Upto(q, Len(q), f)
  BY <1>0, <1>4 DEF T, G
<1> DEFINE h == [i \in 1..Len(q) |-> IF i = 1 THEN q[i] ELSE f[i - 1] \o q[i]]
<1>6. f = h
  <2>1. \A i \in 1..Len(q) : f[i] = h[i]
    BY <1>5 DEF Upto
  <2> HIDE DEF h
  <2>2. h = [i \in 1..Len(q) |-> h[i]]
    BY DEF h
  <2> QED BY <2>1, <2>2
<1> QED BY <1>6 DEF Flattens

LEMMA FlattenChosen ==
  ASSUME NEW S, NEW q \in Seq(Seq(S)), q # <<>>
  PROVE  \E f \in [1..Len(q) -> Seq(S)] : Upto(q, Len(q), f) /\ FlattenSeq(q) = f[Len(q)]
<1>1. Len(q) \in Nat \ {0}
  BY EmptySeq
<1>2. PICK g \in [1..Len(q) -> Seq(S)] : Flattens(q, g)
  BY FlattenExists
<1> DEFINE f == CHOOSE h : Flattens(q, h)
<1>3. Flattens(q, f)
  BY <1>2
<1> HIDE DEF f
<1>4. Upto(q, Len(q), f) /\ Upto(q, Len(q), g)
  BY <1>1, <1>2, <1>3, FlattensIs
<1>5. FlattenSeq(q) = f[Len(q)]
  BY <1>1, FlattenDef DEF f
<1>6. \A i \in 1..Len(q) : f[i] = g[i]
  BY <1>1, <1>4, UptoIsOne
<1>7. Len(q) \in 1..Len(q)
  BY <1>1
<1> QED BY <1>2, <1>4, <1>5, <1>6, <1>7

LEMMA FlattenEmpty == FlattenSeq(<<>>) = <<>>
BY DEF FlattenSeq

LEMMA FlattenType ==
  ASSUME NEW S, NEW q \in Seq(Seq(S))
  PROVE  FlattenSeq(q) \in Seq(S)
<1>1. CASE q = <<>>
  <2>1. <<>> \in Seq(S)
    OBVIOUS
  <2> QED BY <1>1, <2>1, FlattenEmpty
<1>2. CASE q # <<>>
  <2>1. PICK f \in [1..Len(q) -> Seq(S)] : FlattenSeq(q) = f[Len(q)]
    BY <1>2, FlattenChosen
  <2>2. Len(q) \in 1..Len(q)
    BY <1>2, EmptySeq
  <2> QED BY <2>1, <2>2
<1> QED BY <1>1, <1>2

LEMMA FlattenAppend ==
  ASSUME NEW S, NEW q \in Seq(Seq(S)), NEW x \in Seq(S)
  PROVE  FlattenSeq(Append(q, x)) = FlattenSeq(q) \o x
<1> DEFINE p == Append(q, x)
<1>1. /\ p \in Seq(Seq(S)) /\ p # <<>> /\ Len(p) = Len(q) + 1 /\ p[Len(q) + 1] = x
      /\ Len(q) \in Nat /\ \A i \in 1..Len(q) : p[i] = q[i]
  BY AppendProperties, LenProperties
<1> HIDE DEF p
<1>2. PICK g : Upto(p, Len(p), g) /\ FlattenSeq(p) = g[Len(p)]
  BY <1>1, FlattenChosen
<1>3. Len(q) + 1 \in 1..Len(p)
  BY <1>1
<1>4. CASE q = <<>>
  <2>1. Len(p) = 1 /\ p[1] = x
    BY <1>1, <1>4
  <2>2. g[1] = x
    <3>1. Upto(p, 1, g) /\ 1 \in 1..1
      BY <1>2, <2>1
    <3>2. g[1] = p[1]
      BY <3>1, UptoFirst
    <3> QED BY <2>1, <3>2
  <2> QED BY <1>2, <1>4, <2>1, <2>2, FlattenEmpty, ConcatEmptySeq DEF p
<1>5. CASE q # <<>>
  <2>1. PICK f : Upto(q, Len(q), f) /\ FlattenSeq(q) = f[Len(q)]
    BY <1>5, FlattenChosen
  <2>2. Len(q) \in 1..Len(q) /\ Len(q) + 1 # 1 /\ Len(q) + 1 - 1 = Len(q)
    BY <1>5, EmptySeq
  <2>3. Upto(p, Len(q), g)
    <3>1. \A i \in 1..Len(q) : i \in 1..Len(p)
      BY <1>1
    <3> QED BY <1>2, <3>1 DEF Upto
  <2>4. f[Len(q)] = g[Len(q)]
    <3>1. Upto(q, Len(q), f) /\ Len(q) \in Nat /\ \A i \in 1..Len(q) : q[i] = p[i]
      BY <1>1, <2>1
    <3>2. \A i \in 1..Len(q) : f[i] = g[i]
      BY <2>3, <3>1, UptoIsOne
    <3> QED BY <2>2, <3>2
  <2>5. g[Len(q) + 1] = g[Len(q)] \o p[Len(q) + 1]
    <3>1. Len(p) \in Nat /\ Len(q) \in 1..Len(p) /\ Len(q) + 1 <= Len(p)
      BY <1>1, <2>2
    <3> QED BY <1>2, <3>1, UptoNext
  <2> QED BY <1>1, <1>2, <2>1, <2>4, <2>5 DEF p
<1> QED BY <1>4, <1>5

\* Concatenation, kept closed: the provers rewrite nested \o's too eagerly.
Cat(s, t) == s \o t

LEMMA CatSeq ==
  ASSUME NEW S, NEW a \in Seq(S), NEW b \in Seq(S)
  PROVE  Cat(a, b) \in Seq(S)
BY ConcatProperties DEF Cat

LEMMA CatAssociative ==
  ASSUME NEW S, NEW a \in Seq(S), NEW b \in Seq(S), NEW c \in Seq(S)
  PROVE  Cat(Cat(a, b), c) = Cat(a, Cat(b, c))
BY ConcatAssociative DEF Cat

LEMMA CatEmpty ==
  ASSUME NEW S, NEW a \in Seq(S)
  PROVE  Cat(a, <<>>) = a /\ Cat(<<>>, a) = a
BY ConcatEmptySeq DEF Cat

LEMMA CatOne ==
  ASSUME NEW S, NEW a \in Seq(S), NEW x \in S
  PROVE  Append(a, x) = Cat(a, <<x>>) /\ <<x>> \in Seq(S)
<1>1. Append(a, x) = a \o <<x>>
  BY AppendIsConcat
<1>2. <<x>> \in Seq(S)
  OBVIOUS
<1> QED BY <1>1, <1>2 DEF Cat

LEMMA FlattenConcat ==
  ASSUME NEW S, NEW q \in Seq(Seq(S)), NEW p \in Seq(Seq(S))
  PROVE  FlattenSeq(q \o p) = FlattenSeq(q) \o FlattenSeq(p)
<1> DEFINE T == {s \in Seq(Seq(S)) : FlattenSeq(q \o s) = FlattenSeq(q) \o FlattenSeq(s)}
<1>1. <<>> \in T
  BY FlattenEmpty, FlattenType, ConcatEmptySeq
<1>2. ASSUME NEW s \in Seq(Seq(S)), NEW e \in Seq(S), s \in T PROVE Append(s, e) \in T
  <2>1. q \o Append(s, e) = Append(q \o s, e) /\ q \o s \in Seq(Seq(S)) /\ Append(s, e) \in Seq(Seq(S))
    <3> DEFINE one == <<e>>
    <3>1. Append(s, e) = Cat(s, one) /\ one \in Seq(Seq(S)) /\ Append(s, e) \in Seq(Seq(S))
      BY CatOne, AppendProperties
    <3>2. Cat(q, s) \in Seq(Seq(S))
      BY CatSeq
    <3>3. Append(Cat(q, s), e) = Cat(Cat(q, s), one)
      BY <3>2, CatOne
    <3> HIDE DEF one
    <3>4. Cat(Cat(q, s), one) = Cat(q, Cat(s, one))
      BY <3>1, CatAssociative
    <3>5. Cat(q, Append(s, e)) = Append(Cat(q, s), e)
      BY <3>1, <3>3, <3>4
    <3> QED BY <3>1, <3>2, <3>5 DEF Cat
  <2>2. FlattenSeq(q \o Append(s, e)) = (FlattenSeq(q) \o FlattenSeq(s)) \o e
    BY <1>2, <2>1, FlattenAppend
  <2>3. FlattenSeq(Append(s, e)) = FlattenSeq(s) \o e
    BY FlattenAppend
  <2>4. FlattenSeq(q) \in Seq(S) /\ FlattenSeq(s) \in Seq(S)
    BY FlattenType
  <2>5. (FlattenSeq(q) \o FlattenSeq(s)) \o e = FlattenSeq(q) \o (FlattenSeq(s) \o e)
    <3>1. Cat(Cat(FlattenSeq(q), FlattenSeq(s)), e) = Cat(FlattenSeq(q), Cat(FlattenSeq(s), e))
      BY <2>4, CatAssociative
    <3> QED BY <3>1 DEF Cat
  <2> QED BY <2>1, <2>2, <2>3, <2>5
<1> HIDE DEF T
<1>3. p \in T
  BY <1>1, <1>2, SeqInduction
<1> QED BY <1>3 DEF T

LEMMA FlattenOne ==
  ASSUME NEW S, NEW x \in Seq(S)
  PROVE  FlattenSeq(<<x>>) = x
<1>1. <<>> \in Seq(Seq(S)) /\ <<x>> = Append(<<>>, x)
  OBVIOUS
<1>2. FlattenSeq(Append(<<>>, x)) = FlattenSeq(<<>>) \o x
  BY <1>1, FlattenAppend
<1>3. <<>> \o x = x
  BY ConcatEmptySeq
<1> QED BY <1>1, <1>2, <1>3, FlattenEmpty

LEMMA FlattenHead ==
  ASSUME NEW S, NEW q \in Seq(Seq(S)), q # <<>>
  PROVE  FlattenSeq(q) = Head(q) \o FlattenSeq(Tail(q))
<1>1. q = <<Head(q)>> \o Tail(q)
  <2>1. Len(q) \in 1..Len(q) /\ 1 \in 1..Len(q)
    BY EmptySeq
  <2> QED BY <2>1, SubSeqRecursiveFirst, SubSeqFull, TailIsSubSeq
<1>2. Head(q) \in Seq(S) /\ Tail(q) \in Seq(Seq(S))
  BY HeadTailProperties
<1>3. <<Head(q)>> \in Seq(Seq(S))
  BY <1>2
<1>4. FlattenSeq(<<Head(q)>> \o Tail(q)) = FlattenSeq(<<Head(q)>>) \o FlattenSeq(Tail(q))
  BY <1>2, <1>3, FlattenConcat
<1>5. FlattenSeq(<<Head(q)>>) = Head(q)
  BY <1>2, FlattenOne
<1> QED BY <1>1, <1>4, <1>5

\* Concatenations regrouped.
LEMMA Regroup ==
  ASSUME NEW S, NEW a \in Seq(S), NEW b \in Seq(S), NEW c \in Seq(S), NEW d \in Seq(S)
  PROVE  Cat(Cat(a, Cat(b, c)), d) = Cat(a, Cat(b, Cat(c, d)))
<1>1. Cat(b, c) \in Seq(S)
  BY CatSeq
<1>2. Cat(Cat(b, c), d) = Cat(b, Cat(c, d))
  BY CatAssociative
<1> QED BY <1>1, <1>2, CatAssociative

\* The first element, moved from one sequence to the end of another.
LEMMA MoveHead ==
  ASSUME NEW S, NEW a \in Seq(S), NEW b \in Seq(S), b # <<>>, NEW c \in Seq(S)
  PROVE  Cat(Append(a, Head(b)), Cat(Tail(b), c)) = Cat(a, Cat(b, c))
<1>1. Head(b) \in S /\ Tail(b) \in Seq(S)
  BY HeadTailProperties
<1> DEFINE h == <<Head(b)>>
           t == Tail(b)
<1>2. b = h \o t
  <2>1. Len(b) \in 1..Len(b) /\ 1 \in 1..Len(b)
    BY EmptySeq
  <2> QED BY <2>1, SubSeqRecursiveFirst, SubSeqFull, TailIsSubSeq
<1>3. Append(a, Head(b)) = Cat(a, h) /\ h \in Seq(S) /\ t \in Seq(S)
  BY <1>1, CatOne
<1> HIDE DEF h, t
<1>4. Cat(t, c) \in Seq(S)
  BY <1>3, CatSeq
<1>5. Cat(Cat(a, h), Cat(t, c)) = Cat(a, Cat(h, Cat(t, c)))
  BY <1>3, <1>4, CatAssociative
<1>6. Cat(h, Cat(t, c)) = Cat(b, c)
  <2>1. b = Cat(h, t)
    BY <1>2 DEF Cat
  <2>2. Cat(Cat(h, t), c) = Cat(h, Cat(t, c))
    BY <1>3, CatAssociative
  <2> QED BY <2>1, <2>2
<1>7. Cat(Append(a, Head(b)), Cat(t, c)) = Cat(a, Cat(b, c))
  BY <1>3, <1>5, <1>6
<1> QED BY <1>7 DEF t

\* A sequence cut in two.
LEMMA CutInTwo ==
  ASSUME NEW S, NEW s \in Seq(S), NEW n \in 1..Len(s)
  PROVE  Cat(SubSeq(s, 1, n), SubSeq(s, n + 1, Len(s))) = s
<1>1. Len(s) \in Nat
  BY LenProperties
<1>2. 1 \in 1..Len(s) + 1 /\ n \in 1 - 1..Len(s) /\ Len(s) \in n..Len(s)
  BY <1>1
<1>3. SubSeq(s, 1, n) \o SubSeq(s, n + 1, Len(s)) = SubSeq(s, 1, Len(s))
  BY <1>2, ConcatAdjacentSubSeq
<1> QED BY <1>3, SubSeqFull DEF Cat

-----------------------------------------------------------------------------
(* No byte is lost on the way *)

Rest == SubSeq(pending, at + 1, Len(pending))
Queued == FlattenSeq(queue)

(* What has not become a line, in the order in which it will.  A serial    *)
(* port has no frame, which is why its bytes cannot overtake one.          *)
Unread == Cat(held, Cat(Rest, Queued))

FlowInv ==
  /\ arrived = Cat(Taken, Cat(partial, Unread))
  /\ source = "Serial" => pending = <<>>

Texts == [k \in 1..Len(passed) |-> passed[k].text]

Entry == [shown : BOOLEAN, text : Seq(Byte)]

LEMMA EntryText == ASSUME NEW q \in Seq(Entry) PROVE \A k \in 1..Len(q) : q[k].text \in Seq(Byte)
<1>1. \A k \in 1..Len(q) : q[k] \in Entry
  BY ElementOfSeq
<1>2. \A e \in Entry : e.text \in Seq(Byte)
  BY DEF Entry
<1> QED BY <1>1, <1>2

LEMMA TakenIs == Taken = FlattenSeq(Texts) /\ Taken' = FlattenSeq(Texts')
BY DEF Taken, Texts

LEMMA FunctionIsSeq ==
  ASSUME NEW S, NEW n \in Nat, NEW f \in [1..n -> S]
  PROVE  f \in Seq(S) /\ Len(f) = n
OBVIOUS

LEMMA FlowTypes ==
  ASSUME Inv
  PROVE  /\ Texts \in Seq(Seq(Byte)) /\ Len(Texts) = Len(passed) /\ Len(passed) \in Nat
         /\ Taken \in Seq(Byte) /\ partial \in Seq(Byte)
         /\ held \in Seq(Byte) /\ Rest \in Seq(Byte) /\ Queued \in Seq(Byte)
         /\ queue \in Seq(Seq(Byte)) /\ out \in Seq(Byte) /\ arrived \in Seq(Byte)
         /\ Unread \in Seq(Byte)
<1>1. Texts \in Seq(Seq(Byte)) /\ Len(Texts) = Len(passed) /\ Len(passed) \in Nat
  <2>1. passed \in Seq(Entry)
    BY DEF Inv, TypeOK, Entry
  <2>2. Len(passed) \in Nat
    BY <2>1, LenProperties
  <2>3. \A k \in 1..Len(passed) : passed[k].text \in Seq(Byte)
    BY <2>1, EntryText
  <2>4. Texts \in [1..Len(passed) -> Seq(Byte)]
    BY <2>3 DEF Texts
  <2> QED BY <2>2, <2>4, FunctionIsSeq
<1>2. Taken \in Seq(Byte)
  BY <1>1, TakenIs, FlattenType
<1>3. partial \in Seq(Byte) /\ held \in Seq(Byte) /\ out \in Seq(Byte) /\ arrived \in Seq(Byte)
  <2>1. Seq(Byte \ {"nl"}) \subseteq Seq(Byte)
    BY SeqMonotonic
  <2> QED BY <2>1 DEF Inv, TypeOK
<1>4. Rest \in Seq(Byte)
  <2>1. pending \in Seq(Byte) /\ at \in 0..Len(pending) /\ Len(pending) \in Nat
    BY LenProperties DEF Inv, TypeOK
  <2> QED BY <2>1, Cut DEF Rest
<1>5. queue \in Seq(Seq(Byte)) /\ Queued \in Seq(Byte)
  BY FlattenType DEF Inv, TypeOK, Queued
<1>6. Unread \in Seq(Byte)
  BY <1>3, <1>4, <1>5, CatSeq DEF Unread
<1> QED BY <1>1, <1>2, <1>3, <1>4, <1>5, <1>6

\* Another line, or the part of one that is cut off.
LEMMA TakenMore ==
  ASSUME Inv, NEW b \in BOOLEAN, NEW t \in Seq(Byte),
         passed' = Append(passed, [shown |-> b, text |-> t])
  PROVE  /\ Taken' = Cat(Taken, t) /\ Len(passed') = Len(passed) + 1
         /\ Texts' = Append(Texts, t)
<1> DEFINE e == [shown |-> b, text |-> t]
<1>1. passed \in Seq(Entry) /\ e \in Entry /\ e.text = t
  BY DEF Inv, TypeOK, Entry
<1>2. Texts \in Seq(Seq(Byte)) /\ Len(Texts) = Len(passed) /\ Len(passed) \in Nat
  BY FlowTypes
<1> HIDE DEF e
<1>3. /\ Len(passed') = Len(passed) + 1 /\ passed'[Len(passed) + 1] = e
      /\ \A k \in 1..Len(passed) : passed'[k] = passed[k]
  BY <1>1, AppendProperties DEF e
<1>4. Texts' = [k \in 1..Len(passed) + 1 |-> passed'[k].text]
  BY <1>3 DEF Texts
<1> DEFINE u == Append(Texts, t)
<1>5. /\ u \in Seq(Seq(Byte)) /\ Len(u) = Len(passed) + 1 /\ u[Len(passed) + 1] = t
      /\ \A k \in 1..Len(passed) : u[k] = Texts[k]
  BY <1>2, AppendProperties
<1> HIDE DEF u
<1>6. Texts' \in Seq(Seq(Byte)) /\ Len(Texts') = Len(passed) + 1
  <2>1. \A k \in 1..Len(passed) : passed[k].text \in Seq(Byte)
    BY <1>1, EntryText
  <2>2. \A k \in 1..Len(passed) + 1 : passed'[k].text \in Seq(Byte)
    <3>1. \A k \in 1..Len(passed) + 1 : k = Len(passed) + 1 \/ k \in 1..Len(passed)
      BY <1>2
    <3> QED BY <1>1, <1>3, <2>1, <3>1
  <2>3. Texts' \in [1..Len(passed) + 1 -> Seq(Byte)]
    BY <1>4, <2>2
  <2>4. Len(passed) + 1 \in Nat
    BY <1>2
  <2> QED BY <2>3, <2>4, FunctionIsSeq
<1>7. \A k \in 1..Len(passed) + 1 : Texts'[k] = u[k]
  <2>1. \A k \in 1..Len(passed) + 1 : k = Len(passed) + 1 \/ k \in 1..Len(passed)
    BY <1>2
  <2>2. \A k \in 1..Len(passed) : Texts[k] = passed[k].text
    BY DEF Texts
  <2> QED BY <1>1, <1>3, <1>4, <1>5, <2>1, <2>2
<1>8. Texts' = u
  BY <1>5, <1>6, <1>7, SeqEqual
<1>9. Taken' = FlattenSeq(u)
  BY <1>8, TakenIs
<1>10. FlattenSeq(u) = FlattenSeq(Texts) \o t
  BY <1>2, FlattenAppend DEF u
<1> QED BY <1>3, <1>8, <1>9, <1>10, TakenIs DEF u, Cat

\* Bytes at the far end.
LEMMA UnreadMore ==
  ASSUME Inv, NEW b \in Seq(Byte), queue' = Append(queue, b), UNCHANGED <<held, pending, at>>
  PROVE  Unread' = Cat(Unread, b)
<1>1. held \in Seq(Byte) /\ Rest \in Seq(Byte) /\ Queued \in Seq(Byte) /\ queue \in Seq(Seq(Byte))
  BY FlowTypes
<1>2. Queued' = Cat(Queued, b)
  BY <1>1, FlattenAppend DEF Queued, Cat
<1>3. Rest' = Rest
  BY DEF Rest
<1>4. Unread' = Cat(held, Cat(Rest, Cat(Queued, b)))
  BY <1>2, <1>3 DEF Unread
<1>5. Cat(Cat(held, Cat(Rest, Queued)), b) = Cat(held, Cat(Rest, Cat(Queued, b)))
  BY <1>1, Regroup
<1> QED BY <1>4, <1>5 DEF Unread

LEMMA ArriveFlow ==
  ASSUME Inv, FlowInv, NEW b \in Seq(Byte), Arrive(b),
         UNCHANGED <<source, held, pending, at, partial, passed>>
  PROVE  FlowInv'
<1>1. /\ Taken \in Seq(Byte) /\ partial \in Seq(Byte) /\ Unread \in Seq(Byte)
  BY FlowTypes
<1>2. Taken' = Taken
  BY DEF Taken
<1>3. CASE Listening
  <2>1. queue' = Append(queue, b) /\ arrived' = Cat(arrived, b)
    BY <1>3 DEF Arrive, Cat
  <2>2. Unread' = Cat(Unread, b)
    BY <2>1, UnreadMore
  <2>3. Cat(Cat(Taken, Cat(partial, Unread)), b) = Cat(Taken, Cat(partial, Cat(Unread, b)))
    BY <1>1, Regroup
  <2> QED BY <1>2, <2>1, <2>2, <2>3 DEF FlowInv
<1>4. CASE ~Listening
  <2>1. UNCHANGED <<queue, arrived>>
    BY <1>4 DEF Arrive
  <2>2. Unread' = Unread
    BY <2>1 DEF Unread, Rest, Queued
  <2> QED BY <1>2, <2>1, <2>2 DEF FlowInv
<1> QED BY <1>3, <1>4

\* The end of a sequence, cut in two.
LEMMA CutEnd ==
  ASSUME NEW S, NEW s \in Seq(S), NEW m \in 0..Len(s), NEW n \in m..Len(s)
  PROVE  Cat(SubSeq(s, m + 1, n), SubSeq(s, n + 1, Len(s))) = SubSeq(s, m + 1, Len(s))
<1>1. Len(s) \in Nat
  BY LenProperties
<1>2. m + 1 \in 1..Len(s) + 1 /\ n \in m + 1 - 1..Len(s) /\ Len(s) \in n..Len(s)
  BY <1>1
<1> DEFINE k == m + 1
<1>3. k \in 1..Len(s) + 1 /\ n \in k - 1..Len(s) /\ Len(s) \in n..Len(s)
  BY <1>2
<1> HIDE DEF k
<1>4. SubSeq(s, k, n) \o SubSeq(s, n + 1, Len(s)) = SubSeq(s, k, Len(s))
  BY <1>3, ConcatAdjacentSubSeq
<1> QED BY <1>4 DEF Cat, k

\* A read moves bytes to the buffer, from the frame or from the queue.
LEMMA CanReadFlow ==
  ASSUME Inv, CanRead, held = <<>>
  PROVE  Unread' = Unread
<1>1. /\ pending \in Seq(Byte) /\ at \in 0..Len(pending) /\ Len(pending) \in Nat
  BY LenProperties DEF Inv, TypeOK
<1>2. /\ Rest \in Seq(Byte) /\ Queued \in Seq(Byte) /\ queue \in Seq(Seq(Byte))
  BY FlowTypes
<1>3. Unread = Cat(Rest, Queued)
  BY <1>2, CatSeq, CatEmpty DEF Unread
<1> DEFINE n == at'
<1>4. /\ held' = SubSeq(Frame, From + 1, n) /\ pending' = Frame
      /\ Rest' = SubSeq(Frame, n + 1, Len(Frame))
  BY DEF CanRead, Rest
<1>5. /\ Frame \in Seq(Byte) /\ Len(Frame) \in Nat /\ From \in 0..Len(Frame)
      /\ n \in From..Len(Frame)
  <2>1. queue # <<>> \/ ~Exhausted
    BY DEF CanRead
  <2>2. Frame \in Seq(Byte)
    BY <1>1, <1>2, <2>1, HeadTailProperties DEF Frame
  <2>3. Len(Frame) \in Nat /\ From \in 0..Len(Frame)
    BY <1>1, <2>2, LenProperties DEF From, Frame
  <2>4. n = Least(From + BufSize, Len(Frame))
    BY DEF CanRead
  <2> HIDE DEF n
  <2>5. n \in From..Len(Frame)
    BY <2>3, <2>4, Sizes DEF Least
  <2> QED BY <2>2, <2>3, <2>5
<1> HIDE DEF n
<1>6. Cat(held', Rest') = SubSeq(Frame, From + 1, Len(Frame))
  <2>1. Cat(SubSeq(Frame, From + 1, n), SubSeq(Frame, n + 1, Len(Frame)))
          = SubSeq(Frame, From + 1, Len(Frame))
    BY <1>5, CutEnd
  <2> QED BY <1>4, <2>1
<1>7. held' \in Seq(Byte) /\ Rest' \in Seq(Byte)
  BY <1>4, <1>5, Cut
<1>8. CASE ~Exhausted
  <2>1. Frame = pending /\ From = at /\ queue' = queue
    BY <1>8 DEF Frame, From, CanRead
  <2>2. Cat(held', Rest') = Rest /\ Queued' = Queued
    BY <1>6, <2>1 DEF Rest, Queued
  <2>3. Cat(Cat(held', Rest'), Queued) = Cat(held', Cat(Rest', Queued))
    BY <1>2, <1>7, CatAssociative
  <2> QED BY <1>3, <2>2, <2>3 DEF Unread
<1>9. CASE Exhausted
  <2>1. Frame = Head(queue) /\ From = 0 /\ queue' = Tail(queue) /\ queue # <<>>
    BY <1>9 DEF Frame, From, CanRead
  <2>2. Rest = <<>>
    BY <1>1, <1>9, SubSeqEmpty DEF Rest, Exhausted
  <2>3. Cat(held', Rest') = Head(queue)
    BY <1>5, <1>6, <2>1, SubSeqFull
  <2>4. Tail(queue) \in Seq(Seq(Byte)) /\ Queued' = FlattenSeq(Tail(queue)) /\ Queued' \in Seq(Byte)
    BY <1>2, <2>1, HeadTailProperties, FlattenType DEF Queued
  <2>5. Queued = Cat(Head(queue), Queued')
    BY <1>2, <2>1, <2>4, FlattenHead DEF Queued, Cat
  <2>6. Cat(Cat(held', Rest'), Queued') = Cat(held', Cat(Rest', Queued'))
    BY <1>7, <2>4, CatAssociative
  <2>7. Unread = Queued
    BY <1>2, <1>3, <2>2, CatEmpty
  <2>8. Unread' = Cat(held', Cat(Rest', Queued'))
    BY DEF Unread
  <2>9. Unread' = Cat(Cat(held', Rest'), Queued')
    BY <2>6, <2>8
  <2>10. Cat(Cat(held', Rest'), Queued') = Cat(Head(queue), Queued')
    BY <2>3
  <2> QED BY <2>5, <2>7, <2>9, <2>10
<1> QED BY <1>8, <1>9

LEMMA SerialReadFlow ==
  ASSUME Inv, SerialRead, held = <<>>, pending = <<>>
  PROVE  Unread' = Unread
<1> DEFINE bytes == Head(queue)
           left == Tail(queue)
           n == Least(BufSize, Len(bytes))
           more == SubSeq(bytes, n + 1, Len(bytes))
<1>1. queue # <<>> /\ bytes \in Seq(Byte) /\ left \in Seq(Seq(Byte)) /\ queue \in Seq(Seq(Byte))
  BY FlowTypes, HeadTailProperties DEF SerialRead
<1>2. /\ held' = SubSeq(bytes, 1, n)
      /\ queue' = IF n = Len(bytes) THEN left ELSE <<more>> \o left
      /\ UNCHANGED <<pending, at>>
  BY DEF SerialRead
<1>3. n \in 1..Len(bytes) \/ (n = 0 /\ Len(bytes) = 0)
  <2>1. Len(bytes) \in Nat
    BY <1>1, LenProperties
  <2> QED BY <2>1, Sizes DEF Least
<1>4. Queued = Cat(bytes, FlattenSeq(left))
  BY <1>1, FlattenHead DEF Queued, Cat
<1> DEFINE l == FlattenSeq(left)
<1>5. l \in Seq(Byte)
  BY <1>1, FlattenType
<1> HIDE DEF n, bytes, left
<1>6. Rest = <<>> /\ Rest' = <<>>
  <2>1. at = 0
    BY DEF Inv, TypeOK
  <2>2. SubSeq(<<>>, 0 + 1, Len(<<>>)) = <<>>
    OBVIOUS
  <2> QED BY <1>2, <2>1, <2>2 DEF Rest
<1>7. Cat(held', Queued') = Queued
  <2>1. CASE n = Len(bytes)
    <3>1. held' = bytes /\ Queued' = l
      BY <1>1, <1>2, <2>1, SubSeqFull DEF Queued
    <3> QED BY <1>4, <3>1
  <2>2. CASE n # Len(bytes)
    <3>1. n \in 1..Len(bytes)
      BY <1>3, <2>2
    <3>2. Cat(held', more) = bytes
      BY <1>1, <1>2, <3>1, CutInTwo
    <3>3. held' \in Seq(Byte) /\ more \in Seq(Byte)
      <4>1. Len(bytes) \in Nat /\ n \in Nat /\ n + 1 \in Nat \ {0} /\ n <= Len(bytes)
        BY <1>1, <3>1, LenProperties
      <4> QED BY <1>1, <1>2, <4>1, Cut
    <3>4. queue' = <<more>> \o left
      BY <1>2, <2>2
    <3> HIDE DEF more
    <3>5. Queued' = Cat(more, l)
      <4>1. <<more>> \in Seq(Seq(Byte)) /\ FlattenSeq(<<more>>) = more
        BY <3>3, FlattenOne
      <4> DEFINE one == <<more>>
      <4> HIDE DEF one
      <4>2. FlattenSeq(one \o left) = FlattenSeq(one) \o FlattenSeq(left)
        BY <1>1, <4>1, FlattenConcat DEF one
      <4> QED BY <3>4, <4>1, <4>2 DEF Queued, Cat, one
    <3>6. Cat(Cat(held', more), l) = Cat(held', Cat(more, l))
      BY <1>5, <3>3, CatAssociative
    <3> QED BY <1>4, <3>2, <3>5, <3>6
  <2> QED BY <2>1, <2>2
<1>8. Queued \in Seq(Byte) /\ Queued' \in Seq(Byte)
  <2>1. queue' \in Seq(Seq(Byte))
    BY SerialReadType, FramesAreBytes
  <2> QED BY <1>1, <2>1, FlattenType DEF Queued
<1>9. Cat(<<>>, Queued) = Queued /\ Cat(<<>>, Queued') = Queued'
  BY <1>8, CatEmpty
<1> QED BY <1>6, <1>7, <1>9 DEF Unread

\* What was gathered of a line leaves the channel without its end.
CutOff ==
  /\ partial' = <<>>
  /\ \/ partial = <<>> /\ passed' = passed
     \/ partial # <<>> /\ \E b \in BOOLEAN : passed' = Append(passed, [shown |-> b, text |-> partial])

LEMMA CutsOff == (GiveUp => CutOff) /\ (EndOfFile => CutOff)
<1>1. IsText(partial) \in BOOLEAN
  BY DEF IsText
<1>2. ASSUME GiveUp PROVE CutOff
  BY <1>2 DEF GiveUp, CutOff
<1>3. ASSUME EndOfFile PROVE CutOff
  BY <1>1, <1>3 DEF EndOfFile, Pass, CutOff
<1> QED BY <1>2, <1>3

LEMMA CutOffFlow ==
  ASSUME Inv, FlowInv, CutOff, Unread' = Unread, UNCHANGED <<source, arrived>>,
         source = "Serial" => pending' = pending
  PROVE  FlowInv'
<1>1. Taken \in Seq(Byte) /\ partial \in Seq(Byte) /\ Unread \in Seq(Byte)
  BY FlowTypes
<1>2. Taken' = Cat(Taken, partial)
  <2>1. CASE partial = <<>>
    <3>1. Taken' = Taken
      BY <2>1 DEF CutOff, Taken
    <3> QED BY <1>1, <2>1, <3>1, CatEmpty
  <2>2. CASE partial # <<>>
    BY <1>1, <2>2, TakenMore DEF CutOff
  <2> QED BY <2>1, <2>2
<1>3. /\ Cat(<<>>, Unread) = Unread
      /\ Cat(Cat(Taken, partial), Unread) = Cat(Taken, Cat(partial, Unread))
  BY <1>1, CatEmpty, CatAssociative
<1> QED BY <1>2, <1>3 DEF FlowInv, CutOff

LEMMA FillFlow == ASSUME Inv, FlowInv, Fill PROVE FlowInv' /\ Unread' = Unread
<1>1. Unread' = Unread
  BY CanReadFlow, SerialReadFlow DEF Fill, FlowInv, SerialRead
<1>2. UNCHANGED <<source, arrived>> /\ (source = "Serial" => pending' = pending)
  BY DEF Fill, CanRead, SerialRead
<1>3. CASE EndOfFile
  BY <1>1, <1>2, <1>3, CutsOff, CutOffFlow
<1>4. CASE ~EndOfFile
  <2>1. UNCHANGED <<passed, partial>>
    BY <1>4 DEF Fill
  <2>2. Taken' = Taken
    BY <2>1 DEF Taken
  <2> QED BY <1>1, <1>2, <2>1, <2>2 DEF FlowInv
<1> QED BY <1>1, <1>3, <1>4

LEMMA CutFlow == ASSUME Inv, FlowInv, Hangup \/ Silence PROVE FlowInv' /\ Unread' = Unread
<1>1. CutOff /\ UNCHANGED <<source, queue, pending, at, held, arrived>>
  BY CutsOff DEF Hangup, Silence
<1>2. Unread' = Unread
  BY <1>1 DEF Unread, Rest, Queued
<1> QED BY <1>1, <1>2, CutOffFlow

\* A buffer without a newline.
LEMMA GatherFlow ==
  ASSUME Inv, Gather, UNCHANGED <<queue, pending, at>>
  PROVE  Cat(partial', Unread') = Cat(partial, Unread)
<1>1. /\ partial \in Seq(Byte) /\ held \in Seq(Byte) /\ Rest \in Seq(Byte) /\ Queued \in Seq(Byte)
  BY FlowTypes
<1> DEFINE t == Cat(Rest, Queued)
<1>2. t \in Seq(Byte)
  BY <1>1, CatSeq
<1>3. partial' = Cat(partial, held) /\ held' = <<>> /\ Rest' = Rest /\ Queued' = Queued
  BY DEF Gather, Cat, Rest, Queued
<1>4. Unread' = Cat(<<>>, t) /\ Unread = Cat(held, t)
  BY <1>3 DEF Unread
<1> HIDE DEF t
<1>5. Unread' = t
  BY <1>2, <1>4, CatEmpty
<1>6. Cat(Cat(partial, held), t) = Cat(partial, Cat(held, t))
  BY <1>1, <1>2, CatAssociative
<1> QED BY <1>3, <1>4, <1>5, <1>6

\* A buffer with one: the line is what has been gathered and what precedes it.
LEMMA LineFlow ==
  ASSUME Inv, NEW i \in 1..Len(held), Line(i), UNCHANGED <<queue, pending, at>>
  PROVE  /\ Cat(partial, SubSeq(held, 1, i)) \in Seq(Byte) /\ partial' = <<>>
         /\ Unread' \in Seq(Byte)
         /\ Cat(partial, Unread) = Cat(Cat(partial, SubSeq(held, 1, i)), Unread')
         /\ Taken' = Cat(Taken, Cat(partial, SubSeq(held, 1, i)))
         /\ Len(passed') = Len(passed) + 1
         /\ Texts' = Append(Texts, Cat(partial, SubSeq(held, 1, i)))
<1>1. /\ partial \in Seq(Byte) /\ held \in Seq(Byte) /\ Rest \in Seq(Byte) /\ Queued \in Seq(Byte)
  BY FlowTypes
<1> DEFINE t == Cat(Rest, Queued)
           h == SubSeq(held, 1, i)
           g == SubSeq(held, i + 1, Len(held))
           x == Cat(partial, h)
<1>2. t \in Seq(Byte) /\ h \in Seq(Byte) /\ g \in Seq(Byte) /\ x \in Seq(Byte)
  <2>1. Len(held) \in Nat /\ i \in Nat /\ i <= Len(held) /\ i + 1 \in Nat \ {0}
    BY <1>1, LenProperties
  <2>2. h \in Seq(Byte) /\ g \in Seq(Byte)
    BY <1>1, <2>1, Cut
  <2> HIDE DEF h
  <2> QED BY <1>1, <2>2, CatSeq
<1>3. held = Cat(h, g)
  BY <1>1, CutInTwo
<1>4. partial' = <<>> /\ held' = g /\ Rest' = Rest /\ Queued' = Queued
  BY DEF Line, Rest, Queued
<1>5. Unread' = Cat(g, t) /\ Unread = Cat(held, t)
  BY <1>4 DEF Unread
<1>6. passed' = Append(passed, [shown |-> IsText(x), text |-> x])
  BY DEF Line, Pass, Cat
<1> HIDE DEF h, g, t
<1>7. Cat(partial, Unread) = Cat(x, Unread')
  <2>1. Cat(Cat(h, g), t) = Cat(h, Cat(g, t)) /\ Cat(g, t) \in Seq(Byte)
    BY <1>2, CatAssociative, CatSeq
  <2>2. Cat(Cat(partial, h), Cat(g, t)) = Cat(partial, Cat(h, Cat(g, t)))
    BY <1>1, <1>2, <2>1, CatAssociative
  <2> QED BY <1>3, <1>5, <2>1, <2>2
<1>8. Unread' \in Seq(Byte)
  BY <1>2, <1>5, CatSeq
<1>9. IsText(x) \in BOOLEAN
  BY DEF IsText
<1> HIDE DEF x
<1>10. Taken' = Cat(Taken, x) /\ Len(passed') = Len(passed) + 1 /\ Texts' = Append(Texts, x)
  BY <1>2, <1>6, <1>9, TakenMore
<1> QED BY <1>2, <1>4, <1>7, <1>8, <1>10 DEF x, h

LEMMA ScanFlow == ASSUME Inv, FlowInv, Scan PROVE FlowInv'
<1>1. UNCHANGED <<source, queue, pending, at, arrived>>
  BY DEF Scan
<1>2. CASE Gather
  <2>1. Cat(partial', Unread') = Cat(partial, Unread)
    BY <1>1, <1>2, GatherFlow
  <2>2. Taken' = Taken
    BY <1>2 DEF Gather, Taken
  <2> QED BY <1>1, <2>1, <2>2 DEF FlowInv
<1>3. ASSUME NEW i \in 1..Len(held), Line(i) PROVE FlowInv'
  <2> DEFINE x == Cat(partial, SubSeq(held, 1, i))
             u == Unread'
  <2>1. x \in Seq(Byte) /\ partial' = <<>> /\ u \in Seq(Byte)
    BY <1>1, <1>3, LineFlow
  <2>2. Cat(partial, Unread) = Cat(x, u)
    BY <1>1, <1>3, LineFlow
  <2>3. Taken' = Cat(Taken, x)
    BY <1>1, <1>3, LineFlow
  <2>4. Taken \in Seq(Byte)
    BY FlowTypes
  <2> HIDE DEF x, u
  <2>5. Cat(<<>>, u) = u /\ Cat(Cat(Taken, x), u) = Cat(Taken, Cat(x, u))
    BY <2>1, <2>4, CatEmpty, CatAssociative
  <2>6. arrived' = Cat(Taken', Cat(partial', u))
    BY <1>1, <2>1, <2>2, <2>3, <2>5 DEF FlowInv
  <2> QED BY <1>1, <2>6 DEF FlowInv, u
<1> QED BY <1>2, <1>3 DEF Scan

LEMMA BoardFlow ==
  ASSUME Inv, FlowInv, Transmit \/ Drop \/ Foreign \/ \E l \in Lines : Emit(l)
  PROVE  FlowInv'
<1>1. CASE Transmit
  <2>1. PICK n \in 1..FrameSize :
          n <= Len(out) /\ Arrive(SubSeq(out, 1, n)) /\ UNCHANGED <<source, state, readerVars>>
    BY <1>1 DEF Transmit
  <2>2. SubSeq(out, 1, n) \in Seq(Byte)
    BY <2>1, FlowTypes, Sizes, Cut
  <2> QED BY <2>1, <2>2, ArriveFlow DEF readerVars
<1>2. CASE Foreign
  <2>1. PICK b \in {<<"bin">>, <<"a">>, <<>>} : Arrive(b)
    BY <1>2 DEF Foreign
  <2>2. b \in Seq(Byte)
    BY StrayFrames DEF Frames
  <2> QED BY <1>2, <2>1, <2>2, ArriveFlow DEF Foreign, readerVars
<1>3. CASE Drop \/ \E l \in Lines : Emit(l)
  <2>1. UNCHANGED <<source, queue, readerVars, arrived>>
    BY <1>3 DEF Drop, Emit
  <2> QED BY <2>1 DEF FlowInv, Unread, Rest, Queued, Taken, readerVars
<1> QED BY <1>1, <1>2, <1>3

LEMMA FlowStep == Inv /\ FlowInv /\ [Next]_vars => FlowInv'
<1> SUFFICES ASSUME Inv, FlowInv, [Next]_vars PROVE FlowInv'
  OBVIOUS
<1>1. CASE Unplug \/ Bind \/ Filter \/ OpenFails \/ Exit \/ UNCHANGED vars
  <2>1. UNCHANGED <<source, queue, readerVars, arrived>>
    BY <1>1 DEF Unplug, Bind, Filter, OpenFails, Exit, vars
  <2> QED BY <2>1 DEF FlowInv, Unread, Rest, Queued, Taken, readerVars
<1> QED BY <1>1, BoardFlow, FillFlow, ScanFlow, CutFlow DEF Next

LEMMA FlowInit == Init => FlowInv
<1> SUFFICES ASSUME Init PROVE FlowInv
  OBVIOUS
<1>1. Taken = <<>> /\ Queued = <<>>
  BY FlattenEmpty DEF Init, Taken, Queued
<1>2. Rest = <<>>
  BY DEF Init, Rest
<1>3. Cat(<<>>, <<>>) = <<>>
  BY DEF Cat
<1> QED BY <1>1, <1>2, <1>3 DEF Init, FlowInv, Unread

(* From the kernel's queue to stdout, through CanLogReader's frame and     *)
(* cursor, BufReader's buffer and read_line's line: no byte is lost,       *)
(* repeated or moved, whatever the sizes and wherever the frames are cut.  *)
THEOREM NothingLost == Spec => []NothingLostOnTheWay
<1>1. ASSUME Inv, FlowInv PROVE NothingLostOnTheWay
  <2>1. /\ Taken \in Seq(Byte) /\ partial \in Seq(Byte) /\ held \in Seq(Byte)
        /\ Rest \in Seq(Byte) /\ Queued \in Seq(Byte)
    BY <1>1, FlowTypes
  <2> DEFINE a == Cat(Taken, partial)
             b == Cat(Rest, Queued)
             c == Cat(held, b)
  <2>2. a \in Seq(Byte) /\ b \in Seq(Byte) /\ c \in Seq(Byte) /\ Cat(a, held) \in Seq(Byte)
    BY <2>1, CatSeq
  <2>3. arrived = Cat(Taken, Cat(partial, c))
    BY <1>1 DEF FlowInv, Unread
  <2> HIDE DEF b
  <2>4. Cat(a, c) = Cat(Cat(a, held), b)
    <3> HIDE DEF a
    <3> QED BY <2>1, <2>2, CatAssociative
  <2> HIDE DEF c
  <2>5. Cat(a, c) = Cat(Taken, Cat(partial, c))
    BY <2>1, <2>2, CatAssociative
  <2> HIDE DEF a
  <2>6. Cat(Cat(a, held), b) = Cat(Cat(Cat(a, held), Rest), Queued)
    BY <2>1, <2>2, CatAssociative DEF b
  <2>7. arrived = Cat(Cat(Cat(a, held), Rest), Queued)
    BY <2>3, <2>4, <2>5, <2>6
  <2> QED BY <2>7 DEF NothingLostOnTheWay, Cat, Rest, Queued, a
<1>2. Spec => []FlowInv
  BY LogInv, FlowInit, FlowStep, PTL DEF Spec
<1> QED BY <1>1, <1>2, LogInv, PTL

-----------------------------------------------------------------------------
(* Lines come out as printed *)

\* A line: a newline is its last byte, and only that.
Whole == {s \in Seq(Byte) : s # <<>> /\ \A i \in 1..Len(s) : s[i] = "nl" <=> i = Len(s)}

\* IsSuffix, byte by byte.
Ending(s, t) ==
  Len(s) <= Len(t) /\ \A i \in 1..Len(s) : s[i] = t[Len(t) - Len(s) + i]

(* The lines heard are the lines printed, p, from the one after the first  *)
(* skip on; of the first, perhaps only the end.                            *)
Match(x, k, skip, p) == IF k > 1 THEN x = p[skip + k] ELSE Ending(x, p[skip + 1])
Aligned(heard, skip, p) ==
  /\ skip + Len(heard) = Len(p)
  /\ \A k \in 1..Len(heard) : Match(heard[k], k, skip, p)

\* Everything printed that has not become a line.
Flow == Cat(Cat(partial, Unread), out)

\* What is not read yet falls into lines, which go on from the lines read.
Behind(texts, bytes, p) ==
  \E skip \in Nat, rest \in Seq(Whole) :
    Aligned(Cat(texts, rest), skip, p) /\ bytes = FlattenSeq(rest)

\* The lines read are right.
Right(texts, p) ==
  \E skip \in Nat :
    /\ skip + Len(texts) <= Len(p)
    /\ \A k \in 1..Len(texts) : Match(texts[k], k, skip, p)

\* No line was cut off.
Ended(t) == t[Len(t)] = "nl"
Complete == \A k \in 1..Len(Texts) : Ended(Texts[k])

(* With nothing dropped, foreign or cut off: while the pump may still read *)
(* a line it is behind what was printed, and nothing else; the lines it    *)
(* has read stay right when it has ended.                                  *)
LineInv ==
  dropped = 0 /\ foreign = 0 /\ Complete =>
    /\ state \in {"new", "bound", "open"} => Behind(Texts, Flow, printed)
    /\ Right(Texts, printed)

\* Before the pump listens nothing has reached the host.
StartInv ==
  state = "new" =>
    /\ arrived = <<>> /\ passed = <<>> /\ partial = <<>> /\ held = <<>>
    /\ pending = <<>> /\ queue = <<>>

LEMMA WholeBytes ==
  /\ Whole \subseteq Seq(Byte) /\ Seq(Whole) \subseteq Seq(Seq(Byte)) /\ Lines \subseteq Whole
<1>1. Whole \subseteq Seq(Byte)
  BY DEF Whole
<1>2. Lines \subseteq Whole
  BY Sizes, LogAssumption DEF Whole
<1> QED BY <1>1, <1>2, SeqMonotonic

LEMMA EndingSelf == ASSUME NEW s \in Seq(Byte) PROVE Ending(s, s)
<1>1. Len(s) \in Nat
  BY LenProperties
<1>2. \A i \in 1..Len(s) : Len(s) - Len(s) + i = i
  BY <1>1
<1> QED BY <1>1, <1>2 DEF Ending

LEMMA TailCat ==
  ASSUME NEW S, NEW a \in Seq(S), a # <<>>, NEW b \in Seq(S)
  PROVE  Tail(Cat(a, b)) = Cat(Tail(a), b)
<1> DEFINE c == Cat(a, b)
           t == Tail(a)
<1>1. /\ Len(a) \in Nat \ {0} /\ Len(b) \in Nat
      /\ c \in Seq(S) /\ Len(c) = Len(a) + Len(b)
      /\ \A i \in 1..Len(a) + Len(b) : c[i] = IF i <= Len(a) THEN a[i] ELSE b[i - Len(a)]
  BY EmptySeq, LenProperties, ConcatProperties DEF Cat
<1>2. t \in Seq(S) /\ Len(t) = Len(a) - 1 /\ \A i \in 1..Len(t) : t[i] = a[i + 1]
  BY HeadTailProperties
<1> DEFINE d == Cat(t, b)
<1>3. /\ d \in Seq(S) /\ Len(d) = Len(t) + Len(b)
      /\ \A i \in 1..Len(t) + Len(b) : d[i] = IF i <= Len(t) THEN t[i] ELSE b[i - Len(t)]
  <2> HIDE DEF t
  <2> QED BY <1>2, ConcatProperties DEF Cat
<1> HIDE DEF c
<1>4. c # <<>>
  BY <1>1, EmptySeq
<1> DEFINE e == Tail(c)
<1>5. e \in Seq(S) /\ Len(e) = Len(c) - 1 /\ \A i \in 1..Len(e) : e[i] = c[i + 1]
  BY <1>1, <1>4, HeadTailProperties
<1> HIDE DEF t, d, e
<1>6. Len(e) = Len(d)
  BY <1>1, <1>2, <1>3, <1>5
<1>7. \A i \in 1..Len(e) : e[i] = d[i]
  <2> SUFFICES ASSUME NEW i \in 1..Len(e) PROVE e[i] = d[i]
    OBVIOUS
  <2>1. i \in Nat /\ i + 1 \in 1..Len(a) + Len(b) /\ i \in 1..Len(t) + Len(b)
    BY <1>1, <1>2, <1>3, <1>5, <1>6
  <2>2. e[i] = c[i + 1]
    BY <1>5
  <2>3. CASE i <= Len(t)
    <3>1. i + 1 <= Len(a) /\ i \in 1..Len(t)
      BY <1>1, <1>2, <2>1, <2>3
    <3> QED BY <1>1, <1>2, <1>3, <2>1, <2>2, <2>3, <3>1
  <2>4. CASE ~(i <= Len(t))
    <3>1. ~(i + 1 <= Len(a)) /\ i + 1 - Len(a) = i - Len(t)
      BY <1>1, <1>2, <2>1, <2>4
    <3>2. d[i] = b[i - Len(t)]
      BY <1>3, <2>1, <2>4
    <3>3. c[i + 1] = b[i + 1 - Len(a)]
      BY <1>1, <2>1, <3>1
    <3> QED BY <2>2, <3>1, <3>2, <3>3
  <2> QED BY <2>3, <2>4
<1>8. e = d
  BY <1>3, <1>5, <1>6, <1>7, SeqEqual
<1> QED BY <1>8 DEF c, d, e, t

\* A line's first byte gone: the rest of the line, or the next line.
LEMMA DropOne ==
  ASSUME NEW bytes \in Seq(Byte), bytes # <<>>, NEW p \in Seq(Lines), Behind(<<>>, bytes, p)
  PROVE  Behind(<<>>, Tail(bytes), p)
<1>1. PICK skip \in Nat, rest \in Seq(Whole) :
        Aligned(Cat(<<>>, rest), skip, p) /\ bytes = FlattenSeq(rest)
  BY DEF Behind
<1>2. Aligned(rest, skip, p)
  BY <1>1, CatEmpty
<1>3. rest # <<>> /\ rest \in Seq(Seq(Byte))
  BY <1>1, FlattenEmpty, WholeBytes
<1> DEFINE h == Head(rest)
           t == Tail(rest)
           v == FlattenSeq(t)
<1>4. /\ h \in Whole /\ h = rest[1] /\ t \in Seq(Whole) /\ Len(t) = Len(rest) - 1
      /\ \A k \in 1..Len(t) : t[k] = rest[k + 1]
      /\ Len(rest) \in Nat \ {0}
  BY <1>3, HeadTailProperties, EmptySeq
<1>5. bytes = Cat(h, v)
  BY <1>1, <1>3, FlattenHead DEF Cat
<1>6. h \in Seq(Byte) /\ v \in Seq(Byte) /\ h # <<>> /\ Len(h) \in Nat \ {0}
  <2>1. h \in Seq(Byte) /\ h # <<>>
    BY <1>4 DEF Whole
  <2>2. v \in Seq(Byte)
    BY <1>4, WholeBytes, FlattenType
  <2> QED BY <2>1, <2>2, EmptySeq
<1>7. Ending(h, p[skip + 1]) /\ \A k \in 1..Len(t) : t[k] = p[skip + (k + 1)]
  <2>1. 1 \in 1..Len(rest) /\ \A k \in 1..Len(t) : k + 1 \in 1..Len(rest) /\ k + 1 > 1
    BY <1>4
  <2> QED BY <1>2, <1>4, <2>1 DEF Aligned, Match
<1>8. skip + Len(rest) = Len(p)
  BY <1>2 DEF Aligned
<1> HIDE DEF h, t
<1>9. Tail(bytes) = Cat(Tail(h), v)
  <2> HIDE DEF v
  <2> QED BY <1>5, <1>6, TailCat
<1>10. CASE Len(h) = 1
  <2>1. Tail(h) = <<>>
    <3>1. Tail(h) \in Seq(Byte) /\ Len(Tail(h)) = 0
      BY <1>6, <1>10, HeadTailProperties
    <3> QED BY <3>1, EmptySeq
  <2>2. Tail(bytes) = v
    <3> HIDE DEF v
    <3>1. Cat(<<>>, v) = v
      BY <1>6, CatEmpty
    <3> QED BY <1>9, <2>1, <3>1
  <2>3. skip + 1 + Len(t) = Len(p)
    <3> DEFINE m == Len(rest)
               n == Len(t)
               o == Len(p)
    <3>1. m \in Nat /\ n = m - 1 /\ skip + m = o
      BY <1>4, <1>8
    <3> HIDE DEF m, n, o
    <3>2. skip + 1 + n = o
      BY <3>1
    <3> QED BY <3>2 DEF n, o
  <2>4. ASSUME NEW k \in 1..Len(t) PROVE Match(t[k], k, skip + 1, p)
    <3>1. skip + 1 + k = skip + (k + 1) /\ k + 1 \in 1..Len(rest) /\ skip + (k + 1) \in 1..Len(p)
      BY <1>4, <1>8
    <3>2. t[k] = p[skip + 1 + k]
      BY <1>7, <3>1
    <3>3. CASE k > 1
      BY <3>2, <3>3 DEF Match
    <3>4. CASE ~(k > 1)
      <4>1. k = 1
        BY <3>4
      <4>2. t[k] \in Seq(Byte)
        BY <1>4, ElementOfSeq DEF Whole
      <4> QED BY <3>2, <3>4, <4>1, <4>2, EndingSelf DEF Match
    <3> QED BY <3>3, <3>4
  <2>5. Aligned(t, skip + 1, p) /\ Cat(<<>>, t) = t
    BY <1>4, <2>3, <2>4, CatEmpty DEF Aligned
  <2>6. /\ t \in Seq(Whole) /\ skip + 1 \in Nat /\ Aligned(Cat(<<>>, t), skip + 1, p)
        /\ Tail(bytes) = FlattenSeq(t)
    BY <1>4, <2>2, <2>5
  <2> HIDE DEF v
  <2> QED BY <2>6 DEF Behind
<1>11. CASE Len(h) > 1
  <2> DEFINE g == Tail(h)
             one == <<g>>
  <2>1. /\ g \in Seq(Byte) /\ Len(g) = Len(h) - 1 /\ \A i \in 1..Len(g) : g[i] = h[i + 1]
    BY <1>6, HeadTailProperties
  <2>2. g \in Whole
    <3> HIDE DEF g
    <3>1. g # <<>>
      <4>1. Len(g) # 0
        <5> DEFINE m == Len(h)
                   n == Len(g)
        <5>1. m > 1 /\ m \in Nat /\ n = m - 1
          BY <1>11, <1>6, <2>1
        <5> HIDE DEF m, n
        <5>2. n # 0
          BY <5>1
        <5> QED BY <5>2 DEF n
      <4> QED BY <2>1, <4>1, EmptySeq
    <3>2. \A i \in 1..Len(g) : i + 1 \in 1..Len(h) /\ (i + 1 = Len(h) <=> i = Len(g))
      BY <1>6, <2>1
    <3>3. \A i \in 1..Len(h) : h[i] = "nl" <=> i = Len(h)
      BY <1>4 DEF Whole
    <3>4. \A i \in 1..Len(g) : g[i] = "nl" <=> i = Len(g)
      BY <2>1, <3>2, <3>3
    <3> QED BY <2>1, <3>1, <3>4 DEF Whole
  <2>3. Ending(g, p[skip + 1])
    <3> DEFINE l == p[skip + 1]
    <3>0. l \in Seq(Byte) /\ Len(l) \in Nat
      <4>1. skip + 1 \in 1..Len(p)
        BY <1>4, <1>8
      <4>2. l \in Lines
        BY <4>1, ElementOfSeq
      <4> QED BY <4>2, Sizes, LenProperties
    <3> HIDE DEF l, g
    <3>1. Len(h) <= Len(l) /\ \A i \in 1..Len(h) : h[i] = l[Len(l) - Len(h) + i]
      BY <1>7 DEF Ending, l
    <3>2. Len(g) <= Len(l)
      BY <1>6, <2>1, <3>0, <3>1
    <3>3. \A i \in 1..Len(g) : i + 1 \in 1..Len(h) /\ Len(l) - Len(h) + (i + 1) = Len(l) - Len(g) + i
      BY <1>6, <2>1, <3>0
    <3>4. \A i \in 1..Len(g) : g[i] = l[Len(l) - Len(g) + i]
      BY <2>1, <3>1, <3>3
    <3> QED BY <3>2, <3>4 DEF Ending, l
  <2> HIDE DEF g
  <2> DEFINE r == one \o t
  <2>4. /\ one \in Seq(Whole) /\ Len(one) = 1 /\ one[1] = g
    BY <2>2
  <2> HIDE DEF one
  <2>5. /\ r \in Seq(Whole) /\ Len(r) = Len(rest) /\ r[1] = g
        /\ \A k \in 2..Len(rest) : r[k] = t[k - 1]
    <3>1. /\ r \in Seq(Whole) /\ Len(r) = Len(one) + Len(t)
          /\ \A k \in 1..Len(one) + Len(t) : r[k] = IF k <= Len(one) THEN one[k] ELSE t[k - Len(one)]
      BY <1>4, <2>4, ConcatProperties
    <3> HIDE DEF r
    <3>2. 1 \in 1..Len(one) + Len(t) /\ \A k \in 2..Len(rest) : k \in 1..Len(one) + Len(t) /\ ~(k <= 1)
      BY <1>4, <2>4
    <3> QED BY <1>4, <2>4, <3>1, <3>2
  <2> HIDE DEF r
  <2>6. FlattenSeq(r) = Tail(bytes)
    <3>1. one \in Seq(Seq(Byte)) /\ t \in Seq(Seq(Byte))
      BY <1>4, <2>4, WholeBytes
    <3>2. FlattenSeq(one) = g
      BY <2>1, FlattenOne DEF one, g
    <3>3. FlattenSeq(one \o t) = FlattenSeq(one) \o v
      BY <3>1, FlattenConcat
    <3> QED BY <1>9, <3>2, <3>3 DEF r, g, Cat
  <2>7. ASSUME NEW k \in 1..Len(r) PROVE Match(r[k], k, skip, p)
    <3>1. CASE k = 1
      BY <2>3, <2>5, <3>1 DEF Match
    <3>2. CASE k # 1
      <4>1. k > 1 /\ k \in 2..Len(rest) /\ k - 1 \in 1..Len(t) /\ k - 1 + 1 = k
        BY <1>4, <2>5, <3>2
      <4>2. r[k] = p[skip + k]
        BY <1>7, <2>5, <4>1
      <4> QED BY <4>1, <4>2 DEF Match
    <3> QED BY <3>1, <3>2
  <2>8. Aligned(r, skip, p) /\ Cat(<<>>, r) = r
    BY <1>8, <2>5, <2>7, CatEmpty DEF Aligned
  <2>9. Tail(bytes) = FlattenSeq(r) /\ Aligned(Cat(<<>>, r), skip, p) /\ r \in Seq(Whole)
    BY <2>5, <2>6, <2>8
  <2> HIDE DEF v
  <2> QED BY <2>9 DEF Behind
<1>12. Len(h) = 1 \/ Len(h) > 1
  <2> DEFINE m == Len(h)
  <2>1. m \in Nat \ {0}
    BY <1>6
  <2> HIDE DEF m
  <2>2. m = 1 \/ m > 1
    BY <2>1
  <2> QED BY <2>2 DEF m
<1> QED BY <1>10, <1>11, <1>12

\* Bytes sent before anyone listened.
LEMMA DropMany ==
  ASSUME NEW p \in Seq(Lines), NEW bytes \in Seq(Byte), Behind(<<>>, bytes, p),
         NEW n \in Nat, n <= Len(bytes)
  PROVE  Behind(<<>>, SubSeq(bytes, n + 1, Len(bytes)), p)
<1> DEFINE T == {m \in Nat : m <= Len(bytes) => Behind(<<>>, SubSeq(bytes, m + 1, Len(bytes)), p)}
<1>1. Len(bytes) \in Nat
  BY LenProperties
<1>2. 0 \in T
  <2>1. SubSeq(bytes, 0 + 1, Len(bytes)) = bytes
    BY SubSeqFull
  <2> QED BY <2>1
<1>3. ASSUME NEW m \in Nat, m \in T PROVE m + 1 \in T
  <2> SUFFICES ASSUME m + 1 <= Len(bytes)
               PROVE  Behind(<<>>, SubSeq(bytes, m + 1 + 1, Len(bytes)), p)
    OBVIOUS
  <2> DEFINE u == SubSeq(bytes, m + 1, Len(bytes))
  <2>1. Behind(<<>>, u, p)
    BY <1>1, <1>3
  <2>2. u \in Seq(Byte) /\ Len(u) = Len(bytes) - (m + 1) + 1
    <3>1. m + 1 \in Nat \ {0}
      OBVIOUS
    <3> QED BY <1>1, <3>1, Cut
  <2>3. u # <<>>
    <3> HIDE DEF u
    <3>1. Len(u) # 0
      BY <1>1, <2>2
    <3> QED BY <2>2, <3>1, EmptySeq
  <2>4. Tail(u) = SubSeq(bytes, m + 1 + 1, Len(bytes))
    <3>1. m + 1 \in 1..Len(bytes) /\ Len(bytes) \in m + 1..Len(bytes)
      BY <1>1
    <3> QED BY <3>1, HeadTailOfSubSeq
  <2> HIDE DEF u
  <2> QED BY <2>1, <2>2, <2>3, <2>4, DropOne
<1> HIDE DEF T
<1>4. n \in T
  BY <1>2, <1>3, Induction
<1> QED BY <1>4 DEF T

\* A line that was printed comes after the others.
LEMMA PrintOne ==
  ASSUME NEW p \in Seq(Lines), NEW l \in Lines, NEW heard \in Seq(Seq(Byte)),
         NEW skip \in Nat, Aligned(heard, skip, p)
  PROVE  Aligned(Append(heard, l), skip, Append(p, l))
<1> DEFINE hh == Append(heard, l)
           pp == Append(p, l)
           n == Len(heard)
           m == Len(p)
<1>1. l \in Seq(Byte)
  BY Sizes
<1>2. /\ Len(hh) = n + 1 /\ hh[n + 1] = l /\ \A k \in 1..n : hh[k] = heard[k]
      /\ n \in Nat
  BY <1>1, AppendProperties, LenProperties
<1>3. /\ Len(pp) = m + 1 /\ pp[m + 1] = l /\ \A k \in 1..m : pp[k] = p[k]
      /\ m \in Nat
  BY AppendProperties, LenProperties
<1>4. skip + n = m /\ \A k \in 1..n : Match(heard[k], k, skip, p)
  BY DEF Aligned
<1> HIDE DEF hh, pp, n, m
<1>5. skip + (n + 1) = m + 1
  BY <1>2, <1>3, <1>4
<1>6. ASSUME NEW k \in 1..n + 1 PROVE Match(hh[k], k, skip, pp)
  <2>1. CASE k \in 1..n
    <3>1. skip + k \in 1..m /\ skip + 1 \in 1..m
      BY <1>2, <1>3, <1>4, <2>1
    <3>2. hh[k] = heard[k] /\ pp[skip + k] = p[skip + k] /\ pp[skip + 1] = p[skip + 1]
      BY <1>2, <1>3, <2>1, <3>1
    <3>3. Match(heard[k], k, skip, p)
      BY <1>4, <2>1
    <3> QED BY <3>2, <3>3 DEF Match
  <2>2. CASE k = n + 1
    <3>1. hh[k] = l /\ pp[skip + k] = l
      BY <1>2, <1>3, <1>5, <2>2
    <3>2. CASE k > 1
      BY <3>1, <3>2 DEF Match
    <3>3. CASE ~(k > 1)
      <4>1. k = 1
        BY <3>3
      <4> QED BY <1>1, <3>1, <3>3, <4>1, EndingSelf DEF Match
    <3> QED BY <3>2, <3>3
  <2> QED BY <1>2, <2>1, <2>2
<1>7. Len(hh) = n + 1 /\ Len(pp) = m + 1
  BY <1>2, <1>3
<1> QED BY <1>5, <1>6, <1>7 DEF Aligned, hh, pp

LEMMA PrintBehind ==
  ASSUME NEW p \in Seq(Lines), NEW l \in Lines, NEW texts \in Seq(Seq(Byte)),
         NEW bytes \in Seq(Byte), Behind(texts, bytes, p)
  PROVE  Behind(texts, Cat(bytes, l), Append(p, l))
<1>1. PICK skip \in Nat, rest \in Seq(Whole) :
        Aligned(Cat(texts, rest), skip, p) /\ bytes = FlattenSeq(rest)
  BY DEF Behind
<1>2. l \in Whole /\ l \in Seq(Byte) /\ rest \in Seq(Seq(Byte))
  BY WholeBytes
<1> DEFINE r == Append(rest, l)
<1>3. r \in Seq(Whole) /\ FlattenSeq(r) = Cat(bytes, l)
  BY <1>1, <1>2, FlattenAppend, AppendProperties DEF Cat
<1>4. Cat(texts, r) = Append(Cat(texts, rest), l)
  <2> DEFINE one == <<l>>
  <2>1. r = Cat(rest, one) /\ one \in Seq(Seq(Byte))
    BY <1>2, CatOne
  <2>2. Cat(texts, rest) \in Seq(Seq(Byte))
    BY <1>2, CatSeq
  <2>3. Append(Cat(texts, rest), l) = Cat(Cat(texts, rest), one)
    BY <1>2, <2>2, CatOne
  <2> HIDE DEF one, r
  <2>4. Cat(Cat(texts, rest), one) = Cat(texts, Cat(rest, one))
    BY <1>2, <2>1, CatAssociative
  <2> QED BY <2>1, <2>3, <2>4
<1>5. Cat(texts, rest) \in Seq(Seq(Byte))
  BY <1>2, CatSeq
<1>6. Aligned(Append(Cat(texts, rest), l), skip, Append(p, l))
  BY <1>1, <1>5, PrintOne
<1> HIDE DEF r
<1>7. Aligned(Cat(texts, r), skip, Append(p, l))
  BY <1>4, <1>6
<1> QED BY <1>3, <1>7 DEF Behind

\* The lines read stay right when another is printed.
LEMMA PrintRight ==
  ASSUME NEW p \in Seq(Lines), NEW l \in Lines, NEW texts \in Seq(Seq(Byte)), Right(texts, p)
  PROVE  Right(texts, Append(p, l))
<1>1. PICK skip \in Nat :
        skip + Len(texts) <= Len(p) /\ \A k \in 1..Len(texts) : Match(texts[k], k, skip, p)
  BY DEF Right
<1> DEFINE pp == Append(p, l)
           n == Len(texts)
           m == Len(p)
<1>2. /\ Len(pp) = m + 1 /\ \A k \in 1..m : pp[k] = p[k]
      /\ m \in Nat /\ n \in Nat
  BY AppendProperties, LenProperties
<1>3. skip + n <= m
  BY <1>1
<1> HIDE DEF pp, n, m
<1>4. skip + n <= m + 1
  BY <1>2, <1>3
<1>5. ASSUME NEW k \in 1..n PROVE Match(texts[k], k, skip, pp)
  <2>1. skip + k \in 1..m /\ skip + 1 \in 1..m
    BY <1>2, <1>3
  <2>2. pp[skip + k] = p[skip + k] /\ pp[skip + 1] = p[skip + 1]
    BY <1>2, <2>1
  <2>3. Match(texts[k], k, skip, p)
    BY <1>1 DEF n
  <2> QED BY <2>2, <2>3 DEF Match
<1> QED BY <1>2, <1>4, <1>5 DEF Right, n, pp

\* Who is behind has read the right lines.
LEMMA BehindRight ==
  ASSUME NEW p, NEW texts \in Seq(Seq(Byte)), NEW bytes, Behind(texts, bytes, p)
  PROVE  Right(texts, p)
<1>1. PICK skip \in Nat, rest \in Seq(Whole) : Aligned(Cat(texts, rest), skip, p)
  BY DEF Behind
<1> DEFINE heard == Cat(texts, rest)
           n == Len(texts)
           m == Len(rest)
<1>2. rest \in Seq(Seq(Byte))
  BY WholeBytes
<1>3. /\ Len(heard) = n + m /\ n \in Nat /\ m \in Nat
      /\ \A k \in 1..n + m : heard[k] = IF k <= n THEN texts[k] ELSE rest[k - n]
  BY <1>2, ConcatProperties, LenProperties DEF Cat
<1>4. skip + Len(heard) = Len(p) /\ \A k \in 1..Len(heard) : Match(heard[k], k, skip, p)
  BY <1>1 DEF Aligned
<1> HIDE DEF heard, n, m
<1>5. skip + n <= Len(p)
  <2> DEFINE o == Len(p)
  <2>1. skip + (n + m) = o
    BY <1>3, <1>4
  <2> HIDE DEF o
  <2>2. skip + n <= o
    BY <1>3, <2>1
  <2> QED BY <2>2 DEF o
<1>6. ASSUME NEW k \in 1..n PROVE Match(texts[k], k, skip, p)
  <2>1. k \in 1..n + m /\ k <= n
    BY <1>3
  <2>2. heard[k] = texts[k]
    BY <1>3, <2>1
  <2> QED BY <1>3, <1>4, <2>1, <2>2
<1> QED BY <1>5, <1>6 DEF Right, n

\* Cat(a, b), byte by byte.
Joins(a, b, c) ==
  /\ Len(a) \in Nat /\ Len(b) \in Nat /\ Len(c) = Len(a) + Len(b)
  /\ \A i \in 1..Len(a) : c[i] = a[i]
  /\ \A i \in 1..Len(b) : c[Len(a) + i] = b[i]

LEMMA CatBytes ==
  ASSUME NEW S, NEW a \in Seq(S), NEW b \in Seq(S)
  PROVE  Joins(a, b, Cat(a, b))
<1> DEFINE c == Cat(a, b)
           n == Len(a)
           m == Len(b)
<1>1. /\ Len(c) = n + m /\ n \in Nat /\ m \in Nat
      /\ \A k \in 1..n + m : c[k] = IF k <= n THEN a[k] ELSE b[k - n]
  BY ConcatProperties, LenProperties DEF Cat
<1> HIDE DEF c, n, m
<1>2. \A i \in 1..n : i \in 1..n + m /\ i <= n
  BY <1>1
<1>3. \A i \in 1..m : n + i \in 1..n + m /\ ~(n + i <= n) /\ n + i - n = i
  BY <1>1
<1>4. \A i \in 1..n : c[i] = a[i]
  BY <1>1, <1>2
<1>5. \A i \in 1..m : c[n + i] = b[i]
  BY <1>1, <1>3
<1>6. /\ n \in Nat /\ m \in Nat /\ Len(c) = n + m
      /\ \A i \in 1..n : c[i] = a[i]
      /\ \A i \in 1..m : c[n + i] = b[i]
  BY <1>1, <1>4, <1>5
<1> QED BY <1>6 DEF c, n, m, Joins

\* Bytes without a newline are no line.
LEMMA NoLine ==
  ASSUME NEW s \in Seq(Byte), \A i \in 1..Len(s) : s[i] # "nl",
         NEW rest \in Seq(Whole), s = FlattenSeq(rest)
  PROVE  rest = <<>>
<1> SUFFICES ASSUME rest # <<>> PROVE FALSE
  OBVIOUS
<1> DEFINE h == Head(rest)
           v == FlattenSeq(Tail(rest))
<1>1. rest \in Seq(Seq(Byte)) /\ h \in Whole /\ Tail(rest) \in Seq(Seq(Byte))
  BY WholeBytes, HeadTailProperties
<1>2. s = Cat(h, v)
  BY <1>1, FlattenHead DEF Cat
<1>3. h \in Seq(Byte) /\ h # <<>> /\ v \in Seq(Byte)
  BY <1>1, FlattenType DEF Whole
<1>4. \A i \in 1..Len(h) : h[i] = "nl" <=> i = Len(h)
  BY <1>1 DEF Whole
<1> HIDE DEF h, v
<1>5. Len(h) \in 1..Len(h)
  BY <1>3, EmptySeq, LenProperties
<1>6. s[Len(h)] = "nl" /\ Len(h) \in 1..Len(s)
  <2>1. Cat(h, v)[Len(h)] = h[Len(h)] /\ Len(Cat(h, v)) = Len(h) + Len(v) /\ Len(v) \in Nat
    <3>1. Joins(h, v, Cat(h, v))
      BY <1>3, CatBytes
    <3> QED BY <1>5, <3>1 DEF Joins
  <2> QED BY <1>2, <1>4, <1>5, <2>1
<1> QED BY <1>6

\* A line and what follows it can be told apart.
LEMMA SameLength ==
  ASSUME NEW a \in Whole, NEW b \in Whole, NEW c \in Seq(Byte), NEW d \in Seq(Byte),
         Cat(a, c) = Cat(b, d)
  PROVE  Len(a) <= Len(b)
<1> DEFINE n == Len(a)
           m == Len(b)
<1>1. a \in Seq(Byte) /\ b \in Seq(Byte) /\ a # <<>> /\ b # <<>>
  BY DEF Whole
<1>2. /\ n \in Nat /\ m \in Nat \ {0}
      /\ \A i \in 1..n : Cat(a, c)[i] = a[i]
      /\ \A i \in 1..m : Cat(b, d)[i] = b[i]
  <2>1. Joins(a, c, Cat(a, c)) /\ Joins(b, d, Cat(b, d))
    BY <1>1, CatBytes
  <2>2. Len(b) # 0
    BY <1>1, EmptySeq
  <2> QED BY <2>1, <2>2 DEF Joins
<1>3. (\A i \in 1..n : a[i] = "nl" <=> i = n) /\ (\A i \in 1..m : b[i] = "nl" <=> i = m)
  BY DEF Whole
<1> HIDE DEF n, m
<1>4. m \in 1..m
  BY <1>2
<1>5. b[m] = "nl"
  BY <1>3, <1>4
<1>6. SUFFICES ASSUME ~(n <= m) PROVE FALSE
  BY DEF n, m
<1>7. m \in 1..n /\ m # n
  BY <1>2, <1>6
<1>8. a[m] = b[m]
  BY <1>2, <1>4, <1>7
<1> QED BY <1>3, <1>5, <1>7, <1>8

LEMMA SameLine ==
  ASSUME NEW a \in Whole, NEW b \in Whole, NEW c \in Seq(Byte), NEW d \in Seq(Byte),
         Cat(a, c) = Cat(b, d)
  PROVE  a = b /\ c = d
<1> DEFINE n == Len(a)
           k == Len(c)
<1>1. a \in Seq(Byte) /\ b \in Seq(Byte)
  BY DEF Whole
<1>2. Len(a) \in Nat /\ Len(b) \in Nat /\ Len(c) \in Nat /\ Len(d) \in Nat
  BY <1>1, LenProperties
<1>3. Len(b) = n
  <2>1. Len(a) <= Len(b) /\ Len(b) <= Len(a)
    BY SameLength
  <2> QED BY <1>2, <2>1
<1>4. /\ n \in Nat /\ Len(Cat(a, c)) = n + k /\ Len(Cat(b, d)) = n + Len(d)
      /\ \A i \in 1..n : Cat(a, c)[i] = a[i]
      /\ \A i \in 1..n : Cat(b, d)[i] = b[i]
      /\ \A i \in 1..k : Cat(a, c)[n + i] = c[i]
      /\ \A i \in 1..Len(d) : Cat(b, d)[n + i] = d[i]
  <2>1. Joins(a, c, Cat(a, c)) /\ Joins(b, d, Cat(b, d))
    BY <1>1, CatBytes
  <2> QED BY <1>3, <2>1 DEF Joins
<1>5. Len(d) = k
  <2> DEFINE j == Len(d)
  <2>1. n \in Nat /\ k \in Nat /\ j \in Nat /\ n + k = n + j
    BY <1>2, <1>4
  <2> HIDE DEF n, k, j
  <2>2. j = k
    BY <2>1
  <2> QED BY <2>2 DEF j
<1> HIDE DEF n, k
<1>6. \A i \in 1..n : a[i] = b[i]
  BY <1>4
<1>7. \A i \in 1..k : c[i] = d[i]
  BY <1>4, <1>5
<1>8. a = b
  BY <1>1, <1>3, <1>6, SeqEqual DEF n
<1>9. c = d
  BY <1>5, <1>7, SeqEqual DEF k
<1> QED BY <1>8, <1>9

\* A line that is read is the next one printed.
LEMMA ReadBehind ==
  ASSUME NEW p, NEW texts \in Seq(Seq(Byte)), NEW x \in Whole, NEW u \in Seq(Byte),
         Behind(texts, Cat(x, u), p)
  PROVE  Behind(Append(texts, x), u, p)
<1>1. PICK skip \in Nat, rest \in Seq(Whole) :
        Aligned(Cat(texts, rest), skip, p) /\ Cat(x, u) = FlattenSeq(rest)
  BY DEF Behind
<1>2. rest # <<>>
  <2>1. x \in Seq(Byte) /\ x # <<>>
    BY DEF Whole
  <2>2. Len(Cat(x, u)) # 0
    <3> DEFINE n == Len(x)
               m == Len(u)
    <3>1. n \in Nat \ {0} /\ m \in Nat /\ Len(Cat(x, u)) = n + m
      <4>1. Joins(x, u, Cat(x, u))
        BY <2>1, CatBytes
      <4>2. Len(x) # 0
        BY <2>1, EmptySeq
      <4> QED BY <4>1, <4>2 DEF Joins
    <3> HIDE DEF n, m
    <3>2. n + m # 0
      BY <3>1
    <3> QED BY <3>1, <3>2
  <2>3. Len(<<>>) = 0
    OBVIOUS
  <2> QED BY <1>1, <2>2, <2>3, FlattenEmpty
<1> DEFINE h == Head(rest)
           t == Tail(rest)
           v == FlattenSeq(t)
<1>3. rest \in Seq(Seq(Byte)) /\ h \in Whole /\ t \in Seq(Whole) /\ t \in Seq(Seq(Byte))
  BY <1>2, WholeBytes, HeadTailProperties
<1>4. v \in Seq(Byte) /\ Cat(h, v) = Cat(x, u)
  BY <1>1, <1>2, <1>3, FlattenHead, FlattenType DEF Cat
<1> HIDE DEF h, v
<1>5. h = x /\ v = u
  BY <1>3, <1>4, SameLine
<1>6. Cat(Append(texts, Head(rest)), Tail(rest)) = Cat(texts, rest)
  <2>1. PICK e \in Seq(Seq(Byte)) : e = <<>>
    <3>1. <<>> \in Seq(Seq(Byte))
      OBVIOUS
    <3> QED BY <3>1
  <2>2. Tail(rest) \in Seq(Seq(Byte))
    BY <1>3
  <2> HIDE DEF t
  <2>3. Cat(Append(texts, Head(rest)), Cat(Tail(rest), e)) = Cat(texts, Cat(rest, e))
    BY <1>2, <1>3, MoveHead
  <2>4. Cat(Tail(rest), e) = Tail(rest) /\ Cat(rest, e) = rest
    BY <1>3, <2>1, <2>2, CatEmpty
  <2> QED BY <2>3, <2>4
<1>7. Aligned(Cat(Append(texts, x), t), skip, p) /\ u = FlattenSeq(t)
  BY <1>1, <1>5, <1>6 DEF h, v
<1> HIDE DEF t
<1> QED BY <1>3, <1>7 DEF Behind

\* The bytes gathered, and the buffer up to its first newline, are a line.
LEMMA LineIsWhole ==
  ASSUME Inv, NEW i \in 1..Len(held), Ends(i)
  PROVE  Cat(partial, SubSeq(held, 1, i)) \in Whole
<1> DEFINE h == SubSeq(held, 1, i)
           x == Cat(partial, h)
           n == Len(partial)
<1>1. /\ partial \in Seq(Byte) /\ held \in Seq(Byte) /\ partial \in Seq(Byte \ {"nl"})
      /\ Len(held) \in Nat /\ i \in Nat /\ i <= Len(held) /\ i \in 1..i
  BY FlowTypes, LenProperties DEF Inv, TypeOK
<1>2. /\ h \in Seq(Byte) /\ Len(h) = i /\ \A j \in 1..i : h[j] = held[j]
  BY <1>1, SubSeqProperties, Cut
<1>3. \A j \in 1..n : partial[j] # "nl"
  BY <1>1, ElementOfSeq
<1>4. \A j \in 1..i : h[j] = "nl" <=> j = i
  <2>1. \A j \in 1..i : j = i \/ j \in 1..i - 1
    BY <1>1
  <2> QED BY <1>2, <2>1 DEF Ends
<1> HIDE DEF h
<1>5. /\ x \in Seq(Byte) /\ n \in Nat /\ Len(x) = n + i
      /\ \A j \in 1..n : x[j] = partial[j]
      /\ \A j \in 1..i : x[n + j] = h[j]
  <2>1. Joins(partial, h, x)
    BY <1>1, <1>2, CatBytes
  <2>2. x \in Seq(Byte)
    BY <1>1, <1>2, CatSeq
  <2> HIDE DEF x
  <2> QED BY <1>2, <2>1, <2>2 DEF Joins
<1> HIDE DEF x, n
<1>6. ASSUME NEW k \in 1..n + i PROVE x[k] = "nl" <=> k = n + i
  <2>1. CASE k \in 1..n
    <3>1. k # n + i
      BY <1>1, <1>5, <2>1
    <3> QED BY <1>3, <1>5, <2>1, <3>1
  <2>2. CASE ~(k \in 1..n)
    <3>1. k - n \in 1..i /\ n + (k - n) = k
      BY <1>1, <1>5, <2>2
    <3>2. x[k] = h[k - n]
      BY <1>5, <3>1
    <3>3. k - n = i <=> k = n + i
      BY <1>1, <1>5
    <3> QED BY <1>4, <3>1, <3>2, <3>3
  <2> QED BY <2>1, <2>2
<1>7. x # <<>>
  <2>1. Len(x) # 0
    BY <1>1, <1>5
  <2>2. Len(<<>>) = 0
    OBVIOUS
  <2> QED BY <2>1, <2>2
<1>8. x \in Whole
  BY <1>5, <1>6, <1>7 DEF Whole
<1> QED BY <1>8 DEF x, h

-----------------------------------------------------------------------------
(* What is read is what was printed *)

LEMMA StartInit == Init => StartInv
BY DEF Init, StartInv

LEMMA StartStep == ASSUME Inv, StartInv, [Next]_vars PROVE StartInv'
<1>1. SUFFICES ASSUME state' = "new"
               PROVE  /\ arrived' = <<>> /\ passed' = <<>> /\ partial' = <<>> /\ held' = <<>>
                      /\ pending' = <<>> /\ queue' = <<>>
  BY DEF StartInv
<1>2. state = "new" /\ UNCHANGED <<arrived, passed, partial, held, pending, queue>>
  <2>1. CASE Transmit
    BY <1>1, <2>1 DEF Transmit, Arrive, Listening, readerVars
  <2>2. CASE Drop \/ Foreign \/ Unplug \/ Bind \/ Filter \/ OpenFails \/ Exit
             \/ (\E l \in Lines : Emit(l)) \/ UNCHANGED vars
    BY <1>1, <2>2 DEF Drop, Foreign, Unplug, Bind, Filter, OpenFails, Exit, Emit, vars, readerVars, Listening
  <2>3. CASE Fill \/ Hangup \/ Silence
    BY <1>1, <2>3 DEF Fill, Hangup, Silence, EndOfFile, Pass
  <2>4. CASE Scan
    BY <1>1, <2>4 DEF Scan, Gather, Line, Pass
  <2> QED BY <2>1, <2>2, <2>3, <2>4 DEF Next
<1> QED BY <1>2 DEF StartInv

LEMMA Nothing ==
  ASSUME Inv, held = <<>>, queue = <<>>, at = Len(pending)
  PROVE  Unread = <<>> /\ Flow = Cat(partial, out)
<1>1. pending \in Seq(Byte) /\ Len(pending) \in Nat /\ partial \in Seq(Byte)
  BY FlowTypes, LenProperties DEF Inv, TypeOK
<1> DEFINE n == Len(pending)
<1>2. Rest = <<>>
  <2>1. Rest = SubSeq(pending, n + 1, n)
    BY DEF Rest
  <2>2. n + 1 \in Nat \ {0} /\ ~(n + 1 <= n)
    BY <1>1
  <2>3. Rest \in Seq(Byte) /\ Len(Rest) = IF n + 1 <= n THEN n - (n + 1) + 1 ELSE 0
    BY <1>1, <2>1, <2>2, Cut
  <2> HIDE DEF n
  <2>4. Len(Rest) = 0
    BY <2>2, <2>3
  <2> QED BY <2>3, <2>4, EmptySeq
<1>3. Queued = <<>>
  BY FlattenEmpty DEF Queued
<1>4. Cat(<<>>, <<>>) = <<>>
  BY DEF Cat
<1>5. Unread = <<>>
  BY <1>2, <1>3, <1>4 DEF Unread
<1>6. Cat(partial, <<>>) = partial
  BY <1>1, CatEmpty
<1> QED BY <1>5, <1>6 DEF Flow

LEMMA FlowBytes == ASSUME Inv PROVE Flow \in Seq(Byte)
<1>1. partial \in Seq(Byte) /\ Unread \in Seq(Byte) /\ out \in Seq(Byte)
  BY FlowTypes
<1>2. Cat(partial, Unread) \in Seq(Byte)
  BY <1>1, CatSeq
<1> QED BY <1>1, <1>2, CatSeq DEF Flow

\* Who is behind after a step has kept LineInv.
LEMMA LineFrom ==
  ASSUME NEW texts \in Seq(Seq(Byte)), NEW bytes, NEW p, Behind(texts, bytes, p),
         Texts' = texts, Flow' = bytes, printed' = p
  PROVE  LineInv'
<1>1. Right(texts, p)
  BY BehindRight
<1> QED BY <1>1 DEF LineInv

Clean == dropped = 0 /\ foreign = 0 /\ Complete
Reading == state \in {"new", "bound", "open"}

LEMMA LineUsed ==
  ASSUME LineInv, Clean
  PROVE  Right(Texts, printed) /\ (Reading => Behind(Texts, Flow, printed))
BY DEF LineInv, Clean, Reading

LEMMA LineInit == Init => LineInv
<1> SUFFICES ASSUME Init PROVE LineInv
  OBVIOUS
<1>1. Texts = <<>> /\ printed = <<>>
  BY DEF Init, Texts
<1>2. Flow = <<>>
  <2>1. Flow = Cat(<<>>, <<>>)
    BY InitInv, Nothing DEF Init
  <2> QED BY <2>1 DEF Cat
<1>3. PICK e \in Seq(Whole) : e = <<>>
  <2>1. <<>> \in Seq(Whole)
    OBVIOUS
  <2> QED BY <2>1
<1>4. e \in Seq(Seq(Byte)) /\ Len(e) = 0
  BY <1>3
<1>5. Cat(e, e) = e
  BY <1>3, <1>4, CatEmpty
<1>6. Aligned(e, 0, e)
  BY <1>4 DEF Aligned
<1>7. Behind(e, e, e)
  <2>1. 0 \in Nat /\ Aligned(Cat(e, e), 0, e) /\ e = FlattenSeq(e)
    BY <1>3, <1>5, <1>6, FlattenEmpty
  <2> QED BY <2>1 DEF Behind
<1>8. Right(e, e)
  BY <1>4, <1>7, BehindRight
<1> QED BY <1>1, <1>2, <1>3, <1>7, <1>8 DEF LineInv

LEMMA EmitLine ==
  ASSUME Inv, LineInv, Clean, NEW l \in Lines, Emit(l)
  PROVE  LineInv'
<1>1. /\ Texts \in Seq(Seq(Byte)) /\ Flow \in Seq(Byte) /\ printed \in Seq(Lines)
      /\ l \in Seq(Byte) /\ out \in Seq(Byte)
  BY FlowTypes, FlowBytes, Sizes DEF Inv, TypeOK
<1>2. /\ printed' = Append(printed, l) /\ out' = Cat(out, l)
      /\ UNCHANGED <<state, readerVars, queue>>
  BY DEF Emit, Cat
<1>3. Texts' = Texts /\ Unread' = Unread /\ partial' = partial
  BY <1>2 DEF readerVars, Texts, Unread, Rest, Queued
<1>4. Flow' = Cat(Flow, l)
  <2>1. Cat(partial, Unread) \in Seq(Byte)
    BY FlowTypes, CatSeq
  <2>2. Cat(Cat(Cat(partial, Unread), out), l) = Cat(Cat(partial, Unread), Cat(out, l))
    BY <1>1, <2>1, CatAssociative
  <2> QED BY <1>2, <1>3, <2>2 DEF Flow
<1>5. CASE Reading
  <2>1. Behind(Texts, Cat(Flow, l), Append(printed, l))
    BY <1>1, <1>5, LineUsed, PrintBehind
  <2> QED BY <1>1, <1>2, <1>3, <1>4, <2>1, LineFrom
<1>6. CASE ~Reading
  <2>1. Right(Texts, Append(printed, l))
    BY <1>1, LineUsed, PrintRight
  <2> QED BY <1>2, <1>3, <1>6, <2>1 DEF LineInv, Reading
<1> QED BY <1>5, <1>6

LEMMA TransmitLine ==
  ASSUME Inv, StartInv, LineInv, Clean, Transmit
  PROVE  LineInv'
<1>1. PICK n \in 1..FrameSize :
        /\ n <= Len(out) /\ out' = SubSeq(out, n + 1, Len(out)) /\ Arrive(SubSeq(out, 1, n))
        /\ UNCHANGED <<source, printed, state, readerVars, faultVars>>
  BY DEF Transmit
<1> DEFINE b == SubSeq(out, 1, n)
           o == SubSeq(out, n + 1, Len(out))
<1>2. out \in Seq(Byte) /\ Len(out) \in Nat /\ n \in 1..Len(out) /\ n \in Nat
  BY <1>1, FlowTypes, LenProperties, Sizes
<1>3. b \in Seq(Byte) /\ o \in Seq(Byte) /\ out = Cat(b, o)
  <2>1. n + 1 \in Nat \ {0}
    BY <1>2
  <2> QED BY <1>2, <2>1, Cut, CutInTwo
<1>4. Texts' = Texts /\ partial' = partial /\ UNCHANGED <<printed, state, held, pending, at, dropped, foreign>>
  BY <1>1 DEF readerVars, faultVars, Texts
<1>5. /\ Texts \in Seq(Seq(Byte)) /\ partial \in Seq(Byte) /\ Unread \in Seq(Byte)
      /\ printed \in Seq(Lines)
  BY FlowTypes DEF Inv, TypeOK
<1>6. CASE Listening
  <2>1. Unread' = Cat(Unread, b)
    BY <1>1, <1>3, <1>4, <1>6, UnreadMore DEF Arrive
  <2> HIDE DEF b, o
  <2>2. Flow' = Cat(Cat(partial, Cat(Unread, b)), o)
    BY <1>1, <1>4, <2>1 DEF Flow, o
  <2>3. Flow = Cat(partial, Cat(Unread, Cat(b, o)))
    BY <1>2, <1>3, <1>5, CatAssociative DEF Flow
  <2>4. Flow' = Flow
    BY <1>3, <1>5, <2>2, <2>3, Regroup
  <2> QED BY <1>4, <2>4, LineUsed DEF LineInv, Reading
<1>7. CASE state = "new"
  <2>1. /\ passed = <<>> /\ partial = <<>> /\ held = <<>> /\ pending = <<>> /\ queue = <<>>
        /\ at = Len(pending)
    BY <1>7 DEF StartInv, Inv, TypeOK
  <2>2. Flow = out /\ Unread = <<>>
    BY <1>2, <2>1, Nothing, CatEmpty
  <2>3. queue' = queue
    BY <1>1, <1>7 DEF Arrive, Listening
  <2>4. Unread' = <<>>
    BY <1>4, <2>2, <2>3 DEF Unread, Rest, Queued
  <2>5. Flow' = o
    <3>1. Flow' = Cat(Cat(<<>>, <<>>), o)
      BY <1>1, <1>4, <2>1, <2>4 DEF Flow
    <3>2. Cat(<<>>, <<>>) = <<>>
      BY DEF Cat
    <3> HIDE DEF o
    <3> QED BY <1>3, <3>1, <3>2, CatEmpty
  <2>6. Texts = <<>>
    BY <2>1 DEF Texts
  <2>7. Behind(<<>>, out, printed)
    BY <1>7, <2>2, <2>6, LineUsed DEF Reading
  <2>8. Behind(<<>>, o, printed)
    BY <1>2, <1>5, <2>7, DropMany
  <2> HIDE DEF o
  <2>9. Behind(Texts, o, printed)
    BY <2>6, <2>8
  <2> QED BY <1>4, <1>5, <2>5, <2>9, LineFrom
<1>8. CASE ~Listening /\ state # "new"
  BY <1>4, <1>8, LineUsed DEF LineInv, Listening
<1> QED BY <1>6, <1>7, <1>8

LEMMA ReadLine ==
  ASSUME Inv, LineInv, Clean, state = "open", NEW i \in 1..Len(held), Ends(i), Line(i),
         UNCHANGED <<queue, pending, at, out, printed>>
  PROVE  LineInv'
<1> DEFINE x == Cat(partial, SubSeq(held, 1, i))
           u == Unread'
<1>1. x \in Seq(Byte) /\ partial' = <<>> /\ u \in Seq(Byte)
  BY LineFlow
<1>2. Cat(partial, Unread) = Cat(x, u) /\ Texts' = Append(Texts, x)
  BY LineFlow
<1>3. x \in Whole
  BY LineIsWhole
<1>4. Texts \in Seq(Seq(Byte)) /\ out \in Seq(Byte)
  BY FlowTypes
<1> HIDE DEF x
<1>5. PICK v \in Seq(Byte) : v = u
  BY <1>1
<1> HIDE DEF u
<1>6. Flow = Cat(Cat(x, v), out)
  BY <1>2, <1>5 DEF Flow
<1>7. Flow = Cat(x, Cat(v, out)) /\ Cat(v, out) \in Seq(Byte)
  BY <1>1, <1>4, <1>6, CatAssociative, CatSeq
<1>8. Behind(Texts, Cat(x, Cat(v, out)), printed)
  BY <1>7, LineUsed DEF Reading
<1>9. Behind(Append(Texts, x), Cat(v, out), printed)
  BY <1>3, <1>4, <1>7, <1>8, ReadBehind
<1>10. Flow' = Cat(v, out)
  <2>1. Flow' = Cat(Cat(<<>>, v), out)
    BY <1>1, <1>5 DEF Flow, u
  <2>2. Cat(<<>>, v) = v
    BY CatEmpty
  <2> QED BY <2>1, <2>2
<1>11. Append(Texts, x) \in Seq(Seq(Byte))
  BY <1>1, <1>4, AppendProperties
<1> QED BY <1>2, <1>9, <1>10, <1>11, LineFrom

\* The lines that have been read stay.
LEMMA CompleteBefore ==
  ASSUME Inv, Texts' = Texts \/ \E x \in Seq(Byte) : Texts' = Append(Texts, x), Complete'
  PROVE  Complete
<1>1. Texts \in Seq(Seq(Byte)) /\ Len(Texts) \in Nat
  BY FlowTypes
<1> DEFINE n == Len(Texts)
           m == Len(Texts')
<1>2. m \in Nat /\ n <= m /\ \A k \in 1..n : Texts'[k] = Texts[k]
  <2>1. CASE Texts' = Texts
    BY <1>1, <2>1
  <2>2. ASSUME NEW x \in Seq(Byte), Texts' = Append(Texts, x)
        PROVE  m = n + 1 /\ \A k \in 1..n : Texts'[k] = Texts[k]
    BY <1>1, <2>2, AppendProperties
  <2>3. CASE m = n + 1
    BY <1>1, <2>2, <2>1, <2>3
  <2> HIDE DEF n, m
  <2> QED BY <1>1, <2>1, <2>2, <2>3
<1>3. \A k \in 1..m : Ended(Texts'[k])
  BY DEF Complete, Ended
<1> HIDE DEF m
<1>4. \A k \in 1..n : k \in 1..m
  BY <1>1, <1>2
<1> QED BY <1>2, <1>3, <1>4 DEF Complete

\* A part of a line is no line.
LEMMA CutIncomplete ==
  ASSUME Inv, partial # <<>>, Texts' = Append(Texts, partial)
  PROVE  ~Complete'
<1>1. /\ partial \in Seq(Byte) /\ Texts \in Seq(Seq(Byte)) /\ partial \in Seq(Byte \ {"nl"})
      /\ Len(Texts) \in Nat /\ Len(partial) \in Nat
  BY FlowTypes, LenProperties DEF Inv, TypeOK
<1>2. Len(partial) # 0
  BY <1>1, EmptySeq
<1>3. partial[Len(partial)] # "nl"
  BY <1>1, <1>2, ElementOfSeq
<1>4. Len(Texts') = Len(Texts) + 1 /\ Texts'[Len(Texts) + 1] = partial
  BY <1>1, AppendProperties
<1>5. Len(Texts) + 1 \in 1..Len(Texts')
  BY <1>1, <1>4
<1>6. ~Ended(Texts'[Len(Texts) + 1])
  BY <1>3, <1>4 DEF Ended
<1>7. SUFFICES ASSUME Complete' PROVE FALSE
  OBVIOUS
<1>8. \A k \in 1..Len(Texts') : Ended(Texts'[k])
  BY <1>7 DEF Complete, Ended
<1> QED BY <1>5, <1>6, <1>8

LEMMA CutOffTexts ==
  ASSUME Inv, CutOff
  PROVE  /\ partial = <<>> => Texts' = Texts
         /\ partial # <<>> => Texts' = Append(Texts, partial)
<1>1. partial \in Seq(Byte)
  BY FlowTypes
<1>2. CASE partial = <<>>
  BY <1>2 DEF CutOff, Texts
<1>3. CASE partial # <<>>
  BY <1>1, <1>3, TakenMore DEF CutOff
<1> QED BY <1>2, <1>3

LEMMA CutLine ==
  ASSUME Inv, LineInv, Clean, CutOff, state = "open", UNCHANGED <<printed, out>>, Unread' = Unread
  PROVE  LineInv'
<1>1. CASE partial # <<>>
  BY <1>1, CutOffTexts, CutIncomplete DEF LineInv
<1>2. CASE partial = <<>>
  <2>1. Texts' = Texts /\ Flow' = Flow
    BY <1>2, CutOffTexts DEF CutOff, Flow
  <2> QED BY <2>1, LineUsed DEF LineInv, Reading
<1> QED BY <1>1, <1>2

LEMMA ReadMore ==
  ASSUME Inv, FlowInv, LineInv, Clean, Fill \/ Scan \/ Hangup
  PROVE  LineInv'
<1>1. state = "open" /\ UNCHANGED <<out, printed, dropped, foreign>>
  BY DEF Fill, Scan, Hangup, faultVars
<1>2. CASE Fill /\ ~EndOfFile
  <2>1. Unread' = Unread
    BY <1>2, FillFlow
  <2>2. UNCHANGED <<state, partial, passed>>
    BY <1>2 DEF Fill
  <2>3. Flow' = Flow /\ Texts' = Texts
    BY <1>1, <2>1, <2>2 DEF Flow, Texts
  <2> QED BY <1>1, <2>2, <2>3, LineUsed DEF LineInv, Reading
<1>3. CASE Fill /\ EndOfFile
  BY <1>1, <1>3, FillFlow, CutsOff, CutLine
<1>4. CASE Hangup
  <2>1. CutOff
    BY <1>4, CutsOff DEF Hangup
  <2> QED BY <1>1, <1>4, <2>1, CutFlow, CutLine
<1>5. CASE Scan /\ Gather
  <2>1. Cat(partial', Unread') = Cat(partial, Unread) /\ UNCHANGED <<state, passed>>
    BY <1>5, GatherFlow DEF Scan, Gather
  <2>2. Flow' = Flow /\ Texts' = Texts
    BY <1>1, <2>1 DEF Flow, Texts
  <2> QED BY <1>1, <2>1, <2>2, LineUsed DEF LineInv, Reading
<1>6. CASE Scan /\ \E i \in 1..Len(held) : Ends(i) /\ Line(i)
  BY <1>1, <1>6, ReadLine DEF Scan
<1> QED BY <1>2, <1>3, <1>4, <1>5, <1>6 DEF Scan

\* No line is cut by a silence: the board has sent all of it.
LEMMA SilenceCuts ==
  ASSUME Inv, LineInv, Clean, Silence
  PROVE  LineInv' /\ partial = <<>> /\ passed' = passed
<1>1. /\ state = "open" /\ out = <<>> /\ held = <<>> /\ queue = <<>> /\ at = Len(pending)
      /\ partial' = <<>> /\ UNCHANGED <<out, held, queue, at, pending, printed, dropped, foreign>>
      /\ passed' = IF partial = <<>> THEN passed
                   ELSE Append(passed, [shown |-> FALSE, text |-> partial])
  BY DEF Silence, GiveUp, Exhausted
<1>2. /\ partial \in Seq(Byte) /\ Texts \in Seq(Seq(Byte)) /\ \A i \in 1..Len(partial) : partial[i] # "nl"
  <2>1. partial \in Seq(Byte) /\ Texts \in Seq(Seq(Byte)) /\ partial \in Seq(Byte \ {"nl"})
    BY FlowTypes DEF Inv, TypeOK
  <2> QED BY <2>1, ElementOfSeq
<1>3. Flow = partial
  <2>1. Flow = Cat(partial, <<>>)
    BY <1>1, Nothing
  <2> QED BY <1>2, <2>1, CatEmpty
<1>4. Behind(Texts, Flow, printed)
  BY <1>1, LineUsed DEF Reading
<1>5. PICK rest \in Seq(Whole) : Flow = FlattenSeq(rest)
  BY <1>4 DEF Behind
<1>6. partial = <<>>
  <2>1. rest = <<>>
    BY <1>2, <1>3, <1>5, NoLine
  <2> QED BY <1>3, <1>5, <2>1, FlattenEmpty
<1>7. passed' = passed /\ Texts' = Texts /\ Flow' = Flow
  BY <1>1, <1>6 DEF Texts, Flow, Unread, Rest, Queued
<1>8. LineInv'
  BY <1>1, <1>2, <1>4, <1>7, LineFrom
<1> QED BY <1>6, <1>7, <1>8

LEMMA TextsGrow ==
  ASSUME Inv, [Next]_vars
  PROVE  Texts' = Texts \/ \E x \in Seq(Byte) : Texts' = Append(Texts, x)
<1>1. CASE passed' = passed
  BY <1>1 DEF Texts
<1>2. CASE CutOff
  BY <1>2, CutOffTexts, FlowTypes
<1>3. CASE Scan /\ \E i \in 1..Len(held) : Line(i)
  <2>1. PICK i \in 1..Len(held) : Line(i)
    BY <1>3
  <2>2. UNCHANGED <<queue, pending, at>>
    BY <1>3 DEF Scan
  <2>3. Cat(partial, SubSeq(held, 1, i)) \in Seq(Byte)
    BY <2>1, <2>2, LineFlow
  <2>4. Texts' = Append(Texts, Cat(partial, SubSeq(held, 1, i)))
    BY <2>1, <2>2, LineFlow
  <2> QED BY <2>3, <2>4
<1>4. CASE Next
  <2>1. Fill \/ Hangup \/ Silence => passed' = passed \/ CutOff
    <3>1. Fill => passed' = passed \/ EndOfFile
      BY DEF Fill
    <3>2. Hangup \/ Silence => EndOfFile \/ GiveUp
      BY DEF Hangup, Silence
    <3> QED BY <3>1, <3>2, CutsOff
  <2>2. CASE (\E l \in Lines : Emit(l)) \/ Transmit \/ Drop \/ Foreign \/ Unplug \/ Bind \/ Filter
             \/ OpenFails \/ Exit
    BY <1>1, <2>2 DEF Emit, Transmit, Drop, Foreign, Unplug, Bind, Filter, OpenFails, Exit, readerVars
  <2>3. CASE Scan
    BY <1>1, <1>3, <2>3 DEF Scan, Gather
  <2> QED BY <1>1, <1>2, <1>4, <2>1, <2>2, <2>3 DEF Next
<1>5. CASE UNCHANGED vars
  BY <1>1, <1>5 DEF vars, readerVars
<1> QED BY <1>4, <1>5

LEMMA LineStep == ASSUME Inv, FlowInv, StartInv, LineInv, [Next]_vars PROVE LineInv'
<1>1. SUFFICES ASSUME dropped' = 0, foreign' = 0, Complete' PROVE LineInv'
  BY DEF LineInv
<1>2. Clean /\ ~Drop /\ ~Foreign
  <2>1. dropped \in Nat /\ foreign \in Nat
    BY DEF Inv, TypeOK
  <2>2. ~Drop /\ ~Foreign
    BY <1>1, <2>1 DEF Drop, Foreign
  <2>3. dropped' = dropped /\ foreign' = foreign
    BY <2>2 DEF Next, Emit, Transmit, Unplug, Bind, Filter, OpenFails, Fill, Scan, Hangup, Silence, Exit,
                vars, faultVars
  <2>4. Complete
    BY <1>1, TextsGrow, CompleteBefore
  <2> QED BY <1>1, <2>2, <2>3, <2>4 DEF Clean
<1>3. CASE Unplug \/ Bind \/ Filter \/ OpenFails \/ Exit \/ UNCHANGED vars
  <2>1. UNCHANGED <<printed, out, queue, readerVars, dropped, foreign>>
    BY <1>3 DEF Unplug, Bind, Filter, OpenFails, Exit, vars, faultVars
  <2>2. Texts' = Texts /\ Flow' = Flow
    BY <2>1 DEF Texts, Flow, Unread, Rest, Queued, readerVars
  <2>3. Reading' => Reading
    BY <1>3 DEF Unplug, Bind, Filter, OpenFails, Exit, vars, Reading
  <2> QED BY <1>2, <2>1, <2>2, <2>3, LineUsed DEF LineInv, Reading
<1>4. CASE Silence
  BY <1>2, <1>4, SilenceCuts
<1> QED BY <1>2, <1>3, <1>4, EmitLine, TransmitLine, ReadMore DEF Next

LEMMA SuffixIs ==
  ASSUME NEW S, NEW s \in Seq(S), NEW t \in Seq(S), Ending(s, t)
  PROVE  IsSuffix(s, t)
<1> DEFINE n == Len(s)
           m == Len(t)
           rs == Reverse(s)
           rt == Reverse(t)
<1>1. n \in Nat /\ m \in Nat
  BY LenProperties
<1>2. n <= m /\ \A i \in 1..n : s[i] = t[m - n + i]
  BY DEF Ending
<1>3. (\A i \in 1..n : s[i] \in S) /\ \A i \in 1..m : t[i] \in S
  BY ElementOfSeq
<1>4. rs = [i \in 1..n |-> s[(n - i) + 1]] /\ rt = [i \in 1..m |-> t[(m - i) + 1]]
  BY DEF Reverse
<1> HIDE DEF n, m, rs, rt
<1>5. \A i \in 1..n : (n - i) + 1 \in 1..n
  BY <1>1
<1>6. \A i \in 1..m : (m - i) + 1 \in 1..m
  BY <1>1
<1>7. rs \in [1..n -> S] /\ rt \in [1..m -> S]
  BY <1>3, <1>4, <1>5, <1>6
<1>8. rs \in Seq(S) /\ Len(rs) = n /\ rt \in Seq(S) /\ Len(rt) = m
  BY <1>1, <1>7, FunctionIsSeq
<1> DEFINE c == SubSeq(rt, 1, n)
<1>9. c \in Seq(S) /\ Len(c) = n /\ \A i \in 1..n : c[i] = rt[i]
  <2>1. Len(c) = IF 1 <= n THEN n - 1 + 1 ELSE 0
    BY <1>1, <1>2, <1>8, Cut
  <2>2. c \in Seq(S) /\ \A i \in 1..n - 1 + 1 : c[i] = rt[1 + i - 1]
    BY <1>1, <1>2, <1>8, Cut
  <2> HIDE DEF c
  <2>3. Len(c) = n
    BY <1>1, <2>1
  <2>4. \A i \in 1..n : i \in 1..n - 1 + 1 /\ 1 + i - 1 = i
    BY <1>1
  <2> QED BY <2>2, <2>3, <2>4
<1> HIDE DEF c
<1>10. \A i \in 1..n : rs[i] = c[i]
  <2> SUFFICES ASSUME NEW i \in 1..n PROVE rs[i] = c[i]
    OBVIOUS
  <2>1. i \in 1..m /\ (n - i) + 1 \in 1..n /\ m - n + ((n - i) + 1) = (m - i) + 1
    BY <1>1, <1>2
  <2>2. rs[i] = s[(n - i) + 1] /\ rt[i] = t[(m - i) + 1]
    BY <1>4, <2>1
  <2>3. s[(n - i) + 1] = t[m - n + ((n - i) + 1)]
    BY <1>2, <2>1
  <2> QED BY <1>9, <2>1, <2>2, <2>3
<1>11. rs = c
  BY <1>8, <1>9, <1>10, SeqEqual
<1>12. SubSeq(rs, 1, n) = rs
  BY <1>8, SubSeqFull
<1> QED BY <1>2, <1>8, <1>11, <1>12 DEF IsSuffix, IsPrefix, c, rs, rt

(* What the pump shows is what the board printed: every line of it after   *)
(* the first that was heard, in order and byte for byte, however the CAN   *)
(* frames, CanLogReader's cursor and BufReader's buffer cut it; the first  *)
(* one may have lost its beginning.  A line is never cut by a silence once *)
(* the board has sent what it printed.                                     *)
THEOREM LinesAsPrinted == Spec => []ShownAsPrinted
<1>1. ASSUME Inv, LineInv PROVE ShownAsPrinted
  <2>1. SUFFICES ASSUME Clean
                 PROVE  \E skip \in 0..Len(printed) :
                          \A k \in 1..Len(passed) :
                            /\ skip + k <= Len(printed)
                            /\ IF k > 1 THEN passed[k].text = printed[skip + k]
                               ELSE IsSuffix(passed[1].text, printed[skip + 1])
    <3>1. (\A k \in 1..Len(passed) : Last(passed[k].text) = "nl") => Complete
      <4>1. Len(Texts) = Len(passed)
        BY <1>1, FlowTypes
      <4> QED BY <4>1 DEF Complete, Ended, Texts, Last
    <3> QED BY <3>1 DEF ShownAsPrinted, Clean
  <2>2. Right(Texts, printed)
    BY <1>1, <2>1, LineUsed
  <2>3. PICK skip \in Nat :
          /\ skip + Len(Texts) <= Len(printed)
          /\ \A k \in 1..Len(Texts) : Match(Texts[k], k, skip, printed)
    BY <2>2 DEF Right
  <2> DEFINE n == Len(passed)
             m == Len(printed)
  <2>4. Len(Texts) = n /\ n \in Nat /\ m \in Nat /\ printed \in Seq(Lines)
    BY <1>1, FlowTypes, LenProperties DEF Inv, TypeOK
  <2>5. \A k \in 1..n : Texts[k] = passed[k].text
    BY DEF Texts
  <2>6. skip + n <= m
    BY <2>3, <2>4
  <2> HIDE DEF n, m
  <2>7. skip \in 0..m
    BY <2>4, <2>6
  <2>8. ASSUME NEW k \in 1..n
        PROVE  /\ skip + k <= m
               /\ IF k > 1 THEN passed[k].text = printed[skip + k]
                  ELSE IsSuffix(passed[1].text, printed[skip + 1])
    <3>1. skip + k <= m /\ skip + 1 \in 1..m
      BY <2>4, <2>6
    <3>2. Match(passed[k].text, k, skip, printed)
      BY <2>3, <2>4, <2>5
    <3>3. CASE k > 1
      BY <3>1, <3>2, <3>3 DEF Match
    <3>4. CASE ~(k > 1)
      <4>1. k = 1
        BY <3>4
      <4>2. Texts[1] \in Seq(Byte) /\ printed[skip + 1] \in Seq(Byte)
        <5>1. 1 \in 1..Len(Texts) /\ Texts \in Seq(Seq(Byte))
          BY <1>1, <2>4, <4>1, FlowTypes
        <5>2. printed[skip + 1] \in Lines
          BY <2>4, <3>1, ElementOfSeq DEF m
        <5> QED BY <5>1, <5>2, ElementOfSeq, Sizes
      <4>3. passed[1].text \in Seq(Byte)
        BY <2>5, <4>1, <4>2
      <4>4. Ending(passed[1].text, printed[skip + 1])
        BY <3>2, <4>1 DEF Match
      <4>5. IsSuffix(passed[1].text, printed[skip + 1])
        BY <4>2, <4>3, <4>4, SuffixIs
      <4> QED BY <3>1, <3>4, <4>5
    <3> QED BY <3>3, <3>4
  <2> QED BY <2>7, <2>8 DEF n, m
<1>2. Spec => [](FlowInv /\ StartInv /\ LineInv)
  BY LogInv, FlowInit, FlowStep, StartInit, StartStep, LineInit, LineStep, PTL DEF Spec
<1> QED BY <1>1, <1>2, LogInv, PTL

-----------------------------------------------------------------------------
(* What ends the pump *)

\* The end of a line that is text is text, unless it begins inside a character.
LEMMA EndingIsText ==
  ASSUME NEW x \in Whole, NEW l \in Seq(Byte), IsText(l), Ending(x, l), x[1] # "lo"
  PROVE  IsText(x)
<1> DEFINE n == Len(x)
           m == Len(l)
           d == m - n
<1>1. n \in Nat /\ m \in Nat
  BY LenProperties DEF Whole
<1>2. n <= m /\ \A i \in 1..n : x[i] = l[d + i]
  BY DEF Ending
<1>3. /\ \A j \in 1..m : l[j] # "bin"
      /\ \A j \in 1..m : l[j] = "hi" => j < m /\ l[j + 1] = "lo"
      /\ \A j \in 1..m : l[j] = "lo" => j > 1 /\ l[j - 1] = "hi"
  BY DEF IsText
<1>4. d \in Nat /\ d + n = m
  BY <1>1, <1>2
<1> HIDE DEF n, m, d
<1>5. \A i \in 1..n : d + i \in 1..m
  BY <1>1, <1>4
<1>6. \A i \in 1..n : x[i] # "bin"
  BY <1>2, <1>3, <1>5
<1>7. ASSUME NEW i \in 1..n, x[i] = "hi" PROVE i < n /\ x[i + 1] = "lo"
  <2>1. d + i < m /\ l[d + i + 1] = "lo"
    BY <1>2, <1>3, <1>5, <1>7
  <2>2. i + 1 \in 1..n /\ d + i + 1 = d + (i + 1) /\ i < n
    BY <1>1, <1>4, <2>1
  <2>3. x[i + 1] = l[d + (i + 1)]
    BY <1>2, <2>2
  <2> QED BY <2>1, <2>2, <2>3
<1>8. ASSUME NEW i \in 1..n, x[i] = "lo" PROVE i > 1 /\ x[i - 1] = "hi"
  <2>1. i # 1
    BY <1>8
  <2>2. i > 1 /\ i - 1 \in 1..n /\ (d + i) - 1 = d + (i - 1)
    BY <1>1, <1>4, <2>1
  <2>3. l[(d + i) - 1] = "hi"
    <3> DEFINE j == d + i
    <3>1. j \in 1..m /\ l[j] = "lo"
      BY <1>2, <1>5, <1>8
    <3> HIDE DEF j
    <3>2. l[j - 1] = "hi"
      BY <1>3, <3>1
    <3> QED BY <3>2 DEF j
  <2>4. x[i - 1] = l[d + (i - 1)]
    BY <1>2, <2>2
  <2> QED BY <2>2, <2>3, <2>4
<1> QED BY <1>6, <1>7, <1>8 DEF IsText, n

\* The first byte that reached the host is the first of the first line.
LEMMA FirstByte ==
  ASSUME Inv, FlowInv, passed = <<>>, NEW x \in Whole, NEW u \in Seq(Byte),
         Cat(partial, Unread) = Cat(x, u)
  PROVE  arrived # <<>> /\ arrived[1] = x[1]
<1>1. Taken = <<>>
  BY FlattenEmpty DEF Taken
<1>2. x \in Seq(Byte) /\ x # <<>>
  BY DEF Whole
<1>3. Cat(x, u) \in Seq(Byte)
  BY <1>2, CatSeq
<1>4. arrived = Cat(<<>>, Cat(x, u))
  BY <1>1 DEF FlowInv
<1>5. arrived = Cat(x, u)
  BY <1>3, <1>4, CatEmpty
<1>6. Joins(x, u, Cat(x, u))
  BY <1>2, CatBytes
<1>7. Len(x) \in Nat \ {0}
  BY <1>2, EmptySeq, LenProperties
<1> DEFINE n == Len(x)
           m == Len(u)
           a == Len(arrived)
<1>8. n \in Nat \ {0} /\ m \in Nat /\ a = n + m /\ \A i \in 1..n : arrived[i] = x[i]
  BY <1>5, <1>6, <1>7 DEF Joins
<1> HIDE DEF n, m, a
<1>9. a # 0 /\ arrived[1] = x[1]
  BY <1>8
<1>10. Len(<<>>) = 0
  OBVIOUS
<1> QED BY <1>9, <1>10 DEF a

Text == \A l \in Lines : IsText(l)

LEMMA LineEnds ==
  ASSUME Text, Inv, FlowInv, StartInv, LineInv, Clean', LineInv',
         NEW i \in 1..Len(held), Ends(i), Line(i),
         UNCHANGED <<queue, pending, at, printed, arrived>>, state' = "failed"
  PROVE  JoinedMidway
<1> DEFINE x == Cat(partial, SubSeq(held, 1, i))
           u == Unread'
<1>1. Cat(partial, Unread) = Cat(x, u) /\ u \in Seq(Byte)
  BY LineFlow
<1>2. Texts' = Append(Texts, x)
  BY LineFlow
<1>3. x \in Whole /\ x \in Seq(Byte)
  BY LineIsWhole DEF Whole
<1>4. ~IsText(x)
  BY DEF Line, Pass, Cat
<1> HIDE DEF x, u
<1>5. Texts \in Seq(Seq(Byte)) /\ Len(Texts) = Len(passed) /\ Len(passed) \in Nat /\ printed \in Seq(Lines)
  BY FlowTypes DEF Inv, TypeOK
<1>6. Right(Texts', printed)
  BY DEF LineInv, Clean
<1> DEFINE n == Len(passed) + 1
<1>7. n \in Nat /\ n >= 1 /\ Len(Texts') = n /\ Texts'[n] = x
  BY <1>2, <1>3, <1>5, AppendProperties
<1>8. PICK skip \in Nat : skip + n <= Len(printed) /\ Match(x, n, skip, printed)
  <2>1. PICK skip \in Nat : /\ skip + Len(Texts') <= Len(printed)
                            /\ \A k \in 1..Len(Texts') : Match(Texts'[k], k, skip, printed)
    BY <1>6 DEF Right
  <2> HIDE DEF n
  <2>2. n \in 1..n
    BY <1>7
  <2> QED BY <1>7, <2>1, <2>2
<1>9. \A k \in 1..Len(printed) : printed[k] \in Lines
  BY <1>5, ElementOfSeq
<1>10. Len(printed) \in Nat
  BY <1>5, LenProperties
<1>11. n = 1
  <2> SUFFICES ASSUME n # 1 PROVE FALSE
    OBVIOUS
  <2> DEFINE m == Len(printed)
  <2>1. n > 1 /\ skip + n \in 1..m
    <3>1. m \in Nat /\ n \in Nat /\ n >= 1 /\ n # 1 /\ skip + n <= m
      BY <1>7, <1>8, <1>10
    <3> HIDE DEF n, m
    <3> QED BY <3>1
  <2> HIDE DEF n
  <2>2. x = printed[skip + n]
    BY <1>8, <2>1 DEF Match
  <2> QED BY <1>4, <1>9, <2>1, <2>2 DEF Text
<1>12. passed = <<>>
  <2>1. passed \in Seq(Entry) /\ Len(passed) = 0
    BY <1>5, <1>11 DEF Inv, TypeOK, Entry
  <2> QED BY <2>1, EmptySeq
<1> HIDE DEF n
<1>13. Ending(x, printed[skip + 1]) /\ printed[skip + 1] \in Lines
  <2>1. skip + 1 \in 1..Len(printed)
    BY <1>8, <1>10, <1>11
  <2> QED BY <1>8, <1>9, <1>11, <2>1 DEF Match
<1>14. x[1] = "lo"
  <2>1. printed[skip + 1] \in Seq(Byte) /\ IsText(printed[skip + 1])
    BY <1>13, Sizes DEF Text
  <2> QED BY <1>3, <1>4, <1>13, <2>1, EndingIsText
<1>15. arrived # <<>> /\ arrived[1] = x[1]
  BY <1>1, <1>3, <1>12, FirstByte
<1> QED BY <1>14, <1>15 DEF JoinedMidway

LEMMA LineComplete ==
  ASSUME Inv, Complete, NEW i \in 1..Len(held), Ends(i), Line(i), UNCHANGED <<queue, pending, at>>
  PROVE  Complete'
<1> DEFINE x == Cat(partial, SubSeq(held, 1, i))
           n == Len(Texts)
<1>1. x \in Whole
  BY LineIsWhole
<1>2. Texts' = Append(Texts, x)
  BY LineFlow
<1> HIDE DEF x
<1>3. Texts \in Seq(Seq(Byte)) /\ n \in Nat /\ x \in Seq(Byte)
  BY <1>1, FlowTypes DEF Whole
<1>4. Len(Texts') = n + 1 /\ Texts'[n + 1] = x /\ \A k \in 1..n : Texts'[k] = Texts[k]
  BY <1>2, <1>3, AppendProperties
<1>5. Ended(x)
  <2>1. Len(x) \in Nat /\ Len(x) # 0
    BY <1>1, <1>3, EmptySeq, LenProperties DEF Whole
  <2>2. Len(x) \in 1..Len(x)
    BY <2>1
  <2> QED BY <1>1, <2>2 DEF Whole, Ended
<1>6. \A k \in 1..n : Ended(Texts[k])
  BY DEF Complete
<1> HIDE DEF n
<1>7. \A k \in 1..n + 1 : k = n + 1 \/ k \in 1..n
  BY <1>3
<1>8. \A k \in 1..n + 1 : Ended(Texts'[k])
  BY <1>4, <1>5, <1>6, <1>7
<1> QED BY <1>4, <1>8 DEF Complete, Ended

(* Without a foreign frame the queue has no empty one, and then only the   *)
(* loss of a frame or of the board cuts a line off.                        *)
NoneEmpty == \A k \in 1..Len(queue) : queue[k] # <<>>
CauseInv == foreign = 0 => NoneEmpty /\ (dropped = 0 /\ ~gone => Complete)

\* A read of what is not empty gives at least a byte, and leaves nothing empty behind.
LEMMA ReadGives ==
  ASSUME Inv, NoneEmpty, CanRead \/ SerialRead
  PROVE  held' # <<>> /\ NoneEmpty'
<1>1. queue \in Seq(Seq(Byte)) /\ Len(queue) \in Nat /\ pending \in Seq(Byte) /\ at \in 0..Len(pending)
  BY FlowTypes, LenProperties DEF Inv, TypeOK
<1>2. queue # <<>> =>
        /\ Head(queue) \in Seq(Byte) /\ Head(queue) # <<>> /\ Tail(queue) \in Seq(Seq(Byte))
        /\ \A k \in 1..Len(Tail(queue)) : Tail(queue)[k] # <<>>
  <2> SUFFICES ASSUME queue # <<>>
               PROVE  /\ Head(queue) \in Seq(Byte) /\ Head(queue) # <<>> /\ Tail(queue) \in Seq(Seq(Byte))
                      /\ \A k \in 1..Len(Tail(queue)) : Tail(queue)[k] # <<>>
    OBVIOUS
  <2>1. /\ Head(queue) \in Seq(Byte) /\ Tail(queue) \in Seq(Seq(Byte)) /\ Head(queue) = queue[1]
        /\ Len(Tail(queue)) = Len(queue) - 1
        /\ \A k \in 1..Len(Tail(queue)) : Tail(queue)[k] = queue[k + 1]
    BY <1>1, HeadTailProperties
  <2>2. Len(queue) # 0
    BY <1>1, EmptySeq
  <2>3. 1 \in 1..Len(queue) /\ \A k \in 1..Len(queue) - 1 : k + 1 \in 1..Len(queue)
    BY <1>1, <2>2
  <2> QED BY <2>1, <2>3 DEF NoneEmpty
<1>3. CASE CanRead
  <2> DEFINE a == From
             n == Len(Frame)
             h == Len(held')
  <2>1. /\ held' = SubSeq(Frame, a + 1, at') /\ at' = Least(a + BufSize, n)
        /\ queue' = IF Exhausted THEN Tail(queue) ELSE queue
    BY <1>3 DEF CanRead
  <2>2. Exhausted => queue # <<>>
    BY <1>3 DEF CanRead
  <2>3. Frame \in Seq(Byte) /\ n \in Nat /\ a \in Nat /\ a < n
    <3>1. CASE Exhausted
      <4>1. Head(queue) \in Seq(Byte) /\ Head(queue) # <<>>
        BY <1>2, <2>2, <3>1
      <4>2. Len(Head(queue)) \in Nat /\ Len(Head(queue)) # 0
        BY <4>1, EmptySeq, LenProperties
      <4> QED BY <3>1, <4>1, <4>2 DEF Frame, From
    <3>2. CASE ~Exhausted
      <4>1. Len(pending) \in Nat /\ at # Len(pending)
        BY <1>1, <3>2, LenProperties DEF Exhausted
      <4> QED BY <1>1, <3>2, <4>1 DEF Frame, From
    <3> QED BY <3>1, <3>2
  <2>4. BufSize \in Nat \ {0}
    BY Sizes
  <2> HIDE DEF a, n
  <2>5. at' \in Nat /\ a + 1 <= at' /\ at' <= n
    BY <2>1, <2>3, <2>4 DEF Least
  <2>6. h = at' - (a + 1) + 1
    <3>1. a + 1 \in Nat \ {0}
      BY <2>3
    <3>2. h = IF a + 1 <= at' THEN at' - (a + 1) + 1 ELSE 0
      BY <2>1, <2>3, <2>5, <3>1, Cut DEF n
    <3> QED BY <2>5, <3>2
  <2>7. h # 0
    <3>1. \A e \in Nat : a + 1 <= e => e - (a + 1) + 1 # 0
      BY <2>3
    <3> QED BY <2>5, <2>6, <3>1
  <2>8. held' # <<>>
    BY <2>7
  <2>9. NoneEmpty'
    BY <1>2, <2>1, <2>2 DEF NoneEmpty
  <2> QED BY <2>8, <2>9
<1>4. CASE SerialRead
  <2> DEFINE b == Head(queue)
             t == Tail(queue)
             m == Len(b)
             n == Least(BufSize, m)
             c == SubSeq(b, n + 1, m)
             h == Len(held')
  <2>1. queue # <<>> /\ held' = SubSeq(b, 1, n) /\ queue' = IF n = m THEN t ELSE <<c>> \o t
    BY <1>4 DEF SerialRead
  <2>2. /\ b \in Seq(Byte) /\ b # <<>> /\ t \in Seq(Seq(Byte))
        /\ \A k \in 1..Len(t) : t[k] # <<>>
    BY <1>2, <2>1
  <2>3. m \in Nat /\ m # 0 /\ BufSize \in Nat \ {0}
    BY <2>2, EmptySeq, LenProperties, Sizes
  <2>4. n \in Nat /\ n # 0 /\ n <= m
    <3> HIDE DEF m
    <3> QED BY <2>3 DEF Least
  <2> HIDE DEF n, b, t
  <2>5. held' # <<>>
    <3>1. h = IF 1 <= n THEN n - 1 + 1 ELSE 0
      BY <2>1, <2>2, <2>3, <2>4, Cut
    <3> HIDE DEF h
    <3>2. h # 0
      BY <2>4, <3>1
    <3> QED BY <3>2 DEF h
  <2>6. NoneEmpty'
    <3>1. CASE n = m
      BY <2>1, <2>2, <3>1 DEF NoneEmpty
    <3>2. CASE n # m
      <4>1. c \in Seq(Byte) /\ Len(c) = IF n + 1 <= m THEN m - (n + 1) + 1 ELSE 0
        <5>1. n + 1 \in Nat \ {0} /\ m <= Len(b)
          BY <2>3, <2>4
        <5> QED BY <2>2, <2>3, <5>1, Cut
      <4>2. Len(c) # 0
        <5> DEFINE l == Len(c)
        <5>1. l = IF n + 1 <= m THEN m - (n + 1) + 1 ELSE 0
          BY <4>1
        <5> HIDE DEF l, m, c
        <5>2. l # 0
          BY <2>3, <2>4, <3>2, <5>1
        <5> QED BY <5>2 DEF l
      <4> HIDE DEF c
      <4>3. c # <<>>
        BY <4>2
      <4>4. queue' = Cat(<<c>>, t) /\ <<c>> \in Seq(Seq(Byte)) /\ Len(<<c>>) = 1 /\ <<c>>[1] = c
        BY <2>1, <3>2, <4>1 DEF Cat
      <4> DEFINE o == <<c>>
                 q == queue'
      <4>5. /\ Len(q) = 1 + Len(t) /\ q[1] = c /\ Len(t) \in Nat
            /\ \A k \in 1..Len(q) : k = 1 \/ (k - 1 \in 1..Len(t) /\ q[k] = t[k - 1])
        <5>1. q = o \o t /\ o \in Seq(Seq(Byte)) /\ Len(o) = 1 /\ o[1] = c
          BY <4>4 DEF Cat
        <5>2. Len(t) \in Nat
          BY <2>2, LenProperties
        <5> HIDE DEF o, q
        <5>3. /\ Len(o \o t) = Len(o) + Len(t)
              /\ \A k \in 1..Len(o) + Len(t) :
                   (o \o t)[k] = IF k <= Len(o) THEN o[k] ELSE t[k - Len(o)]
          BY <2>2, <5>1, ConcatProperties
        <5>4. \A k \in 1..1 + Len(t) : k = 1 \/ (~(k <= 1) /\ k - 1 \in 1..Len(t))
          BY <5>2
        <5>5. 1 \in 1..1 + Len(t) /\ 1 <= 1
          BY <5>2
        <5>6. Len(q) = 1 + Len(t) /\ q[1] = c
          BY <5>1, <5>2, <5>3, <5>5
        <5>7. \A k \in 1..1 + Len(t) : ~(k <= 1) => q[k] = t[k - 1]
          BY <5>1, <5>3
        <5> QED BY <5>2, <5>4, <5>6, <5>7
      <4> HIDE DEF q
      <4>6. \A k \in 1..Len(q) : q[k] # <<>>
        BY <2>2, <4>3, <4>5
      <4> QED BY <4>6 DEF NoneEmpty, q
    <3> QED BY <3>1, <3>2
  <2> QED BY <2>5, <2>6
<1> QED BY <1>3, <1>4

\* The first byte stays the first.
LEMMA StaysMidway == ASSUME Inv, [Next]_vars, JoinedMidway PROVE JoinedMidway'
<1>1. arrived \in Seq(Byte) /\ arrived # <<>> /\ out \in Seq(Byte)
  BY FlowTypes DEF JoinedMidway
<1>2. CASE arrived' = arrived
  BY <1>2 DEF JoinedMidway
<1>3. ASSUME NEW b \in Seq(Byte), arrived' = Cat(arrived, b) PROVE JoinedMidway'
  <2>1. Joins(arrived, b, arrived')
    BY <1>1, <1>3, CatBytes
  <2> DEFINE n == Len(arrived)
             m == Len(b)
             a == Len(arrived')
  <2>2. n # 0
    BY <1>1, EmptySeq
  <2>3. n \in Nat /\ m \in Nat /\ a = n + m /\ \A j \in 1..n : arrived'[j] = arrived[j]
    BY <2>1 DEF Joins
  <2> HIDE DEF n, m, a
  <2>4. arrived'[1] = arrived[1] /\ a # 0
    BY <2>2, <2>3
  <2>5. Len(<<>>) = 0
    OBVIOUS
  <2>6. arrived' # <<>>
    BY <2>4, <2>5 DEF a
  <2> QED BY <2>4, <2>6 DEF JoinedMidway
<1>4. \A b : Arrive(b) => arrived' = arrived \/ arrived' = Cat(arrived, b)
  BY DEF Arrive, Cat
<1>5. CASE Transmit
  <2>1. PICK n \in 1..FrameSize : n <= Len(out) /\ Arrive(SubSeq(out, 1, n))
    BY <1>5 DEF Transmit
  <2>2. SubSeq(out, 1, n) \in Seq(Byte)
    BY <1>1, <2>1, Sizes, Cut
  <2> QED BY <1>2, <1>3, <1>4, <2>1, <2>2
<1>6. CASE Foreign
  <2>1. PICK b \in {<<"bin">>, <<"a">>, <<>>} : Arrive(b)
    BY <1>6 DEF Foreign
  <2>2. b \in Seq(Byte)
    BY StrayFrames DEF Frames
  <2> QED BY <1>2, <1>3, <1>4, <2>1, <2>2
<1>7. CASE Drop \/ Unplug \/ Bind \/ Filter \/ OpenFails \/ Exit \/ Fill \/ Scan \/ Hangup \/ Silence
           \/ (\E l \in Lines : Emit(l)) \/ UNCHANGED vars
  BY <1>2, <1>7 DEF Drop, Unplug, Bind, Filter, OpenFails, Exit, Fill, Scan, Hangup, Silence, Emit, vars
<1> QED BY <1>5, <1>6, <1>7 DEF Next

\* Faults are not undone.
LEMMA FaultsStay ==
  ASSUME Inv, [Next]_vars
  PROVE  /\ source' = source /\ (gone => gone')
         /\ (dropped > 0 => dropped' > 0) /\ (foreign > 0 => foreign' > 0) /\ (silences > 0 => silences' > 0)
         /\ (foreign' = 0 => foreign = 0) /\ (dropped' = 0 => dropped = 0)
<1>1. dropped \in Nat /\ foreign \in Nat /\ silences \in Nat
  BY DEF Inv, TypeOK
<1>2. CASE (\E l \in Lines : Emit(l)) \/ Transmit \/ Bind \/ Filter \/ OpenFails \/ Fill \/ Scan \/ Hangup
           \/ Exit \/ UNCHANGED vars
  <2>1. UNCHANGED <<source, faultVars>>
    BY <1>2 DEF Emit, Transmit, Bind, Filter, OpenFails, Fill, Scan, Hangup, Exit, vars
  <2> QED BY <1>1, <2>1 DEF faultVars
<1>3. CASE Drop
  BY <1>1, <1>3 DEF Drop
<1>4. CASE Foreign
  BY <1>1, <1>4 DEF Foreign
<1>5. CASE Silence
  BY <1>1, <1>5 DEF Silence
<1>6. CASE Unplug
  BY <1>1, <1>6 DEF Unplug
<1> QED BY <1>2, <1>3, <1>4, <1>5, <1>6 DEF Next

LEMMA CauseInit == Init => CauseInv
<1> SUFFICES ASSUME Init PROVE CauseInv
  OBVIOUS
<1>1. Len(queue) = 0 /\ Texts = <<>>
  BY DEF Init, Texts
<1>2. Len(Texts) = 0
  BY <1>1
<1> QED BY <1>1, <1>2 DEF CauseInv, NoneEmpty, Complete

\* A frame of the log has a byte.
LEMMA TransmitSome ==
  ASSUME Inv, NoneEmpty, Transmit
  PROVE  NoneEmpty'
<1>1. PICK n \in 1..FrameSize : n <= Len(out) /\ Arrive(SubSeq(out, 1, n))
  BY DEF Transmit
<1> DEFINE b == SubSeq(out, 1, n)
           m == Len(queue)
<1>2. b \in Seq(Byte) /\ b # <<>>
  <2>1. n \in Nat /\ n # 0 /\ out \in Seq(Byte)
    BY <1>1, FlowTypes, Sizes
  <2>2. b \in Seq(Byte) /\ Len(b) = IF 1 <= n THEN n - 1 + 1 ELSE 0
    BY <1>1, <2>1, Cut
  <2> HIDE DEF b
  <2>3. Len(b) # 0
    BY <2>1, <2>2
  <2> QED BY <2>2, <2>3
<1> HIDE DEF b
<1>3. queue \in Seq(Seq(Byte)) /\ m \in Nat
  BY FlowTypes, LenProperties
<1>4. CASE queue' = Append(queue, b)
  <2> DEFINE q == queue'
  <2>1. Len(q) = m + 1 /\ q[m + 1] = b /\ \A k \in 1..m : q[k] = queue[k]
    BY <1>2, <1>3, <1>4, AppendProperties
  <2> HIDE DEF q
  <2>2. \A k \in 1..m : queue[k] # <<>>
    BY DEF NoneEmpty
  <2> HIDE DEF m
  <2>3. \A k \in 1..m + 1 : k = m + 1 \/ k \in 1..m
    BY <1>3
  <2>4. \A k \in 1..Len(q) : q[k] # <<>>
    BY <1>2, <2>1, <2>2, <2>3
  <2> QED BY <2>4 DEF NoneEmpty, q
<1>5. CASE queue' = queue
  BY <1>5 DEF NoneEmpty
<1> QED BY <1>1, <1>4, <1>5 DEF Arrive, b

LEMMA CauseStep ==
  ASSUME Inv, FlowInv, LineInv, CauseInv, [Next]_vars
  PROVE  CauseInv'
<1>1. SUFFICES ASSUME foreign' = 0 PROVE NoneEmpty' /\ (dropped' = 0 /\ ~gone' => Complete')
  BY DEF CauseInv
<1>2. foreign = 0 /\ NoneEmpty /\ (dropped' = 0 /\ ~gone' => Complete /\ dropped = 0 /\ ~gone)
  BY <1>1, FaultsStay DEF CauseInv
<1>3. CASE UNCHANGED <<queue, passed>>
  <2>1. Texts' = Texts
    BY <1>3 DEF Texts
  <2>2. Complete => Complete'
    BY <2>1 DEF Complete, Ended
  <2>3. NoneEmpty'
    BY <1>2, <1>3 DEF NoneEmpty
  <2> QED BY <1>2, <2>2, <2>3
<1>4. CASE Transmit
  <2>1. Texts' = Texts
    BY <1>4 DEF Transmit, readerVars, Texts
  <2>2. Complete => Complete'
    BY <2>1 DEF Complete, Ended
  <2> QED BY <1>2, <1>4, <2>2, TransmitSome
<1>5. CASE Fill
  <2>1. held' # <<>> /\ NoneEmpty'
    BY <1>2, <1>5, ReadGives DEF Fill
  <2>2. passed' = passed
    BY <1>5, <2>1 DEF Fill
  <2>3. Texts' = Texts
    BY <2>2 DEF Texts
  <2>4. Complete => Complete'
    BY <2>3 DEF Complete, Ended
  <2> QED BY <1>2, <2>1, <2>4
<1>6. CASE Scan
  <2>1. UNCHANGED <<queue, pending, at>> /\ NoneEmpty'
    BY <1>2, <1>6 DEF Scan, NoneEmpty
  <2>2. CASE passed' = passed
    BY <1>3, <2>1, <2>2
  <2>3. CASE \E i \in 1..Len(held) : Ends(i) /\ Line(i)
    BY <1>2, <2>1, <2>3, LineComplete
  <2> QED BY <1>6, <2>2, <2>3 DEF Scan, Gather
<1>7. CASE Silence
  <2>1. CASE Complete /\ dropped = 0
    BY <1>2, <1>3, <1>7, <2>1, SilenceCuts DEF Silence, Clean
  <2>2. CASE ~(Complete /\ dropped = 0)
    BY <1>2, <1>7, <2>2 DEF Silence, NoneEmpty
  <2> QED BY <2>1, <2>2
<1>8. CASE Hangup
  <2>1. gone' /\ queue' = queue
    BY <1>8 DEF Hangup, faultVars
  <2> QED BY <1>2, <2>1 DEF NoneEmpty
<1>9. CASE Foreign
  BY <1>1, <1>9 DEF Foreign, Inv, TypeOK
<1>10. CASE (\E l \in Lines : Emit(l)) \/ Drop \/ Unplug \/ Bind \/ Filter \/ OpenFails \/ Exit \/ UNCHANGED vars
  BY <1>3, <1>10 DEF Emit, Drop, Unplug, Bind, Filter, OpenFails, Exit, vars, readerVars
<1> QED BY <1>4, <1>5, <1>6, <1>7, <1>8, <1>9, <1>10 DEF Next

LEMMA FailsForACause ==
  ASSUME Text, Inv, FlowInv, StartInv, LineInv, CauseInv, EndsForACause, [Next]_vars, state' = "failed"
  PROVE  \/ dropped' > 0 \/ foreign' > 0 \/ JoinedMidway' \/ gone'
         \/ source' = "Can" /\ silences' > 0
<1>1. dropped \in Nat /\ foreign \in Nat /\ silences \in Nat
  BY DEF Inv, TypeOK
<1>2. CASE state = "failed"
  BY <1>2, FaultsStay, StaysMidway DEF EndsForACause
<1>3. CASE foreign > 0 \/ dropped > 0 \/ gone
  BY <1>3, FaultsStay
<1>4. SUFFICES ASSUME state # "failed", foreign = 0, dropped = 0, ~gone
               PROVE  JoinedMidway' \/ foreign' > 0 \/ (source' = "Can" /\ silences' > 0)
  BY <1>1, <1>2, <1>3
<1>5. Complete /\ NoneEmpty
  BY <1>4 DEF CauseInv
<1>6. CASE Silence
  <2>1. source' = "Can" /\ silences' = silences + 1
    BY <1>6 DEF Silence
  <2> QED BY <1>1, <2>1
<1>7. CASE Fill
  <2>1. held' # <<>>
    BY <1>5, <1>7, ReadGives DEF Fill
  <2> QED BY <1>7, <2>1 DEF Fill
<1>8. CASE Scan
  <2>1. UNCHANGED <<queue, pending, at, printed, arrived, dropped, foreign>> /\ state = "open"
    BY <1>8 DEF Scan, faultVars
  <2>2. PICK i \in 1..Len(held) : Ends(i) /\ Line(i)
    BY <1>8, <2>1 DEF Scan, Gather
  <2>3. Complete'
    BY <1>5, <2>1, <2>2, LineComplete
  <2>4. Clean'
    BY <1>4, <2>1, <2>3 DEF Clean
  <2>5. LineInv'
    BY LineStep
  <2>6. JoinedMidway
    BY <2>1, <2>2, <2>4, <2>5, LineEnds
  <2>7. JoinedMidway'
    BY <2>6, StaysMidway
  <2> QED BY <2>7
<1>9. CASE Hangup
  BY <1>4, <1>9 DEF Hangup
<1>10. CASE (\E l \in Lines : Emit(l)) \/ Transmit \/ Drop \/ Foreign \/ Unplug \/ Bind \/ Filter \/ OpenFails
            \/ Exit \/ UNCHANGED vars
  BY <1>4, <1>10 DEF Emit, Transmit, Drop, Foreign, Unplug, Bind, Filter, OpenFails, Exit, vars
<1> QED BY <1>6, <1>7, <1>8, <1>9, <1>10 DEF Next

LEMMA EndsStep ==
  ASSUME Text, Inv, FlowInv, StartInv, LineInv, CauseInv, EndsForACause, [Next]_vars
  PROVE  EndsForACause'
<1>1. ASSUME state' = "ended" PROVE foreign' > 0 \/ (source' = "Serial" /\ gone')
  <2>1. CASE state = "ended"
    BY <2>1, FaultsStay DEF EndsForACause
  <2>2. CASE Fill
    <3>1. foreign # 0 \/ held' # <<>>
      BY <2>2, ReadGives DEF Fill, CauseInv
    <3>2. held' # <<>> => state' = "open"
      BY <2>2 DEF Fill
    <3>3. foreign \in Nat /\ foreign # 0
      BY <1>1, <3>1, <3>2 DEF Inv, TypeOK
    <3> QED BY <3>3, FaultsStay
  <2>3. CASE Hangup
    BY <1>1, <2>3, FaultsStay DEF Hangup
  <2>4. CASE state # "ended" /\ ~Fill /\ ~Hangup
    BY <1>1, <2>4 DEF Next, Emit, Transmit, Drop, Foreign, Unplug, Bind, Filter, OpenFails, Scan, Gather,
                      Line, Pass, Silence, Exit, vars
  <2> QED BY <2>1, <2>2, <2>3, <2>4
<1>2. ASSUME state' = "failed"
      PROVE  \/ dropped' > 0 \/ foreign' > 0 \/ JoinedMidway' \/ gone'
             \/ source' = "Can" /\ silences' > 0
  BY <1>2, FailsForACause
<1> QED BY <1>1, <1>2 DEF EndsForACause

(* Where the application prints text, the pump returns Ok only after an    *)
(* empty frame or a port that hung up, and an error only for a dropped     *)
(* frame, a frame that was not the log's, a character whose first byte was *)
(* sent before anyone listened, an hour of silence on CAN, or a port or    *)
(* interface that is gone: a character cut in two by a frame, a cursor or  *)
(* a buffer is put together before read_line looks at it.                  *)
THEOREM PumpEndsForACause == Text => (Spec => []EndsForACause)
<1>1. Init => EndsForACause
  BY DEF Init, EndsForACause
<1> SUFFICES ASSUME Text PROVE Spec => []EndsForACause
  OBVIOUS
<1>2. Inv /\ FlowInv /\ StartInv /\ LineInv /\ CauseInv /\ EndsForACause /\ [Next]_vars => EndsForACause'
  BY EndsStep
<1>3. Inv /\ FlowInv /\ LineInv /\ CauseInv /\ [Next]_vars => CauseInv'
  BY CauseStep
<1> QED BY <1>1, <1>2, <1>3, LogInv, FlowInit, FlowStep, StartInit, StartStep, LineInit, LineStep,
           CauseInit, PTL DEF Spec
=============================================================================
