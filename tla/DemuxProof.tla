----------------------------- MODULE DemuxProof -----------------------------
(***************************************************************************)
(* The demultiplexer, for any traffic and however the reads cut it:        *)
(* dropping it closes the port, and the SMP client and the log sink each   *)
(* get what was written for them, whole, in order and once.  Sequences are *)
(* joined by Cat, which is \o under a name of its own, so that a proof can *)
(* leave it unexpanded.                                                    *)
(***************************************************************************)
EXTENDS Demux, SequenceTheorems, WellFoundedInduction, TLAPS

(* ClosedMeansFree is not inductive: a closed client says nothing about    *)
(* the reader unless every handle is tied to the thread that owns it, and  *)
(* closing to the reader's end.                                            *)
HandleInv ==
  /\ handles \subseteq {"reader", "writer"}
  /\ "reader" \in handles <=> reader # "done"
  /\ "writer" \in handles <=> client # "closed"
  /\ client = "closed" => reader = "done"

\* Handles follow the two threads through every step of either.
LEMMA HandleStep ==
  ASSUME HandleInv, [Next]_vars
  PROVE  HandleInv'
<1> USE DEF HandleInv
<1>1. CASE \E b \in Bodies : Fresh(b) /\ \E l \in Lines(b) : Emit(l)
  BY <1>1 DEF Emit, pumpVars, callVars
<1>2. CASE Detach
  BY <1>2 DEF Detach, pumpVars, callVars
<1>3. CASE PumpStops
  BY <1>3 DEF PumpStops, callVars
<1>4. CASE PumpFails
  BY <1>4 DEF PumpFails, callVars
<1>5. CASE Route
  <2>1. /\ reader # "done" /\ reader' # "done"
        /\ UNCHANGED <<client, handles>>
    BY <1>5 DEF Route, callVars
  <2> QED BY <2>1
<1>6. CASE \E n \in 1..Len(wire) : PumpReads(n)
  BY <1>6 DEF PumpReads, callVars
<1>7. CASE ReadTimesOut \/ ReadEof
  BY <1>7 DEF ReadTimesOut, ReadEof, pumpVars
<1>8. CASE \E n \in 1..Len(Available) : Read(n)
  <2>1. UNCHANGED <<reader, client, handles>>
    BY <1>8 DEF Read
  <2> QED BY <2>1
<1>9. CASE Open
  BY <1>9 DEF Open
<1>10. CASE Drop
  BY <1>10 DEF Drop, pumpVars
<1>11. CASE Close
  BY <1>11 DEF Close, pumpVars
<1>12. CASE UNCHANGED vars
  BY <1>12 DEF vars
<1> QED
  BY <1>1, <1>2, <1>3, <1>4, <1>5, <1>6, <1>7, <1>8, <1>9, <1>10, <1>11, <1>12
  DEF Next, Pump, Reads

(* Whatever the device writes and however the reads fall, the port is      *)
(* closed once Drop has returned: reconnect never meets its own lock       *)
(* (LogDemux::drop, serialport's flock).                                   *)
THEOREM DropClosesPort == Spec => []ClosedMeansFree
<1>1. Init => HandleInv
  BY DEF Init, HandleInv
<1>2. HandleInv => ClosedMeansFree
  BY DEF HandleInv, ClosedMeansFree
<1> QED
  BY <1>1, <1>2, HandleStep, PTL DEF Spec

-----------------------------------------------------------------------------
(* Types: what is cut from a sequence, or put together, is one again. *)

LEMMA Piece ==
  ASSUME NEW S, NEW s \in Seq(S), NEW m \in Nat \ {0}, NEW n \in Nat, n <= Len(s)
  PROVE  /\ SubSeq(s, m, n) \in Seq(S)
         /\ Len(SubSeq(s, m, n)) = IF m <= n THEN n - m + 1 ELSE 0
<1>1. \A i \in m..n : s[i] \in S
  BY ElementOfSeq, LenProperties
<1> QED BY <1>1, SubSeqProperties

LEMMA DemuxInitType == Init => TypeOK
<1>1. /\ <<>> \in Seq(Bytes) /\ <<>> \in Seq(Seq(Bytes))
      /\ <<>> \in Seq(Bytes \ {"n"})
  OBVIOUS
<1>2. 0 \in 0..MaxOpens
  BY DemuxAssumption
<1> QED BY <1>1, <1>2 DEF Init, TypeOK

LEMMA DeviceType ==
  ASSUME TypeOK, NEW b \in Bodies, NEW l \in Lines(b), Emit(l)
  PROVE  TypeOK'
<1>1. {b, "m", "r", "n"} \subseteq Bytes
  BY DEF Bytes
<1>2. <<"m", b, "n">> \in Seq(Bytes) /\ <<b, "n">> \in Seq(Bytes)
  BY <1>1
<1>3. <<b, "r", "n">> \in Seq(Bytes) /\ <<"r", "n">> \in Seq(Bytes)
  BY <1>1
<1>4. l \in Seq(Bytes)
  BY <1>2, <1>3 DEF Lines
<1>5. wire' \in Seq(Bytes) /\ sent' \in Seq(Seq(Bytes))
  BY <1>4, ConcatProperties, AppendProperties DEF Emit, TypeOK
<1> QED BY <1>5 DEF Emit, TypeOK, pumpVars, callVars

LEMMA PumpReadsType ==
  ASSUME TypeOK, NEW n \in 1..Len(wire), PumpReads(n)
  PROVE  TypeOK'
<1>1. wire \in Seq(Bytes) /\ Len(wire) \in Nat
  BY LenProperties DEF TypeOK
<1>2. buf' \in Seq(Bytes) /\ wire' \in Seq(Bytes)
  BY <1>1, Piece DEF PumpReads
<1>3. Len(buf') = n
  BY <1>1, Piece DEF PumpReads
<1>4. buf' # <<>>
  BY <1>3
<1> QED BY <1>2, <1>4 DEF PumpReads, TypeOK, callVars

LEMMA RouteType == ASSUME TypeOK, Route PROVE TypeOK'
<1>1. buf \in Seq(Bytes) /\ buf # <<>> /\ line \in Seq(Bytes \ {"n"}) /\ line \in Seq(Bytes)
  <2>1. line \in Seq(Bytes \ {"n"})
    BY DEF TypeOK
  <2>2. Seq(Bytes \ {"n"}) \subseteq Seq(Bytes)
    BY SeqMonotonic
  <2> QED BY <2>1, <2>2 DEF TypeOK, Route
<1>2. Head(buf) \in Bytes /\ buf' \in Seq(Bytes)
  BY <1>1, HeadTailProperties DEF Route
<1>3. reader' \in {"read", "route"} /\ (reader' = "route" <=> buf' # <<>>)
  BY DEF Route
<1>4. line' \in Seq(Bytes \ {"n"})
  <2>1. CASE Head(buf) # "n"
    <3>1. Head(buf) \in Bytes \ {"n"} /\ line' = Append(line, Head(buf))
      BY <1>2, <2>1 DEF Route
    <3> QED BY <1>1, <3>1, AppendProperties
  <2>2. CASE Head(buf) = "n"
    <3>1. line' = <<>>
      BY <2>2 DEF Route
    <3> QED BY <3>1
  <2> QED BY <2>1, <2>2
<1>5. Append(line, "n") \in Seq(Bytes)
  BY <1>1, AppendProperties DEF Bytes
<1>6. Trim(line) \in Seq(Bytes)
  <2>1. CASE line # <<>> /\ line[Len(line)] = "r"
    <3>1. Len(line) \in Nat \ {0}
      BY <1>1, <2>1, LenProperties
    <3>2. Len(line) - 1 \in Nat /\ Len(line) - 1 <= Len(line)
      BY <3>1
    <3>3. SubSeq(line, 1, Len(line) - 1) \in Seq(Bytes)
      BY <1>1, <3>2, Piece
    <3> QED BY <2>1, <3>3 DEF Trim
  <2>2. CASE ~(line # <<>> /\ line[Len(line)] = "r")
    BY <1>1, <2>2 DEF Trim
  <2> QED BY <2>1, <2>2
<1>7. queue' \in Seq(Seq(Bytes)) /\ out' \in Seq(Seq(Bytes))
  <2>1. queue \in Seq(Seq(Bytes)) /\ out \in Seq(Seq(Bytes))
    BY DEF TypeOK
  <2>2. /\ Append(queue, Append(line, "n")) \in Seq(Seq(Bytes))
        /\ Append(out, Trim(line)) \in Seq(Seq(Bytes))
    BY <1>5, <1>6, <2>1, AppendProperties
  <2>3. /\ queue' \in {queue, Append(queue, Append(line, "n"))}
        /\ out' \in {out, Append(out, Trim(line))}
    BY DEF Route
  <2> QED BY <2>1, <2>2, <2>3
<1> QED BY <1>2, <1>3, <1>4, <1>7 DEF Route, TypeOK, linkVars, callVars

LEMMA ReadType ==
  ASSUME TypeOK, NEW n \in 1..Len(Available), Read(n)
  PROVE  TypeOK'
<1>1. queue \in Seq(Seq(Bytes)) /\ pending \in Seq(Bytes) /\ got \in Seq(Bytes)
  BY DEF TypeOK
<1>2. Available \in Seq(Bytes)
  BY <1>1, HeadTailProperties DEF Available
<1>3. Len(Available) \in Nat
  BY <1>2, LenProperties
<1>4. SubSeq(Available, 1, n) \in Seq(Bytes) /\ pending' \in Seq(Bytes)
  BY <1>2, <1>3, Piece DEF Read
<1>5. got' \in Seq(Bytes)
  BY <1>1, <1>4, ConcatProperties DEF Read
<1>6. pending = <<>> => queue # <<>>
  <2> SUFFICES ASSUME pending = <<>>, queue = <<>> PROVE FALSE
    OBVIOUS
  <2>1. Available = <<>>
    BY DEF Available
  <2>2. Len(Available) = 0
    BY <2>1, EmptySeq
  <2> QED BY <2>2
<1>7. queue' \in Seq(Seq(Bytes))
  BY <1>1, <1>6, HeadTailProperties DEF Read
<1> QED BY <1>4, <1>5, <1>7 DEF Read, TypeOK, linkVars

LEMMA OpenType == ASSUME TypeOK, Open PROVE TypeOK'
<1>1. \A b \in Bodies : <<b, "n">> \in Seq(Bytes)
  BY DEF Bytes
<1>2. wire' \in Seq(Bytes)
  <2>1. PICK b \in Bodies : wire' \in {<<>>, <<b, "n">>}
    BY DEF Open
  <2>2. <<>> \in Seq(Bytes) /\ <<b, "n">> \in Seq(Bytes)
    BY <1>1
  <2>3. wire' = <<>> \/ wire' = <<b, "n">>
    BY <2>1
  <2> QED BY <2>2, <2>3
<1>3. sent' \in Seq(Seq(Bytes))
  <2>1. sent' = <<>> \/ sent' = <<wire'>>
    BY DEF Open
  <2>2. <<>> \in Seq(Seq(Bytes)) /\ <<wire'>> \in Seq(Seq(Bytes))
    BY <1>2
  <2> QED BY <2>1, <2>2
<1>4. opens' \in 0..MaxOpens
  BY DemuxAssumption DEF Open, TypeOK
<1>5. /\ <<>> \in Seq(Bytes) /\ <<>> \in Seq(Seq(Bytes))
      /\ <<>> \in Seq(Bytes \ {"n"})
  OBVIOUS
<1>6. /\ reader' = "read" /\ buf' = <<>> /\ line' = <<>> /\ queue' = <<>> /\ out' = <<>>
      /\ pending' = <<>> /\ got' = <<>> /\ client' = "open" /\ result' = "none"
      /\ stop' \in BOOLEAN /\ gone' \in BOOLEAN /\ handles' \subseteq {"reader", "writer"}
  BY DEF Open
<1> QED BY <1>2, <1>3, <1>4, <1>5, <1>6 DEF TypeOK

LEMMA TypeStep == ASSUME TypeOK, [Next]_vars PROVE TypeOK'
<1>1. CASE \E b \in Bodies : Fresh(b) /\ \E l \in Lines(b) : Emit(l)
  BY <1>1, DeviceType
<1>2. CASE Detach
  BY <1>2 DEF Detach, TypeOK, pumpVars, callVars
<1>3. CASE PumpStops \/ PumpFails
  BY <1>3 DEF PumpStops, PumpFails, TypeOK, linkVars, callVars
<1>4. CASE Route
  BY <1>4, RouteType
<1>5. CASE \E n \in 1..Len(wire) : PumpReads(n)
  BY <1>5, PumpReadsType
<1>6. CASE ReadTimesOut \/ ReadEof
  BY <1>6 DEF ReadTimesOut, ReadEof, TypeOK, linkVars, pumpVars
<1>7. CASE \E n \in 1..Len(Available) : Read(n)
  BY <1>7, ReadType
<1>8. CASE Open
  BY <1>8, OpenType
<1>9. CASE Drop
  BY <1>9 DEF Drop, TypeOK, linkVars, pumpVars
<1>10. CASE Close
  BY <1>10 DEF Close, TypeOK, linkVars, pumpVars
<1>11. CASE UNCHANGED vars
  BY <1>11 DEF vars, TypeOK
<1> QED
  BY <1>1, <1>2, <1>3, <1>4, <1>5, <1>6, <1>7, <1>8, <1>9, <1>10, <1>11 DEF Next, Pump, Reads

(* The demultiplexer is type-correct: the line being put together never    *)
(* holds a newline (pump), however the reads cut the bytes.                *)
THEOREM DemuxTypeOK == Spec => []TypeOK
BY DemuxInitType, TypeStep, PTL DEF Spec

-----------------------------------------------------------------------------
(* Concatenation of a sequence of sequences (FlattenSeq), by induction on  *)
(* its length: each induction is over a set, T, of the values for which    *)
(* the claim holds.                                                        *)

\* The least-number principle, stated for sets.
LEMMA Smallest ==
  ASSUME NEW T, T \subseteq Nat, T # {}
  PROVE  \E n \in T : \A m \in T : n <= m
<1> DEFINE R == {ss \in Nat \X Nat : ss[1] < ss[2]}
<1>1. IsWellFoundedOn(R, Nat)
  BY NatLessThanWellFounded DEF OpToRel
<1> HIDE DEF R
<1>2. PICK n \in T : \A m \in T : ~(<<m, n>> \in R)
  BY <1>1, WFMin
<1>3. \A m \in T : <<m, n>> \in R <=> m < n
  BY DEF R
<1>4. \A m \in T : m \in Nat /\ n \in Nat /\ ~(m < n)
  BY <1>2, <1>3
<1>5. \A m \in T : n <= m
  BY <1>4
<1> QED BY <1>5

\* Induction over the naturals, for a set in place of a predicate.
LEMMA Induction ==
  ASSUME NEW S, 0 \in S, \A n \in Nat : n \in S => n + 1 \in S
  PROVE  \A n \in Nat : n \in S
<1> SUFFICES ASSUME Nat \ S # {} PROVE FALSE
  OBVIOUS
<1>1. PICK n \in Nat \ S : \A m \in Nat \ S : n <= m
  BY Smallest
<1>2. n # 0 /\ n - 1 \in Nat /\ ~(n <= n - 1)
  BY <1>1
<1>3. n - 1 \in S
  BY <1>1, <1>2
<1> QED BY <1>2, <1>3

\* Induction over sequences, by Append.
LEMMA SeqInduction ==
  ASSUME NEW S, NEW T, <<>> \in T,
         \A s \in Seq(S), e \in S : s \in T => Append(s, e) \in T
  PROVE  \A s \in Seq(S) : s \in T
<1> DEFINE L == {n \in Nat : \A s \in Seq(S) : Len(s) = n => s \in T}
<1>1. 0 \in L
  BY EmptySeq
<1>2. ASSUME NEW n \in Nat, n \in L PROVE n + 1 \in L
  <2> SUFFICES ASSUME NEW s \in Seq(S), Len(s) = n + 1 PROVE s \in T
    OBVIOUS
  <2>1. s # <<>>
    BY EmptySeq
  <2>2. PICK t \in Seq(S), e \in S : s = Append(t, e)
    BY <2>1, SequenceEmptyOrAppend
  <2>3. Len(t) = n
    BY <2>2, AppendProperties, LenProperties
  <2> QED BY <1>2, <2>2, <2>3
<1> HIDE DEF L
<1>3. \A n \in Nat : n \in L
  BY <1>1, <1>2, Induction
<1> QED BY <1>3, LenProperties DEF L

\* The recurrence FlattenSeq is defined by.
Upto(q, n, f) == \A i \in 1..n : f[i] = IF i = 1 THEN q[i] ELSE f[i - 1] \o q[i]
Flattens(q, f) == f = [i \in 1..Len(q) |-> IF i = 1 THEN q[i] ELSE f[i - 1] \o q[i]]

LEMMA FlattenDef ==
  ASSUME NEW q, Len(q) # 0
  PROVE  FlattenSeq(q) = (CHOOSE f : Flattens(q, f))[Len(q)]
BY DEF FlattenSeq, Flattens

LEMMA FlattensIs ==
  ASSUME NEW q, NEW f, Len(q) \in Nat
  PROVE  Flattens(q, f) => Upto(q, Len(q), f)
<1> SUFFICES ASSUME Flattens(q, f), NEW i \in 1..Len(q)
             PROVE  f[i] = IF i = 1 THEN q[i] ELSE f[i - 1] \o q[i]
  BY DEF Upto
<1> DEFINE e(j) == IF j = 1 THEN q[j] ELSE f[j - 1] \o q[j]
<1>1. f = [j \in 1..Len(q) |-> e(j)]
  BY DEF Flattens
<1> HIDE DEF e
<1>2. f[i] = e(i)
  BY <1>1
<1> QED BY <1>2 DEF e

LEMMA UptoFirst ==
  ASSUME NEW q, NEW n \in Nat, NEW f, Upto(q, n, f), 1 \in 1..n
  PROVE  f[1] = q[1]
BY DEF Upto

LEMMA UptoNext ==
  ASSUME NEW q, NEW n \in Nat, NEW f, Upto(q, n, f), NEW i \in 1..n, i + 1 <= n
  PROVE  f[i + 1] = f[i] \o q[i + 1]
<1> DEFINE j == i + 1
<1>1. j \in 1..n /\ j # 1 /\ j - 1 = i
  OBVIOUS
<1> HIDE DEF j
<1>2. f[j] = f[j - 1] \o q[j]
  BY <1>1 DEF Upto
<1>3. f[j] = f[i] \o q[j]
  BY <1>1, <1>2
<1> QED BY <1>3 DEF j

LEMMA UptoIsOne ==
  ASSUME NEW q, NEW p, NEW n \in Nat, \A i \in 1..n : q[i] = p[i],
         NEW f, NEW g, Upto(q, n, f), Upto(p, n, g)
  PROVE  \A i \in 1..n : f[i] = g[i]
<1> DEFINE T == {i \in Nat : i \in 1..n => f[i] = g[i]}
<1>1. 0 \in T
  OBVIOUS
<1>2. ASSUME NEW i \in Nat, i \in T PROVE i + 1 \in T
  <2> SUFFICES ASSUME i + 1 \in 1..n PROVE f[i + 1] = g[i + 1]
    OBVIOUS
  <2>1. CASE i = 0
    <3>1. 1 \in 1..n /\ i + 1 = 1
      BY <2>1
    <3>2. f[1] = q[1] /\ g[1] = p[1]
      BY <3>1, UptoFirst
    <3>3. q[1] = p[1]
      BY <3>1
    <3> QED BY <3>1, <3>2, <3>3
  <2>2. CASE i # 0
    <3>1. i \in 1..n /\ i + 1 <= n
      BY <2>2
    <3>2. f[i] = g[i]
      BY <1>2, <3>1
    <3>3. f[i + 1] = f[i] \o q[i + 1] /\ g[i + 1] = g[i] \o p[i + 1]
      BY <3>1, UptoNext
    <3> QED BY <3>2, <3>3
  <2> QED BY <2>1, <2>2
<1> HIDE DEF T
<1>3. \A i \in Nat : i \in T
  BY <1>1, <1>2, Induction
<1> QED BY <1>3 DEF T

LEMMA UptoExtends ==
  ASSUME NEW S, NEW q \in Seq(Seq(S)), NEW n \in Nat, n + 1 <= Len(q),
         NEW f \in [1..n -> Seq(S)], Upto(q, n, f)
  PROVE  \E g \in [1..n + 1 -> Seq(S)] : Upto(q, n + 1, g)
<1> DEFINE x == IF n = 0 THEN q[1] ELSE f[n] \o q[n + 1]
           g == [i \in 1..n + 1 |-> IF i = n + 1 THEN x ELSE f[i]]
<1>1. q[n + 1] \in Seq(S) /\ (n = 0 => q[1] \in Seq(S))
  BY ElementOfSeq, LenProperties
<1>2. x \in Seq(S)
  <2>1. CASE n = 0
    BY <1>1, <2>1
  <2>2. CASE n # 0
    <3>1. f[n] \in Seq(S)
      BY <2>2
    <3> QED BY <1>1, <2>2, <3>1, ConcatProperties
  <2> QED BY <2>1, <2>2
<1> HIDE DEF x
<1>3. /\ \A i \in 1..n : g[i] = f[i]
      /\ g[n + 1] = x
      /\ \A i \in 1..n + 1 : i = n + 1 \/ i \in 1..n
  <2>1. \A i \in 1..n + 1 : (i = n + 1 \/ i \in 1..n) /\ n + 1 \notin 1..n /\ n + 1 \in 1..n + 1
    OBVIOUS
  <2>2. \A i \in 1..n : i \in 1..n + 1 /\ i # n + 1
    OBVIOUS
  <2> QED BY <2>1, <2>2
<1>4. g \in [1..n + 1 -> Seq(S)]
  BY <1>2
<1> HIDE DEF g
<1>5. ASSUME NEW i \in 1..n PROVE g[i] = IF i = 1 THEN q[i] ELSE g[i - 1] \o q[i]
  <2>1. i = 1 \/ i - 1 \in 1..n
    OBVIOUS
  <2>2. i # 1 => g[i - 1] = f[i - 1]
    BY <1>3, <2>1
  <2> QED BY <1>3, <2>2 DEF Upto
<1>6. g[n + 1] = IF n + 1 = 1 THEN q[n + 1] ELSE g[n + 1 - 1] \o q[n + 1]
  <2>1. CASE n = 0
    BY <1>3, <2>1 DEF x
  <2>2. CASE n # 0
    <3>1. n \in 1..n /\ n + 1 - 1 = n /\ n + 1 # 1
      BY <2>2
    <3>2. g[n] = f[n]
      BY <1>3, <3>1
    <3> QED BY <1>3, <2>2, <3>1, <3>2 DEF x
  <2> QED BY <2>1, <2>2
<1>7. ASSUME NEW i \in 1..n + 1 PROVE g[i] = IF i = 1 THEN q[i] ELSE g[i - 1] \o q[i]
  <2>1. CASE i = n + 1
    BY <1>6, <2>1
  <2>2. CASE i \in 1..n
    BY <1>5, <2>2
  <2> QED BY <1>3, <2>1, <2>2
<1>8. Upto(q, n + 1, g)
  BY <1>7 DEF Upto
<1> QED BY <1>4, <1>8

LEMMA FlattenExists ==
  ASSUME NEW S, NEW q \in Seq(Seq(S))
  PROVE  \E f \in [1..Len(q) -> Seq(S)] : Flattens(q, f)
<1> DEFINE G(n) == \E f \in [1..n -> Seq(S)] : Upto(q, n, f)
           T == {n \in Nat : n <= Len(q) => G(n)}
<1>0. Len(q) \in Nat
  BY LenProperties
<1>1. G(0)
  <2>1. [i \in 1..0 |-> q] \in [1..0 -> Seq(S)] /\ 1..0 = {}
    OBVIOUS
  <2> QED BY <2>1 DEF Upto
<1>2. ASSUME NEW n \in Nat, G(n), n + 1 <= Len(q) PROVE G(n + 1)
  BY <1>2, UptoExtends
<1> HIDE DEF G
<1>3. 0 \in T /\ \A n \in Nat : n \in T => n + 1 \in T
  BY <1>0, <1>1, <1>2
<1> HIDE DEF T
<1>4. Len(q) \in T
  BY <1>0, <1>3, Induction
<1>5. PICK f \in [1..Len(q) -> Seq(S)] : Upto(q, Len(q), f)
  BY <1>0, <1>4 DEF T, G
<1> DEFINE h == [i \in 1..Len(q) |-> IF i = 1 THEN q[i] ELSE f[i - 1] \o q[i]]
<1>6. f = h
  <2>1. \A i \in 1..Len(q) : f[i] = h[i]
    BY <1>5 DEF Upto
  <2> HIDE DEF h
  <2>2. h = [i \in 1..Len(q) |-> h[i]]
    BY DEF h
  <2> QED BY <2>1, <2>2
<1> QED BY <1>6 DEF Flattens

LEMMA FlattenChosen ==
  ASSUME NEW S, NEW q \in Seq(Seq(S)), q # <<>>
  PROVE  \E f \in [1..Len(q) -> Seq(S)] : Upto(q, Len(q), f) /\ FlattenSeq(q) = f[Len(q)]
<1>1. Len(q) \in Nat \ {0}
  BY EmptySeq
<1>2. PICK g \in [1..Len(q) -> Seq(S)] : Flattens(q, g)
  BY FlattenExists
<1> DEFINE f == CHOOSE h : Flattens(q, h)
<1>3. Flattens(q, f)
  BY <1>2
<1> HIDE DEF f
<1>4. Upto(q, Len(q), f) /\ Upto(q, Len(q), g)
  BY <1>1, <1>2, <1>3, FlattensIs
<1>5. FlattenSeq(q) = f[Len(q)]
  BY <1>1, FlattenDef DEF f
<1>6. \A i \in 1..Len(q) : f[i] = g[i]
  BY <1>1, <1>4, UptoIsOne
<1>7. Len(q) \in 1..Len(q)
  BY <1>1
<1> QED BY <1>2, <1>4, <1>5, <1>6, <1>7

LEMMA FlattenEmpty == FlattenSeq(<<>>) = <<>>
BY DEF FlattenSeq

LEMMA FlattenType ==
  ASSUME NEW S, NEW q \in Seq(Seq(S))
  PROVE  FlattenSeq(q) \in Seq(S)
<1>1. CASE q = <<>>
  <2>1. <<>> \in Seq(S)
    OBVIOUS
  <2> QED BY <1>1, <2>1, FlattenEmpty
<1>2. CASE q # <<>>
  <2>1. PICK f \in [1..Len(q) -> Seq(S)] : FlattenSeq(q) = f[Len(q)]
    BY <1>2, FlattenChosen
  <2>2. Len(q) \in 1..Len(q)
    BY <1>2, EmptySeq
  <2> QED BY <2>1, <2>2
<1> QED BY <1>1, <1>2

LEMMA FlattenAppend ==
  ASSUME NEW S, NEW q \in Seq(Seq(S)), NEW x \in Seq(S)
  PROVE  FlattenSeq(Append(q, x)) = FlattenSeq(q) \o x
<1> DEFINE p == Append(q, x)
<1>1. /\ p \in Seq(Seq(S)) /\ p # <<>> /\ Len(p) = Len(q) + 1 /\ p[Len(q) + 1] = x
      /\ Len(q) \in Nat /\ \A i \in 1..Len(q) : p[i] = q[i]
  BY AppendProperties, LenProperties
<1> HIDE DEF p
<1>2. PICK g : Upto(p, Len(p), g) /\ FlattenSeq(p) = g[Len(p)]
  BY <1>1, FlattenChosen
<1>3. Len(q) + 1 \in 1..Len(p)
  BY <1>1
<1>4. CASE q = <<>>
  <2>1. Len(p) = 1 /\ p[1] = x
    BY <1>1, <1>4
  <2>2. g[1] = x
    <3>1. Upto(p, 1, g) /\ 1 \in 1..1
      BY <1>2, <2>1
    <3>2. g[1] = p[1]
      BY <3>1, UptoFirst
    <3> QED BY <2>1, <3>2
  <2> QED BY <1>2, <1>4, <2>1, <2>2, FlattenEmpty, ConcatEmptySeq DEF p
<1>5. CASE q # <<>>
  <2>1. PICK f : Upto(q, Len(q), f) /\ FlattenSeq(q) = f[Len(q)]
    BY <1>5, FlattenChosen
  <2>2. Len(q) \in 1..Len(q) /\ Len(q) + 1 # 1 /\ Len(q) + 1 - 1 = Len(q)
    BY <1>5, EmptySeq
  <2>3. Upto(p, Len(q), g)
    <3>1. \A i \in 1..Len(q) : i \in 1..Len(p)
      BY <1>1
    <3> QED BY <1>2, <3>1 DEF Upto
  <2>4. f[Len(q)] = g[Len(q)]
    <3>1. Upto(q, Len(q), f) /\ Len(q) \in Nat /\ \A i \in 1..Len(q) : q[i] = p[i]
      BY <1>1, <2>1
    <3>2. \A i \in 1..Len(q) : f[i] = g[i]
      BY <2>3, <3>1, UptoIsOne
    <3> QED BY <2>2, <3>2
  <2>5. g[Len(q) + 1] = g[Len(q)] \o p[Len(q) + 1]
    <3>1. Len(p) \in Nat /\ Len(q) \in 1..Len(p) /\ Len(q) + 1 <= Len(p)
      BY <1>1, <2>2
    <3> QED BY <1>2, <3>1, UptoNext
  <2> QED BY <1>1, <1>2, <2>1, <2>4, <2>5 DEF p
<1> QED BY <1>4, <1>5

\* Concatenation, kept closed: the provers rewrite nested \o's too eagerly.
Cat(s, t) == s \o t

LEMMA CatSeq ==
  ASSUME NEW S, NEW a \in Seq(S), NEW b \in Seq(S)
  PROVE  Cat(a, b) \in Seq(S)
BY ConcatProperties DEF Cat

LEMMA CatAssociative ==
  ASSUME NEW S, NEW a \in Seq(S), NEW b \in Seq(S), NEW c \in Seq(S)
  PROVE  Cat(Cat(a, b), c) = Cat(a, Cat(b, c))
BY ConcatAssociative DEF Cat

LEMMA CatEmpty ==
  ASSUME NEW S, NEW a \in Seq(S)
  PROVE  Cat(a, <<>>) = a /\ Cat(<<>>, a) = a
BY ConcatEmptySeq DEF Cat

LEMMA CatOne ==
  ASSUME NEW S, NEW a \in Seq(S), NEW x \in S
  PROVE  Append(a, x) = Cat(a, <<x>>) /\ <<x>> \in Seq(S)
<1>1. Append(a, x) = a \o <<x>>
  BY AppendIsConcat
<1>2. <<x>> \in Seq(S)
  OBVIOUS
<1> QED BY <1>1, <1>2 DEF Cat

LEMMA FlattenConcat ==
  ASSUME NEW S, NEW q \in Seq(Seq(S)), NEW p \in Seq(Seq(S))
  PROVE  FlattenSeq(q \o p) = FlattenSeq(q) \o FlattenSeq(p)
<1> DEFINE T == {s \in Seq(Seq(S)) : FlattenSeq(q \o s) = FlattenSeq(q) \o FlattenSeq(s)}
<1>1. <<>> \in T
  BY FlattenEmpty, FlattenType, ConcatEmptySeq
<1>2. ASSUME NEW s \in Seq(Seq(S)), NEW e \in Seq(S), s \in T PROVE Append(s, e) \in T
  <2>1. q \o Append(s, e) = Append(q \o s, e) /\ q \o s \in Seq(Seq(S)) /\ Append(s, e) \in Seq(Seq(S))
    <3> DEFINE one == <<e>>
    <3>1. Append(s, e) = Cat(s, one) /\ one \in Seq(Seq(S)) /\ Append(s, e) \in Seq(Seq(S))
      BY CatOne, AppendProperties
    <3>2. Cat(q, s) \in Seq(Seq(S))
      BY CatSeq
    <3>3. Append(Cat(q, s), e) = Cat(Cat(q, s), one)
      BY <3>2, CatOne
    <3> HIDE DEF one
    <3>4. Cat(Cat(q, s), one) = Cat(q, Cat(s, one))
      BY <3>1, CatAssociative
    <3>5. Cat(q, Append(s, e)) = Append(Cat(q, s), e)
      BY <3>1, <3>3, <3>4
    <3> QED BY <3>1, <3>2, <3>5 DEF Cat
  <2>2. FlattenSeq(q \o Append(s, e)) = (FlattenSeq(q) \o FlattenSeq(s)) \o e
    BY <1>2, <2>1, FlattenAppend
  <2>3. FlattenSeq(Append(s, e)) = FlattenSeq(s) \o e
    BY FlattenAppend
  <2>4. FlattenSeq(q) \in Seq(S) /\ FlattenSeq(s) \in Seq(S)
    BY FlattenType
  <2>5. (FlattenSeq(q) \o FlattenSeq(s)) \o e = FlattenSeq(q) \o (FlattenSeq(s) \o e)
    <3>1. Cat(Cat(FlattenSeq(q), FlattenSeq(s)), e) = Cat(FlattenSeq(q), Cat(FlattenSeq(s), e))
      BY <2>4, CatAssociative
    <3> QED BY <3>1 DEF Cat
  <2> QED BY <2>1, <2>2, <2>3, <2>5
<1> HIDE DEF T
<1>3. p \in T
  BY <1>1, <1>2, SeqInduction
<1> QED BY <1>3 DEF T

LEMMA FlattenOne ==
  ASSUME NEW S, NEW x \in Seq(S)
  PROVE  FlattenSeq(<<x>>) = x
<1>1. <<>> \in Seq(Seq(S)) /\ <<x>> = Append(<<>>, x)
  OBVIOUS
<1>2. FlattenSeq(Append(<<>>, x)) = FlattenSeq(<<>>) \o x
  BY <1>1, FlattenAppend
<1>3. <<>> \o x = x
  BY ConcatEmptySeq
<1> QED BY <1>1, <1>2, <1>3, FlattenEmpty

LEMMA FlattenHead ==
  ASSUME NEW S, NEW q \in Seq(Seq(S)), q # <<>>
  PROVE  FlattenSeq(q) = Head(q) \o FlattenSeq(Tail(q))
<1>1. q = <<Head(q)>> \o Tail(q)
  <2>1. Len(q) \in 1..Len(q) /\ 1 \in 1..Len(q)
    BY EmptySeq
  <2> QED BY <2>1, SubSeqRecursiveFirst, SubSeqFull, TailIsSubSeq
<1>2. Head(q) \in Seq(S) /\ Tail(q) \in Seq(Seq(S))
  BY HeadTailProperties
<1>3. <<Head(q)>> \in Seq(Seq(S))
  BY <1>2
<1>4. FlattenSeq(<<Head(q)>> \o Tail(q)) = FlattenSeq(<<Head(q)>>) \o FlattenSeq(Tail(q))
  BY <1>2, <1>3, FlattenConcat
<1>5. FlattenSeq(<<Head(q)>>) = Head(q)
  BY <1>2, FlattenOne
<1> QED BY <1>1, <1>4, <1>5

-----------------------------------------------------------------------------
(* Frames and log lines *)

\* A prefix, put before something.
LEMMA PrefixOfConcat ==
  ASSUME NEW S, NEW s \in Seq(S), NEW t \in Seq(S)
  PROVE  IsPrefix(s, s \o t)
<1>1. /\ Len(s) \in Nat /\ Len(t) \in Nat /\ s \o t \in Seq(S) /\ Len(s \o t) = Len(s) + Len(t)
      /\ \A i \in 1..Len(s) : (s \o t)[i] = s[i]
  BY LenProperties, ConcatProperties
<1> DEFINE a == SubSeq(s, 1, Len(s))
           b == SubSeq(s \o t, 1, Len(s))
<1>2. /\ a \in Seq(S) /\ Len(a) = Len(s) /\ \A i \in 1..Len(s) : a[i] = s[i]
  <2>1. a = s
    BY SubSeqFull
  <2> QED BY <2>1
<1>3. /\ b \in Seq(S) /\ Len(b) = Len(s) /\ \A i \in 1..Len(s) : b[i] = (s \o t)[i]
  <2>1. \A i \in 1..Len(s) : (s \o t)[i] \in S
    BY <1>1, ElementOfSeq
  <2>2. /\ b \in Seq(S) /\ Len(b) = IF 1 <= Len(s) THEN Len(s) - 1 + 1 ELSE 0
        /\ \A i \in 1..Len(s) - 1 + 1 : b[i] = (s \o t)[1 + i - 1]
    BY <1>1, <2>1, SubSeqProperties
  <2> HIDE DEF b
  <2>3. \A i \in 1..Len(s) : i \in 1..Len(s) - 1 + 1 /\ 1 + i - 1 = i
    BY <1>1
  <2> QED BY <1>1, <2>2, <2>3
<1> HIDE DEF a, b
<1>4. a = b
  BY <1>1, <1>2, <1>3, SeqEqual
<1> QED BY <1>1, <1>4 DEF IsPrefix, a, b

\* Bytes fall into lines in one way: a line ends at the first newline.
LEMMA FirstNewline ==
  ASSUME NEW a \in Seq(Bytes \ {"n"}), NEW b \in Seq(Bytes \ {"n"}),
         NEW u \in Seq(Bytes), NEW v \in Seq(Bytes),
         Append(a, "n") \o u = Append(b, "n") \o v
  PROVE  a = b /\ u = v
<1> DEFINE x == Append(a, "n")
           y == Append(b, "n")
<1>1. a \in Seq(Bytes) /\ b \in Seq(Bytes) /\ "n" \in Bytes
  <2>1. Bytes \ {"n"} \subseteq Bytes
    OBVIOUS
  <2> QED BY <2>1, SeqMonotonic DEF Bytes
<1>2. /\ Len(a) \in Nat /\ \A i \in 1..Len(a) : a[i] # "n"
      /\ Len(b) \in Nat /\ \A i \in 1..Len(b) : b[i] # "n"
  BY LenProperties, ElementOfSeq
<1>3. /\ x \in Seq(Bytes) /\ Len(x) = Len(a) + 1 /\ x[Len(a) + 1] = "n"
      /\ \A i \in 1..Len(a) : x[i] = a[i]
      /\ y \in Seq(Bytes) /\ Len(y) = Len(b) + 1 /\ y[Len(b) + 1] = "n"
      /\ \A i \in 1..Len(b) : y[i] = b[i]
  BY <1>1, AppendProperties
<1> DEFINE w == x \o u
<1>4. w = y \o v
  OBVIOUS
<1> HIDE DEF x, y
<1>5. /\ \A i \in 1..Len(x) : w[i] = x[i]
      /\ \A i \in 1..Len(y) : w[i] = y[i]
  <2>1. Len(x) \in Nat /\ Len(y) \in Nat /\ Len(u) \in Nat /\ Len(v) \in Nat
    BY <1>2, <1>3, LenProperties
  <2>2. \A i \in 1..Len(x) + Len(u) : w[i] = IF i <= Len(x) THEN x[i] ELSE u[i - Len(x)]
    BY <1>3, ConcatProperties
  <2>3. \A i \in 1..Len(y) + Len(v) : w[i] = IF i <= Len(y) THEN y[i] ELSE v[i - Len(y)]
    <3>1. \A i \in 1..Len(y) + Len(v) :
            (y \o v)[i] = IF i <= Len(y) THEN y[i] ELSE v[i - Len(y)]
      BY <1>3, ConcatProperties
    <3> HIDE DEF w
    <3> QED BY <1>4, <3>1
  <2> HIDE DEF w
  <2>4. \A i \in 1..Len(x) : i \in 1..Len(x) + Len(u) /\ i <= Len(x)
    BY <2>1
  <2>5. \A i \in 1..Len(y) : i \in 1..Len(y) + Len(v) /\ i <= Len(y)
    BY <2>1
  <2> QED BY <2>2, <2>3, <2>4, <2>5
<1> HIDE DEF w
<1>6. Len(a) = Len(b)
  <2>1. CASE Len(a) < Len(b)
    <3>1. Len(a) + 1 \in 1..Len(x) /\ Len(a) + 1 \in 1..Len(y) /\ Len(a) + 1 \in 1..Len(b)
      BY <1>2, <1>3, <2>1
    <3>2. y[Len(a) + 1] = "n"
      BY <1>3, <1>5, <3>1
    <3> QED BY <1>2, <1>3, <3>1, <3>2
  <2>2. CASE Len(b) < Len(a)
    <3>1. Len(b) + 1 \in 1..Len(x) /\ Len(b) + 1 \in 1..Len(y) /\ Len(b) + 1 \in 1..Len(a)
      BY <1>2, <1>3, <2>2
    <3>2. x[Len(b) + 1] = "n"
      BY <1>3, <1>5, <3>1
    <3> QED BY <1>2, <1>3, <3>1, <3>2
  <2> QED BY <1>2, <2>1, <2>2
<1>7. a = b
  <2>1. \A i \in 1..Len(a) : i \in 1..Len(x) /\ i \in 1..Len(y)
    BY <1>2, <1>3, <1>6
  <2>2. \A i \in 1..Len(a) : a[i] = b[i]
    BY <1>3, <1>5, <1>6, <2>1
  <2> QED BY <1>1, <1>6, <2>2, SeqEqual
<1>8. u = v
  <2>1. x = y
    BY <1>7 DEF x, y
  <2>2. x \o u = x \o v
    BY <1>4, <2>1 DEF w
  <2> QED BY <1>3, <2>2, ConcatSimplifications
<1> QED BY <1>7, <1>8

LineBody == Seq(Bytes \ {"n"})

\* What a line of the device is: no newline but the last byte.
Whole == {Append(s, "n") : s \in LineBody}

FrameOf(l) == IF is_smp_line(l) THEN l ELSE <<>>
LogOf(l) == IF is_smp_line(l) \/ LogText(l) = <<>> THEN <<>> ELSE <<LogText(l)>>

(* How far the lines of the device have come: those in done have been      *)
(* routed, those in rest are what is on the wire, in the reader's buffer,  *)
(* and, without its end, in the line being put together.                   *)
Routed(done, rest) ==
  /\ sent = Cat(done, rest)
  /\ Cat(line, Cat(buf, wire)) = FlattenSeq(rest)
  /\ Cat(Cat(got, pending), FlattenSeq(queue)) = FramesOf(done)
  /\ out = LogsOf(done)

LineInv == \E done, rest \in Seq(Whole) : Routed(done, rest)

LEMMA BytesBelow ==
  /\ LineBody \subseteq Seq(Bytes) /\ "n" \in Bytes /\ Whole \subseteq Seq(Bytes)
  /\ Seq(Whole) \subseteq Seq(Seq(Bytes))
<1>1. Bytes \ {"n"} \subseteq Bytes /\ "n" \in Bytes
  BY DEF Bytes
<1>2. LineBody \subseteq Seq(Bytes)
  BY <1>1, SeqMonotonic DEF LineBody
<1>3. Whole \subseteq Seq(Bytes)
  BY <1>1, <1>2, AppendProperties DEF Whole
<1> QED BY <1>1, <1>2, <1>3, SeqMonotonic

LEMMA TrimType == ASSUME NEW l \in Seq(Bytes) PROVE Trim(l) \in Seq(Bytes)
<1>1. CASE l # <<>> /\ l[Len(l)] = "r"
  <2>1. Len(l) - 1 \in Nat /\ Len(l) - 1 <= Len(l)
    BY <1>1, EmptySeq
  <2>2. SubSeq(l, 1, Len(l) - 1) \in Seq(Bytes)
    BY <2>1, Piece
  <2> QED BY <1>1, <2>2 DEF Trim
<1>2. CASE ~(l # <<>> /\ l[Len(l)] = "r")
  BY <1>2 DEF Trim
<1> QED BY <1>1, <1>2

LEMMA PartsType ==
  ASSUME NEW l \in Seq(Bytes), l # <<>>
  PROVE  FrameOf(l) \in Seq(Bytes) /\ LogOf(l) \in Seq(Seq(Bytes))
<1>1. Len(l) - 1 \in Nat /\ Len(l) - 1 <= Len(l)
  BY EmptySeq
<1>2. SubSeq(l, 1, Len(l) - 1) \in Seq(Bytes)
  BY <1>1, Piece
<1>3. LogText(l) \in Seq(Bytes)
  BY <1>2, TrimType DEF LogText
<1>4. <<>> \in Seq(Bytes) /\ <<>> \in Seq(Seq(Bytes)) /\ <<LogText(l)>> \in Seq(Seq(Bytes))
  BY <1>3
<1> QED BY <1>4 DEF FrameOf, LogOf

LEMMA FunctionIsSeq ==
  ASSUME NEW S, NEW n \in Nat, NEW f \in [1..n -> S]
  PROVE  f \in Seq(S) /\ Len(f) = n
OBVIOUS

\* FramesOf and LogsOf as concatenations.
FrameParts(s) == [i \in 1..Len(s) |-> FrameOf(s[i])]
LogParts(s) == [i \in 1..Len(s) |-> LogOf(s[i])]

LEMMA PartsAre ==
  ASSUME NEW s
  PROVE  FramesOf(s) = FlattenSeq(FrameParts(s)) /\ LogsOf(s) = FlattenSeq(LogParts(s))
BY DEF FramesOf, LogsOf, FrameParts, LogParts, FrameOf, LogOf

LEMMA PartsSeq ==
  ASSUME NEW s \in Seq(Whole)
  PROVE  /\ FrameParts(s) \in Seq(Seq(Bytes)) /\ Len(FrameParts(s)) = Len(s)
         /\ LogParts(s) \in Seq(Seq(Seq(Bytes))) /\ Len(LogParts(s)) = Len(s)
<1>1. Len(s) \in Nat /\ \A i \in 1..Len(s) : s[i] \in Seq(Bytes) /\ s[i] # <<>>
  <2>1. \A i \in 1..Len(s) : s[i] \in Whole
    BY ElementOfSeq
  <2>2. \A w \in Whole : w \in Seq(Bytes) /\ w # <<>>
    BY BytesBelow, AppendProperties DEF Whole
  <2> QED BY <2>1, <2>2, LenProperties
<1>2. \A i \in 1..Len(s) : FrameOf(s[i]) \in Seq(Bytes) /\ LogOf(s[i]) \in Seq(Seq(Bytes))
  BY <1>1, PartsType
<1>3. /\ FrameParts(s) \in [1..Len(s) -> Seq(Bytes)]
      /\ LogParts(s) \in [1..Len(s) -> Seq(Seq(Bytes))]
  BY <1>2 DEF FrameParts, LogParts
<1> QED BY <1>1, <1>3, FunctionIsSeq

LEMMA ConcatIs ==
  ASSUME NEW S, NEW a \in Seq(S), NEW b \in Seq(S), NEW c \in Seq(S),
         Len(c) = Len(a) + Len(b),
         \A i \in 1..Len(a) : c[i] = a[i], \A i \in 1..Len(b) : c[Len(a) + i] = b[i]
  PROVE  c = a \o b
<1>1. Len(a) \in Nat /\ Len(b) \in Nat
  BY LenProperties
<1>2. /\ a \o b \in Seq(S) /\ Len(a \o b) = Len(a) + Len(b)
      /\ \A i \in 1..Len(a) + Len(b) : (a \o b)[i] = IF i <= Len(a) THEN a[i] ELSE b[i - Len(a)]
  BY ConcatProperties
<1>3. ASSUME NEW i \in 1..Len(a) + Len(b) PROVE c[i] = (a \o b)[i]
  <2>1. CASE i <= Len(a)
    BY <1>1, <1>2, <2>1
  <2>2. CASE ~(i <= Len(a))
    <3> DEFINE j == i - Len(a)
    <3>1. j \in 1..Len(b) /\ i = Len(a) + j
      BY <1>1, <2>2
    <3>2. (a \o b)[i] = b[j]
      BY <1>2, <2>2
    <3> HIDE DEF j
    <3> QED BY <3>1, <3>2
  <2> QED BY <2>1, <2>2
<1> QED BY <1>2, <1>3, SeqEqual

LEMMA PartsConcat ==
  ASSUME NEW s \in Seq(Whole), NEW t \in Seq(Whole)
  PROVE  /\ FrameParts(s \o t) = FrameParts(s) \o FrameParts(t)
         /\ LogParts(s \o t) = LogParts(s) \o LogParts(t)
<1>1. /\ s \o t \in Seq(Whole) /\ Len(s \o t) = Len(s) + Len(t)
      /\ Len(s) \in Nat /\ Len(t) \in Nat
      /\ \A i \in 1..Len(s) + Len(t) : (s \o t)[i] = IF i <= Len(s) THEN s[i] ELSE t[i - Len(s)]
  BY ConcatProperties, LenProperties
<1>2. /\ \A i \in 1..Len(s) : i \in 1..Len(s \o t) /\ (s \o t)[i] = s[i]
      /\ \A i \in 1..Len(t) : Len(s) + i \in 1..Len(s \o t) /\ (s \o t)[Len(s) + i] = t[i]
  <2>1. \A i \in 1..Len(s) : i \in 1..Len(s) + Len(t) /\ i <= Len(s)
    BY <1>1
  <2>2. \A i \in 1..Len(t) : Len(s) + i \in 1..Len(s) + Len(t) /\ ~(Len(s) + i <= Len(s))
                              /\ Len(s) + i - Len(s) = i
    BY <1>1
  <2> QED BY <1>1, <2>1, <2>2
<1>3. /\ \A i \in 1..Len(s) : FrameParts(s)[i] = FrameOf(s[i]) /\ LogParts(s)[i] = LogOf(s[i])
      /\ \A i \in 1..Len(t) : FrameParts(t)[i] = FrameOf(t[i]) /\ LogParts(t)[i] = LogOf(t[i])
      /\ \A i \in 1..Len(s \o t) : /\ FrameParts(s \o t)[i] = FrameOf((s \o t)[i])
                                   /\ LogParts(s \o t)[i] = LogOf((s \o t)[i])
  BY DEF FrameParts, LogParts
<1>4. FrameParts(s \o t) = FrameParts(s) \o FrameParts(t)
  <2>1. /\ FrameParts(s) \in Seq(Seq(Bytes)) /\ FrameParts(t) \in Seq(Seq(Bytes))
        /\ FrameParts(s \o t) \in Seq(Seq(Bytes))
        /\ Len(FrameParts(s)) = Len(s) /\ Len(FrameParts(t)) = Len(t)
        /\ Len(FrameParts(s \o t)) = Len(s) + Len(t)
    BY <1>1, PartsSeq
  <2>2. /\ \A i \in 1..Len(s) : FrameParts(s \o t)[i] = FrameParts(s)[i]
        /\ \A i \in 1..Len(t) : FrameParts(s \o t)[Len(s) + i] = FrameParts(t)[i]
    BY <1>2, <1>3
  <2> DEFINE a == FrameParts(s)
             b == FrameParts(t)
             c == FrameParts(s \o t)
  <2>3. /\ Len(c) = Len(a) + Len(b)
        /\ \A i \in 1..Len(a) : c[i] = a[i]
        /\ \A i \in 1..Len(b) : c[Len(a) + i] = b[i]
    BY <2>1, <2>2
  <2> HIDE DEF a, b, c
  <2>4. c = a \o b
    BY <2>1, <2>3, ConcatIs DEF a, b, c
  <2> QED BY <2>4 DEF a, b, c
<1>5. LogParts(s \o t) = LogParts(s) \o LogParts(t)
  <2>1. /\ LogParts(s) \in Seq(Seq(Seq(Bytes))) /\ LogParts(t) \in Seq(Seq(Seq(Bytes)))
        /\ LogParts(s \o t) \in Seq(Seq(Seq(Bytes)))
        /\ Len(LogParts(s)) = Len(s) /\ Len(LogParts(t)) = Len(t)
        /\ Len(LogParts(s \o t)) = Len(s) + Len(t)
    BY <1>1, PartsSeq
  <2>2. /\ \A i \in 1..Len(s) : LogParts(s \o t)[i] = LogParts(s)[i]
        /\ \A i \in 1..Len(t) : LogParts(s \o t)[Len(s) + i] = LogParts(t)[i]
    BY <1>2, <1>3
  <2> DEFINE a == LogParts(s)
             b == LogParts(t)
             c == LogParts(s \o t)
  <2>3. /\ Len(c) = Len(a) + Len(b)
        /\ \A i \in 1..Len(a) : c[i] = a[i]
        /\ \A i \in 1..Len(b) : c[Len(a) + i] = b[i]
    BY <2>1, <2>2
  <2> HIDE DEF a, b, c
  <2>4. c = a \o b
    BY <2>1, <2>3, ConcatIs DEF a, b, c
  <2> QED BY <2>4 DEF a, b, c
<1> QED BY <1>4, <1>5

\* More lines, more frames and more output, at the end.
LEMMA PartsMore ==
  ASSUME NEW s \in Seq(Whole), NEW t \in Seq(Whole)
  PROVE  /\ FramesOf(s \o t) = FramesOf(s) \o FramesOf(t)
         /\ LogsOf(s \o t) = LogsOf(s) \o LogsOf(t)
         /\ FramesOf(s) \in Seq(Bytes) /\ LogsOf(s) \in Seq(Seq(Bytes))
<1>1. /\ FlattenSeq(FrameParts(s) \o FrameParts(t)) = FlattenSeq(FrameParts(s)) \o FlattenSeq(FrameParts(t))
      /\ FlattenSeq(FrameParts(s)) \in Seq(Bytes)
  BY PartsSeq, FlattenConcat, FlattenType
<1>2. /\ FlattenSeq(LogParts(s) \o LogParts(t)) = FlattenSeq(LogParts(s)) \o FlattenSeq(LogParts(t))
      /\ FlattenSeq(LogParts(s)) \in Seq(Seq(Bytes))
  BY PartsSeq, FlattenConcat, FlattenType
<1> QED BY <1>1, <1>2, PartsAre, PartsConcat

\* One line's frame, or one line of output.
LEMMA PartsOne ==
  ASSUME NEW x \in Whole
  PROVE  /\ FramesOf(<<x>>) = FrameOf(x) /\ LogsOf(<<x>>) = LogOf(x)
         /\ FramesOf(<<>>) = <<>> /\ LogsOf(<<>>) = <<>>
<1>1. x \in Seq(Bytes) /\ x # <<>> /\ <<x>> \in Seq(Whole) /\ <<>> \in Seq(Whole)
  BY BytesBelow, AppendProperties DEF Whole
<1>2. FrameOf(x) \in Seq(Bytes) /\ LogOf(x) \in Seq(Seq(Bytes))
  BY <1>1, PartsType
<1>3. FrameParts(<<x>>) = <<FrameOf(x)>> /\ LogParts(<<x>>) = <<LogOf(x)>>
  BY DEF FrameParts, LogParts
<1>4. FrameParts(<<>>) = <<>> /\ LogParts(<<>>) = <<>>
  BY DEF FrameParts, LogParts
<1>5. FlattenSeq(<<FrameOf(x)>>) = FrameOf(x)
  BY <1>2, FlattenOne
<1>6. FlattenSeq(<<LogOf(x)>>) = LogOf(x)
  BY <1>2, FlattenOne
<1> QED BY <1>3, <1>4, <1>5, <1>6, FlattenEmpty, PartsAre

\* What the reader makes of a line that is complete.
LEMMA RoutedLine ==
  ASSUME NEW l \in LineBody
  PROVE  /\ FrameOf(Append(l, "n")) = IF is_smp_line(l) THEN Append(l, "n") ELSE <<>>
         /\ LogOf(Append(l, "n")) = IF ~is_smp_line(l) /\ Trim(l) # <<>> THEN <<Trim(l)>> ELSE <<>>
<1> DEFINE x == Append(l, "n")
<1>1. l \in Seq(Bytes) /\ "n" \in Bytes /\ Len(l) \in Nat
  BY BytesBelow, LenProperties
<1>2. /\ x \in Seq(Bytes) /\ x # <<>> /\ Len(x) = Len(l) + 1 /\ x[Len(l) + 1] = "n"
      /\ \A i \in 1..Len(l) : x[i] = l[i]
  BY <1>1, AppendProperties
<1> HIDE DEF x
<1>3. is_smp_line(x) <=> is_smp_line(l)
  <2>1. CASE l = <<>>
    BY <1>2, <2>1 DEF is_smp_line
  <2>2. CASE l # <<>>
    <3>1. 1 \in 1..Len(l)
      BY <1>1, <2>2, EmptySeq
    <3> QED BY <1>2, <2>2, <3>1 DEF is_smp_line
  <2> QED BY <2>1, <2>2
<1>4. SubSeq(x, 1, Len(x) - 1) = l
  <2> DEFINE s == SubSeq(x, 1, Len(l))
  <2>1. \A i \in 1..Len(l) : x[i] \in Bytes
    BY <1>1, <1>2, ElementOfSeq
  <2>2. /\ s \in Seq(Bytes) /\ Len(s) = IF 1 <= Len(l) THEN Len(l) - 1 + 1 ELSE 0
        /\ \A i \in 1..Len(l) - 1 + 1 : s[i] = x[1 + i - 1]
    BY <1>1, <2>1, SubSeqProperties
  <2> HIDE DEF s
  <2>3. \A i \in 1..Len(l) : i \in 1..Len(l) - 1 + 1 /\ 1 + i - 1 = i
    BY <1>1
  <2>4. Len(s) = Len(l) /\ \A i \in 1..Len(l) : s[i] = l[i]
    BY <1>1, <1>2, <2>2, <2>3
  <2>5. s = l
    BY <1>1, <2>2, <2>4, SeqEqual
  <2>6. Len(x) - 1 = Len(l)
    BY <1>1, <1>2
  <2> QED BY <2>5, <2>6 DEF s
<1>5. LogText(x) = Trim(l)
  BY <1>4 DEF LogText
<1>6. /\ FrameOf(x) = IF is_smp_line(l) THEN x ELSE <<>>
      /\ LogOf(x) = IF ~is_smp_line(l) /\ Trim(l) # <<>> THEN <<Trim(l)>> ELSE <<>>
  BY <1>3, <1>5 DEF FrameOf, LogOf
<1> QED BY <1>6 DEF x

LEMMA LineTypes ==
  ASSUME TypeOK, NEW done \in Seq(Whole), NEW rest \in Seq(Whole)
  PROVE  /\ wire \in Seq(Bytes) /\ buf \in Seq(Bytes) /\ line \in Seq(Bytes) /\ line \in LineBody
         /\ queue \in Seq(Seq(Bytes)) /\ out \in Seq(Seq(Bytes)) /\ pending \in Seq(Bytes)
         /\ got \in Seq(Bytes) /\ rest \in Seq(Seq(Bytes)) /\ done \in Seq(Seq(Bytes))
         /\ FlattenSeq(queue) \in Seq(Bytes) /\ FlattenSeq(rest) \in Seq(Bytes)
         /\ FramesOf(done) \in Seq(Bytes)
<1>1. line \in LineBody /\ queue \in Seq(Seq(Bytes))
  BY DEF TypeOK, LineBody
<1>2. rest \in Seq(Seq(Bytes)) /\ done \in Seq(Seq(Bytes)) /\ line \in Seq(Bytes)
  BY <1>1, BytesBelow
<1>3. FlattenSeq(queue) \in Seq(Bytes) /\ FlattenSeq(rest) \in Seq(Bytes)
  BY <1>1, <1>2, FlattenType
<1>4. FramesOf(done) \in Seq(Bytes)
  BY PartsMore
<1> QED BY <1>1, <1>2, <1>3, <1>4 DEF TypeOK

LEMMA InitLines == Init => LineInv
<1> SUFFICES ASSUME Init PROVE LineInv
  OBVIOUS
<1>1. <<>> \in Seq(Whole) /\ Cat(<<>>, <<>>) = <<>>
  BY DEF Cat
<1>2. FramesOf(<<>>) = <<>> /\ LogsOf(<<>>) = <<>>
  <2>1. FrameParts(<<>>) = <<>> /\ LogParts(<<>>) = <<>>
    BY DEF FrameParts, LogParts
  <2> QED BY <2>1, PartsAre, FlattenEmpty
<1>3. Routed(<<>>, <<>>)
  BY <1>1, <1>2, FlattenEmpty DEF Routed, Init
<1> QED BY <1>1, <1>3 DEF LineInv

LEMMA DeviceLines == \A b \in Bodies : Lines(b) \subseteq Whole
<1> SUFFICES ASSUME NEW b \in Bodies PROVE Lines(b) \subseteq Whole
  OBVIOUS
<1>1. b \in Bytes \ {"n"} /\ "m" \in Bytes \ {"n"} /\ "r" \in Bytes \ {"n"}
  BY DemuxAssumption DEF Bytes
<1>2. <<"m", b>> \in LineBody /\ <<b>> \in LineBody /\ <<b, "r">> \in LineBody /\ <<"r">> \in LineBody
  BY <1>1 DEF LineBody
<1>3. /\ <<"m", b, "n">> = Append(<<"m", b>>, "n") /\ <<b, "n">> = Append(<<b>>, "n")
      /\ <<b, "r", "n">> = Append(<<b, "r">>, "n") /\ <<"r", "n">> = Append(<<"r">>, "n")
  OBVIOUS
<1> QED BY <1>2, <1>3 DEF Lines, Whole

\* Concatenations regrouped.
LEMMA Regroup ==
  ASSUME NEW S, NEW a \in Seq(S), NEW b \in Seq(S), NEW c \in Seq(S), NEW d \in Seq(S)
  PROVE  Cat(Cat(a, Cat(b, c)), d) = Cat(a, Cat(b, Cat(c, d)))
<1>1. Cat(b, c) \in Seq(S)
  BY CatSeq
<1>2. Cat(Cat(b, c), d) = Cat(b, Cat(c, d))
  BY CatAssociative
<1> QED BY <1>1, <1>2, CatAssociative

\* The first element, moved from one sequence to the end of another.
LEMMA MoveHead ==
  ASSUME NEW S, NEW a \in Seq(S), NEW b \in Seq(S), b # <<>>, NEW c \in Seq(S)
  PROVE  Cat(Append(a, Head(b)), Cat(Tail(b), c)) = Cat(a, Cat(b, c))
<1>1. Head(b) \in S /\ Tail(b) \in Seq(S)
  BY HeadTailProperties
<1> DEFINE h == <<Head(b)>>
           t == Tail(b)
<1>2. b = h \o t
  <2>1. Len(b) \in 1..Len(b) /\ 1 \in 1..Len(b)
    BY EmptySeq
  <2> QED BY <2>1, SubSeqRecursiveFirst, SubSeqFull, TailIsSubSeq
<1>3. Append(a, Head(b)) = Cat(a, h) /\ h \in Seq(S) /\ t \in Seq(S)
  BY <1>1, CatOne
<1> HIDE DEF h, t
<1>4. Cat(t, c) \in Seq(S)
  BY <1>3, CatSeq
<1>5. Cat(Cat(a, h), Cat(t, c)) = Cat(a, Cat(h, Cat(t, c)))
  BY <1>3, <1>4, CatAssociative
<1>6. Cat(h, Cat(t, c)) = Cat(b, c)
  <2>1. b = Cat(h, t)
    BY <1>2 DEF Cat
  <2>2. Cat(Cat(h, t), c) = Cat(h, Cat(t, c))
    BY <1>3, CatAssociative
  <2> QED BY <2>1, <2>2
<1>7. Cat(Append(a, Head(b)), Cat(t, c)) = Cat(a, Cat(b, c))
  BY <1>3, <1>5, <1>6
<1> QED BY <1>7 DEF t

\* A sequence cut in two.
LEMMA CutInTwo ==
  ASSUME NEW S, NEW s \in Seq(S), NEW n \in 1..Len(s)
  PROVE  Cat(SubSeq(s, 1, n), SubSeq(s, n + 1, Len(s))) = s
<1>1. Len(s) \in Nat
  BY LenProperties
<1>2. 1 \in 1..Len(s) + 1 /\ n \in 1 - 1..Len(s) /\ Len(s) \in n..Len(s)
  BY <1>1
<1>3. SubSeq(s, 1, n) \o SubSeq(s, n + 1, Len(s)) = SubSeq(s, 1, Len(s))
  BY <1>2, ConcatAdjacentSubSeq
<1> QED BY <1>3, SubSeqFull DEF Cat

LEMMA EmitLines ==
  ASSUME TypeOK, LineInv, NEW b \in Bodies, NEW l \in Lines(b), Emit(l)
  PROVE  LineInv'
<1>1. PICK done \in Seq(Whole), rest \in Seq(Whole) : Routed(done, rest)
  BY DEF LineInv
<1>2. l \in Whole /\ l \in Seq(Bytes)
  BY DeviceLines, BytesBelow
<1>3. /\ wire \in Seq(Bytes) /\ buf \in Seq(Bytes) /\ line \in Seq(Bytes) /\ rest \in Seq(Seq(Bytes))
  BY LineTypes
<1> DEFINE more == Append(rest, l)
<1>4. more \in Seq(Whole)
  BY <1>2, AppendProperties
<1>5. sent' = Cat(done, more)
  <2>1. sent' = Append(Cat(done, rest), l)
    BY <1>1 DEF Routed, Emit
  <2> DEFINE one == <<l>>
  <2>2. Cat(done, rest) \in Seq(Whole) /\ one \in Seq(Whole)
    BY <1>2, CatSeq, CatOne
  <2>3. Append(Cat(done, rest), l) = Cat(Cat(done, rest), one) /\ more = Cat(rest, one)
    BY <1>2, <2>2, CatOne
  <2> HIDE DEF one
  <2>4. Cat(Cat(done, rest), one) = Cat(done, Cat(rest, one))
    BY <2>2, CatAssociative
  <2> QED BY <2>1, <2>3, <2>4
<1>6. Cat(line, Cat(buf, Cat(wire, l))) = FlattenSeq(more)
  <2>1. FlattenSeq(more) = Cat(FlattenSeq(rest), l)
    <3>1. FlattenSeq(more) = FlattenSeq(rest) \o l
      BY <1>2, <1>3, FlattenAppend
    <3> HIDE DEF more
    <3> QED BY <3>1 DEF Cat
  <2>2. FlattenSeq(rest) = Cat(line, Cat(buf, wire))
    BY <1>1 DEF Routed
  <2>3. Cat(Cat(line, Cat(buf, wire)), l) = Cat(line, Cat(buf, Cat(wire, l)))
    BY <1>2, <1>3, Regroup
  <2> QED BY <2>1, <2>2, <2>3
<1> HIDE DEF more
<1>7. /\ wire' = Cat(wire, l) /\ UNCHANGED <<line, buf, got, pending, queue, out>>
  BY DEF Emit, pumpVars, callVars, Cat
<1>8. Routed(done, more)'
  BY <1>1, <1>5, <1>6, <1>7 DEF Routed
<1> QED BY <1>4, <1>8 DEF LineInv

LEMMA PumpReadsLines ==
  ASSUME TypeOK, LineInv, NEW n \in 1..Len(wire), PumpReads(n)
  PROVE  LineInv'
<1>1. PICK done \in Seq(Whole), rest \in Seq(Whole) : Routed(done, rest)
  BY DEF LineInv
<1>2. wire \in Seq(Bytes) /\ buf = <<>>
  BY DEF TypeOK, PumpReads
<1>3. /\ buf' = SubSeq(wire, 1, n) /\ wire' = SubSeq(wire, n + 1, Len(wire))
      /\ UNCHANGED <<line, got, pending, queue, out, sent>>
  BY DEF PumpReads, callVars
<1>4. Cat(buf', wire') = Cat(buf, wire)
  BY <1>2, <1>3, CutInTwo, CatEmpty
<1>5. Routed(done, rest)'
  BY <1>1, <1>3, <1>4 DEF Routed
<1> QED BY <1>5 DEF LineInv

\* A byte of a line that goes on.
LEMMA RouteByteLines ==
  ASSUME TypeOK, LineInv, Route, Head(buf) # "n"
  PROVE  LineInv'
<1>1. PICK done \in Seq(Whole), rest \in Seq(Whole) : Routed(done, rest)
  BY DEF LineInv
<1>2. /\ wire \in Seq(Bytes) /\ buf \in Seq(Bytes) /\ line \in Seq(Bytes)
  BY LineTypes
<1>3. buf # <<>>
  BY DEF TypeOK, Route
<1>4. /\ buf' = Tail(buf) /\ line' = Append(line, Head(buf))
      /\ UNCHANGED <<wire, got, pending, queue, out, sent>>
  BY DEF Route, linkVars, callVars
<1>5. Cat(line', Cat(buf', wire')) = Cat(line, Cat(buf, wire))
  BY <1>2, <1>3, <1>4, MoveHead
<1>6. Routed(done, rest)'
  BY <1>1, <1>4, <1>5 DEF Routed
<1> QED BY <1>6 DEF LineInv

\* The byte that ends a line: the line is the first of those to come.
LEMMA EndOfLine ==
  ASSUME TypeOK, NEW rest \in Seq(Whole), Cat(line, Cat(buf, wire)) = FlattenSeq(rest),
         buf # <<>>, Head(buf) = "n"
  PROVE  /\ rest # <<>> /\ Head(rest) = Append(line, "n")
         /\ Cat(Tail(buf), wire) = FlattenSeq(Tail(rest))
<1>1. /\ wire \in Seq(Bytes) /\ buf \in Seq(Bytes) /\ line \in Seq(Bytes) /\ line \in LineBody
      /\ rest \in Seq(Seq(Bytes))
  BY LineTypes
<1> DEFINE u == Cat(Tail(buf), wire)
           x == Append(line, "n")
<1>2. u \in Seq(Bytes) /\ x \in Seq(Bytes)
  BY <1>1, HeadTailProperties, CatSeq, BytesBelow, AppendProperties
<1>3. Cat(x, u) = FlattenSeq(rest)
  <2>1. Cat(Append(line, Head(buf)), Cat(Tail(buf), wire)) = Cat(line, Cat(buf, wire))
    BY <1>1, MoveHead
  <2> QED BY <2>1
<1> HIDE DEF u
<1>4. rest # <<>>
  <2> SUFFICES ASSUME rest = <<>> PROVE FALSE
    OBVIOUS
  <2>1. x \o u = <<>>
    BY <1>3, FlattenEmpty DEF Cat
  <2>2. x # <<>>
    BY <1>1, BytesBelow, AppendProperties
  <2> HIDE DEF x
  <2> QED BY <1>2, <2>1, <2>2, ConcatProperties, EmptySeq, LenProperties
<1>5. Head(rest) \in Whole /\ Tail(rest) \in Seq(Whole)
  BY <1>4, HeadTailProperties
<1>6. PICK s \in LineBody : Head(rest) = Append(s, "n")
  BY <1>5 DEF Whole
<1> DEFINE v == FlattenSeq(Tail(rest))
<1>7. v \in Seq(Bytes)
  BY <1>5, BytesBelow, FlattenType
<1>8. FlattenSeq(rest) = Append(s, "n") \o v
  BY <1>1, <1>4, <1>6, FlattenHead
<1> HIDE DEF v
<1>9. Append(line, "n") \o u = Append(s, "n") \o v
  BY <1>3, <1>8 DEF Cat
<1>10. line \in Seq(Bytes \ {"n"}) /\ s \in Seq(Bytes \ {"n"})
  BY <1>1 DEF LineBody
<1>11. \A a, b \in Seq(Bytes \ {"n"}) :
           Append(a, "n") \o u = Append(b, "n") \o v => a = b /\ u = v
  BY <1>2, <1>7, FirstNewline
<1>12. line = s /\ u = v
  BY <1>9, <1>10, <1>11, Zenon
<1> QED BY <1>4, <1>6, <1>12 DEF u, v

(* The newline: the line has been routed, whole, as a frame or as output.  *)
LEMMA RouteLineLines ==
  ASSUME TypeOK, LineInv, Route, Head(buf) = "n"
  PROVE  LineInv'
<1>1. PICK done \in Seq(Whole), rest \in Seq(Whole) : Routed(done, rest)
  BY DEF LineInv
<1> DEFINE x == Append(line, "n")
           one == <<x>>
           frame == FrameOf(x)
           log == LogOf(x)
           more == Append(done, x)
           left == Tail(rest)
<1>2. buf # <<>>
  BY DEF TypeOK, Route
<1>3. rest # <<>> /\ Head(rest) = x /\ Cat(Tail(buf), wire) = FlattenSeq(left)
  BY <1>1, <1>2, EndOfLine DEF Routed
<1>4. x \in Whole /\ left \in Seq(Whole) /\ more \in Seq(Whole)
  <2>1. Head(rest) \in Whole /\ left \in Seq(Whole)
    BY <1>3, HeadTailProperties
  <2> HIDE DEF x
  <2> QED BY <1>3, <2>1, AppendProperties
<1>5. /\ line \in LineBody /\ queue \in Seq(Seq(Bytes)) /\ out \in Seq(Seq(Bytes))
      /\ got \in Seq(Bytes) /\ pending \in Seq(Bytes) /\ FlattenSeq(queue) \in Seq(Bytes)
  BY LineTypes
<1>6. x \in Seq(Bytes) /\ frame \in Seq(Bytes) /\ log \in Seq(Seq(Bytes))
  <2>1. x \in Seq(Bytes) /\ x # <<>>
    <3>1. line \in Seq(Bytes) /\ "n" \in Bytes
      BY <1>5, BytesBelow
    <3> QED BY <3>1, AppendProperties
  <2> HIDE DEF x
  <2> QED BY <2>1, PartsType
<1>7. /\ FramesOf(more) = FramesOf(done) \o frame /\ LogsOf(more) = LogsOf(done) \o log
  <2>1. one \in Seq(Whole) /\ more = done \o one
    <3> HIDE DEF x
    <3> QED BY <1>4, CatOne DEF Cat
  <2>2. FramesOf(one) = frame /\ LogsOf(one) = log
    BY <1>4, PartsOne
  <2> HIDE DEF x, one, frame, log, more
  <2> QED BY <2>1, <2>2, PartsMore
<1>8. sent' = Cat(more, left)
  <2>1. sent' = Cat(done, rest)
    BY <1>1 DEF Routed, Route, linkVars
  <2>2. /\ \A c \in Seq(Whole) : Cat(Append(done, Head(rest)), Cat(Tail(rest), c)) = Cat(done, Cat(rest, c))
        /\ <<>> \in Seq(Whole)
    BY <1>3, MoveHead
  <2>3. Cat(rest, <<>>) = rest /\ Cat(left, <<>>) = left
    BY <1>4, CatEmpty
  <2> QED BY <1>3, <2>1, <2>2, <2>3
<1>9. Cat(line', Cat(buf', wire')) = FlattenSeq(left)
  <2>1. line' = <<>> /\ buf' = Tail(buf) /\ wire' = wire
    BY DEF Route, linkVars
  <2>2. Cat(Tail(buf), wire) \in Seq(Bytes)
    BY <1>2, HeadTailProperties, CatSeq DEF TypeOK
  <2> QED BY <1>3, <2>1, <2>2, CatEmpty
<1>10. Cat(Cat(got', pending'), FlattenSeq(queue')) = FramesOf(more)
  <2>1. got' = got /\ pending' = pending
    BY DEF Route, callVars
  <2>2. queue' = IF is_smp_line(line) THEN Append(queue, x) ELSE queue
    BY DEF Route
  <2>3. frame = IF is_smp_line(line) THEN x ELSE <<>>
    BY <1>5, RoutedLine
  <2>4. FlattenSeq(queue') = Cat(FlattenSeq(queue), frame)
    <3>1. CASE is_smp_line(line)
      <4>1. FlattenSeq(Append(queue, x)) = FlattenSeq(queue) \o x
        BY <1>5, <1>6, FlattenAppend
      <4> HIDE DEF x, frame
      <4> QED BY <2>2, <2>3, <3>1, <4>1 DEF Cat
    <3>2. CASE ~is_smp_line(line)
      <4> HIDE DEF x, frame
      <4> QED BY <1>5, <2>2, <2>3, <3>2, CatEmpty
    <3> QED BY <3>1, <3>2
  <2> HIDE DEF x, frame, more
  <2>5. FramesOf(more) = Cat(Cat(Cat(got, pending), FlattenSeq(queue)), frame)
    BY <1>1, <1>7 DEF Routed, Cat
  <2>6. Cat(got, pending) \in Seq(Bytes)
    BY <1>5, CatSeq
  <2>7. FramesOf(more) = Cat(Cat(got, pending), Cat(FlattenSeq(queue), frame))
    BY <1>5, <1>6, <2>5, <2>6, CatAssociative
  <2> QED BY <2>1, <2>4, <2>7
<1>11. out' = LogsOf(more)
  <2>1. out' = IF ~is_smp_line(line) /\ Trim(line) # <<>> THEN Append(out, Trim(line)) ELSE out
    BY DEF Route
  <2>2. log = IF ~is_smp_line(line) /\ Trim(line) # <<>> THEN <<Trim(line)>> ELSE <<>>
    BY <1>5, RoutedLine
  <2>3. Trim(line) \in Seq(Bytes)
    BY <1>5, BytesBelow, TrimType
  <2>4. out' = out \o log
    <3> DEFINE t == Trim(line)
    <3> HIDE DEF t, log
    <3>1. Append(out, t) = out \o <<t>> /\ out \o <<>> = out
      BY <1>5, <2>3, AppendIsConcat, ConcatEmptySeq DEF t
    <3> QED BY <2>1, <2>2, <3>1 DEF t
  <2> HIDE DEF log, more
  <2> QED BY <1>1, <1>7, <2>4 DEF Routed
<1>12. PICK d \in Seq(Whole), r \in Seq(Whole) : d = more /\ r = left
  BY <1>4
<1> HIDE DEF more, left
<1>13. Routed(d, r)'
  BY <1>8, <1>9, <1>10, <1>11, <1>12 DEF Routed
<1> QED BY <1>13 DEF LineInv

(* What a read of the caller takes is what pending or the queue loses.     *)
LEMMA ReadLines ==
  ASSUME TypeOK, LineInv, NEW n \in 1..Len(Available), Read(n)
  PROVE  LineInv'
<1>1. PICK done \in Seq(Whole), rest \in Seq(Whole) : Routed(done, rest)
  BY DEF LineInv
<1>2. /\ queue \in Seq(Seq(Bytes)) /\ got \in Seq(Bytes) /\ pending \in Seq(Bytes)
      /\ FlattenSeq(queue) \in Seq(Bytes)
  BY LineTypes
<1> DEFINE a == Available
           p == SubSeq(a, 1, n)
           q == SubSeq(a, n + 1, Len(a))
<1>3. pending = <<>> => queue # <<>>
  BY DEF Available
<1>4. a \in Seq(Bytes)
  BY <1>2, HeadTailProperties DEF Available
<1>5. p \in Seq(Bytes) /\ q \in Seq(Bytes) /\ Cat(p, q) = a
  <2>1. n \in 1..Len(a) /\ Len(a) \in Nat
    BY <1>4, LenProperties
  <2> HIDE DEF a
  <2>2. Cat(p, q) = a
    BY <1>4, <2>1, CutInTwo
  <2>3. \A i \in 1..Len(a) : a[i] \in Bytes
    BY <1>4, ElementOfSeq
  <2>4. p \in Seq(Bytes)
    BY <2>1, <2>3, SubSeqProperties
  <2>5. q \in Seq(Bytes)
    <3>1. \A i \in n + 1..Len(a) : i \in 1..Len(a)
      BY <2>1
    <3> QED BY <2>1, <2>3, <3>1, SubSeqProperties
  <2> QED BY <2>2, <2>4, <2>5
<1>6. got' = Cat(got, p) /\ pending' = q
  BY DEF Read, Cat
<1>7. queue' = (IF pending = <<>> THEN Tail(queue) ELSE queue)
      /\ UNCHANGED <<sent, line, buf, wire, out>>
  BY DEF Read, linkVars
<1> HIDE DEF p, q
<1>8. Cat(got', pending') = Cat(got, a)
  <2>1. Cat(Cat(got, p), q) = Cat(got, Cat(p, q))
    BY <1>2, <1>5, CatAssociative
  <2> QED BY <1>5, <1>6, <2>1
<1>9. Cat(Cat(got', pending'), FlattenSeq(queue')) = Cat(Cat(got, pending), FlattenSeq(queue))
  <2>1. CASE pending # <<>>
    BY <1>7, <1>8, <2>1 DEF Available
  <2>2. CASE pending = <<>>
    <3>1. a = Head(queue)
      BY <1>3, <2>2 DEF Available
    <3> DEFINE r == FlattenSeq(Tail(queue))
    <3>2. r \in Seq(Bytes)
      BY <1>2, <1>3, <2>2, HeadTailProperties, FlattenType
    <3>3. FlattenSeq(queue) = Cat(a, r)
      BY <1>2, <1>3, <2>2, <3>1, FlattenHead DEF Cat
    <3> HIDE DEF a, r
    <3>4. Cat(Cat(got, a), r) = Cat(got, Cat(a, r))
      BY <1>2, <1>4, <3>2, CatAssociative
    <3>5. Cat(got, pending) = got
      BY <1>2, <2>2, CatEmpty
    <3>6. FlattenSeq(queue') = r
      BY <1>7, <2>2 DEF r
    <3> QED BY <1>8, <3>3, <3>4, <3>5, <3>6
  <2> QED BY <2>1, <2>2
<1>10. Routed(done, rest)'
  BY <1>1, <1>7, <1>9 DEF Routed
<1> QED BY <1>10 DEF LineInv

\* A new connection: at most the end of a line the device was writing.
LEMMA OpenLines == ASSUME Open PROVE LineInv'
<1>1. /\ got' = <<>> /\ pending' = <<>> /\ queue' = <<>> /\ out' = <<>> /\ line' = <<>> /\ buf' = <<>>
      /\ sent' = IF wire' = <<>> THEN <<>> ELSE <<wire'>>
  BY DEF Open
<1>2. wire' = <<>> \/ wire' \in Whole
  BY DeviceLines DEF Open, Lines
<1>3. PICK w : w = wire'
  OBVIOUS
<1>4. PICK r : r = IF w = <<>> THEN <<>> ELSE <<w>>
  OBVIOUS
<1>5. r \in Seq(Whole) /\ <<>> \in Seq(Whole) /\ FlattenSeq(r) = w /\ w \in Seq(Bytes)
  <2>1. CASE w = <<>>
    BY <1>4, <2>1, FlattenEmpty
  <2>2. CASE w # <<>>
    <3>1. w \in Whole /\ w \in Seq(Bytes)
      BY <1>2, <1>3, <2>2, BytesBelow
    <3> QED BY <1>4, <2>2, <3>1, FlattenOne
  <2> QED BY <2>1, <2>2
<1>6. Cat(<<>>, <<>>) = <<>> /\ Cat(<<>>, w) = w /\ Cat(<<>>, r) = r
  BY <1>5, CatEmpty
<1>7. FramesOf(<<>>) = <<>> /\ LogsOf(<<>>) = <<>> /\ FlattenSeq(<<>>) = <<>>
  <2>1. FrameParts(<<>>) = <<>> /\ LogParts(<<>>) = <<>>
    BY DEF FrameParts, LogParts
  <2> QED BY <2>1, PartsAre, FlattenEmpty
<1>8. Routed(<<>>, r)'
  BY <1>1, <1>3, <1>4, <1>5, <1>6, <1>7 DEF Routed
<1> QED BY <1>5, <1>8 DEF LineInv

LEMMA LinesStep == TypeOK /\ LineInv /\ [Next]_vars => LineInv'
<1> SUFFICES ASSUME TypeOK, LineInv, [Next]_vars PROVE LineInv'
  OBVIOUS
<1>1. ASSUME UNCHANGED <<sent, line, buf, wire, got, pending, queue, out>> PROVE LineInv'
  BY <1>1 DEF LineInv, Routed
<1>2. ASSUME NEW b \in Bodies, NEW l \in Lines(b), Emit(l) PROVE LineInv'
  BY <1>2, EmitLines
<1>3. CASE Detach
  BY <1>1, <1>3 DEF Detach, pumpVars, callVars
<1>4. CASE PumpStops
  BY <1>1, <1>4 DEF PumpStops, linkVars, callVars
<1>5. CASE PumpFails
  BY <1>1, <1>5 DEF PumpFails, linkVars, callVars
<1>6. CASE Route
  BY <1>6, RouteByteLines, RouteLineLines
<1>7. ASSUME NEW n \in 1..Len(wire), PumpReads(n) PROVE LineInv'
  BY <1>7, PumpReadsLines
<1>8. CASE ReadTimesOut
  BY <1>1, <1>8 DEF ReadTimesOut, linkVars, pumpVars
<1>9. CASE ReadEof
  BY <1>1, <1>9 DEF ReadEof, linkVars, pumpVars
<1>10. ASSUME NEW n \in 1..Len(Available), Read(n) PROVE LineInv'
  BY <1>10, ReadLines
<1>11. CASE Open
  BY <1>11, OpenLines
<1>12. CASE Drop
  BY <1>1, <1>12 DEF Drop, linkVars, pumpVars
<1>13. CASE Close
  BY <1>1, <1>13 DEF Close, linkVars, pumpVars
<1>14. CASE UNCHANGED vars
  BY <1>1, <1>14 DEF vars
<1> QED
  BY <1>2, <1>3, <1>4, <1>5, <1>6, <1>7, <1>8, <1>9, <1>10, <1>11, <1>12, <1>13, <1>14
  DEF Next, Pump, Reads

(* What the device wrote is what has been routed (pump), then the line     *)
(* being put together, then the bytes that have not been read: the three   *)
(* together fall into the frames and the log lines it wrote.               *)
THEOREM RoutedInOrder == Spec => []LineInv
<1>1. Spec => []TypeOK
  BY DemuxTypeOK
<1> QED BY <1>1, InitLines, LinesStep, PTL DEF Spec

\* What the reader has left once everything written has gone through it.
LEMMA NothingLeft ==
  ASSUME TypeOK, NEW rest \in Seq(Whole), Cat(line, Cat(buf, wire)) = FlattenSeq(rest), CaughtUp
  PROVE  rest = <<>>
<1> SUFFICES ASSUME rest # <<>> PROVE FALSE
  OBVIOUS
<1>1. line \in LineBody /\ line \in Seq(Bytes) /\ rest \in Seq(Seq(Bytes))
  BY LineTypes
<1>2. line = FlattenSeq(rest)
  <2>1. buf = <<>> /\ wire = <<>>
    BY DEF CaughtUp
  <2>2. Cat(<<>>, <<>>) = <<>>
    BY DEF Cat
  <2>3. Cat(line, <<>>) = line
    BY <1>1, CatEmpty
  <2> QED BY <2>1, <2>2, <2>3
<1>3. Head(rest) \in Whole /\ Tail(rest) \in Seq(Whole)
  BY HeadTailProperties
<1>4. PICK s \in LineBody : Head(rest) = Append(s, "n")
  BY <1>3 DEF Whole
<1> DEFINE v == FlattenSeq(Tail(rest))
           x == Append(s, "n")
<1>5. v \in Seq(Bytes)
  BY <1>3, BytesBelow, FlattenType
<1>6. line = x \o v
  BY <1>1, <1>2, <1>4, FlattenHead
<1>7. x \in Seq(Bytes) /\ Len(x) = Len(s) + 1 /\ x[Len(s) + 1] = "n" /\ Len(s) \in Nat
  <2>1. s \in Seq(Bytes) /\ "n" \in Bytes
    BY BytesBelow
  <2> QED BY <2>1, AppendProperties, LenProperties
<1> DEFINE k == Len(s) + 1
<1>8. k \in 1..Len(x)
  BY <1>7
<1> HIDE DEF v, x, k
<1>9. k \in 1..Len(line) /\ line[k] = x[k]
  <2>1. Len(x) \in Nat /\ Len(v) \in Nat
    BY <1>5, <1>7, LenProperties
  <2>2. Len(x \o v) = Len(x) + Len(v)
        /\ \A i \in 1..Len(x) + Len(v) : (x \o v)[i] = IF i <= Len(x) THEN x[i] ELSE v[i - Len(x)]
    BY <1>5, <1>7, ConcatProperties
  <2>3. k \in 1..Len(x) + Len(v) /\ k <= Len(x)
    BY <1>8, <2>1
  <2> QED BY <1>6, <2>2, <2>3
<1>10. line[k] # "n"
  BY <1>1, <1>9, ElementOfSeq DEF LineBody
<1> QED BY <1>7, <1>9, <1>10 DEF k

(* LogDemux: whatever the reads cut, the SMP client is handed a prefix of  *)
(* the frames the device wrote, and all of them once the reader has caught *)
(* up: no byte of a frame is lost, repeated or moved.                      *)
THEOREM ClientGetsFrames == Spec => []FramesKept
<1>1. ASSUME TypeOK, LineInv PROVE FramesKept
  <2>1. PICK done \in Seq(Whole), rest \in Seq(Whole) : Routed(done, rest)
    BY <1>1 DEF LineInv
  <2> DEFINE seen == got \o pending \o FlattenSeq(queue)
  <2>2. seen = FramesOf(done) /\ sent = done \o rest
    BY <2>1 DEF Routed, Cat
  <2>3. /\ FramesOf(done) \in Seq(Bytes) /\ FramesOf(rest) \in Seq(Bytes)
        /\ FramesOf(done \o rest) = FramesOf(done) \o FramesOf(rest)
    BY PartsMore
  <2>4. IsPrefix(FramesOf(done), FramesOf(done) \o FramesOf(rest))
    BY <2>3, PrefixOfConcat
  <2>5. CaughtUp => sent = done
    <3>1. CaughtUp => rest = <<>>
      BY <1>1, <2>1, NothingLeft DEF Routed
    <3> QED BY <2>1, <3>1, CatEmpty DEF Routed
  <2> HIDE DEF seen
  <2>6. IsPrefix(seen, FramesOf(sent)) /\ (CaughtUp => seen = FramesOf(sent))
    BY <2>2, <2>3, <2>4, <2>5
  <2> QED BY <2>6 DEF FramesKept, seen
<1>2. Spec => []TypeOK /\ []LineInv
  BY DemuxTypeOK, RoutedInOrder
<1> QED BY <1>1, <1>2, PTL

(* The log sink is given a prefix of the log lines the device wrote, each  *)
(* whole and without its ending, and all of them once the reader has       *)
(* caught up; no frame is among them.                                      *)
THEOREM SinkGetsLogs == Spec => []LogsKept
<1>1. ASSUME TypeOK, LineInv PROVE LogsKept
  <2>1. PICK done \in Seq(Whole), rest \in Seq(Whole) : Routed(done, rest)
    BY <1>1 DEF LineInv
  <2>2. out = LogsOf(done) /\ sent = done \o rest
    BY <2>1 DEF Routed, Cat
  <2>3. /\ LogsOf(done) \in Seq(Seq(Bytes)) /\ LogsOf(rest) \in Seq(Seq(Bytes))
        /\ LogsOf(done \o rest) = LogsOf(done) \o LogsOf(rest)
    BY PartsMore
  <2>4. IsPrefix(LogsOf(done), LogsOf(done) \o LogsOf(rest))
    BY <2>3, PrefixOfConcat
  <2>5. CaughtUp => sent = done
    <3>1. CaughtUp => rest = <<>>
      BY <1>1, <2>1, NothingLeft DEF Routed
    <3> QED BY <2>1, <3>1, CatEmpty DEF Routed
  <2> QED BY <2>2, <2>3, <2>4, <2>5 DEF LogsKept
<1>2. Spec => []TypeOK /\ []LineInv
  BY DemuxTypeOK, RoutedInOrder
<1> QED BY <1>1, <1>2, PTL
=============================================================================
