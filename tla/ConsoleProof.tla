---------------------------- MODULE ConsoleProof ----------------------------
(***************************************************************************)
(* The framing, for any packets, losses, damage and hosts that die: no     *)
(* packet is acted on twice or out of turn; one that arrives unchanged, on *)
(* a line of its own, is delivered; every fault costs at most one packet   *)
(* that itself arrives unchanged; and the first packet of the next host is *)
(* delivered if end of file was noticed before it.                         *)
(***************************************************************************)
EXTENDS Console, SequenceTheorems, FiniteSetTheorems, TLAPS

Pieces(s) == {j \in 1..Len(s) : s[j].tag = "piece"}

\* The order in which pieces are written.
Less(x, y) == x.t < y.t \/ (x.t = y.t /\ x.i < y.i)

Sorted(s) == \A j, k \in Pieces(s) : j < k => Less(s[j], s[k])
Before(r, s) == \A j \in Pieces(r), k \in Pieces(s) : Less(r[j], s[k])

\* Every piece belongs to a packet of q, or to one behind those of d.
Known(s, q) == \A j \in Pieces(s) : s[j].t \in 1..Len(q) /\ s[j].i \in 1..q[s[j].t].lines
Newer(s, d) == \A j \in Pieces(s), k \in 1..Len(d) : d[k] < s[j].t

(* DeliveredOnceInOrder is not inductive: a packet is delivered from what  *)
(* has been put together, so that must be newer than what has been         *)
(* delivered, and what is still on its way newer than both.  A piece that  *)
(* was put together before the last packet was delivered may be left in    *)
(* acc, but then no packet is open.                                        *)
OrderInv ==
  /\ Sorted(wire) /\ Before(line, wire) /\ Before(acc, wire)
  /\ Known(wire, sent) /\ Known(line, sent) /\ Known(acc, sent)
  /\ Newer(wire, delivered) /\ Newer(line, delivered)
  /\ in_packet => Newer(acc, delivered)

Inv == TypeOK /\ OrderInv /\ DeliveredOnceInOrder

-----------------------------------------------------------------------------
(* Sequences of tokens *)

LEMMA Marks ==
  /\ \A tag \in {"start", "cont", "newline", "x", "wrong", "eof"} :
       Mark(tag) \in Token /\ Mark(tag).tag = tag
  /\ \A t, i \in Nat : Piece(t, i) \in Token /\ Piece(t, i).tag = "piece"
                       /\ Piece(t, i).t = t /\ Piece(t, i).i = i
BY DEF Mark, Piece, Token

LEMMA Empty ==
  /\ <<>> \in Seq(Token) /\ Sorted(<<>>)
  /\ \A s : Before(<<>>, s) /\ Before(s, <<>>) /\ Known(<<>>, s) /\ Newer(<<>>, s)
BY DEF Pieces, Sorted, Before, Known, Newer

\* Taking the first token away leaves the order and the packets as they are.
LEMMA TailKeeps ==
  ASSUME NEW s \in Seq(Token), s # <<>>
  PROVE  /\ Tail(s) \in Seq(Token)
         /\ Sorted(s) => Sorted(Tail(s))
         /\ \A r : Before(r, s) => Before(r, Tail(s))
         /\ \A r : Before(s, r) => Before(Tail(s), r)
         /\ \A q : Known(s, q) => Known(Tail(s), q)
         /\ \A d : Newer(s, d) => Newer(Tail(s), d)
<1>1. /\ Tail(s) \in Seq(Token) /\ Len(s) \in Nat /\ Len(Tail(s)) = Len(s) - 1
      /\ \A j \in 1..Len(Tail(s)) : Tail(s)[j] = s[j + 1]
  BY HeadTailProperties, LenProperties
<1>2. \A j \in Pieces(Tail(s)) : j + 1 \in Pieces(s) /\ Tail(s)[j] = s[j + 1] /\ j \in Nat
  BY <1>1 DEF Pieces
<1>3. Sorted(s) => Sorted(Tail(s))
  <2> SUFFICES ASSUME Sorted(s), NEW j \in Pieces(Tail(s)), NEW k \in Pieces(Tail(s)), j < k
               PROVE  Less(Tail(s)[j], Tail(s)[k])
    BY DEF Sorted
  <2>1. j + 1 \in Pieces(s) /\ k + 1 \in Pieces(s) /\ j + 1 < k + 1
    BY <1>2
  <2>2. Less(s[j + 1], s[k + 1])
    BY <2>1 DEF Sorted
  <2> QED BY <1>2, <2>2
<1> QED BY <1>1, <1>2, <1>3 DEF Before, Known, Newer

LEMMA HeadIsFirst ==
  ASSUME NEW s \in Seq(Token), s # <<>>, Sorted(s), Head(s).tag = "piece"
  PROVE  /\ 1 \in Pieces(s) /\ s[1] = Head(s)
         /\ \A k \in Pieces(Tail(s)) : Less(Head(s), Tail(s)[k])
<1>1. /\ Len(s) \in Nat \ {0} /\ Len(Tail(s)) = Len(s) - 1 /\ Head(s) = s[1]
      /\ \A j \in 1..Len(Tail(s)) : Tail(s)[j] = s[j + 1]
  BY HeadTailProperties, LenProperties
<1>2. 1 \in Pieces(s)
  BY <1>1 DEF Pieces
<1>3. \A k \in Pieces(Tail(s)) : k + 1 \in Pieces(s) /\ 1 < k + 1 /\ Tail(s)[k] = s[k + 1]
  BY <1>1 DEF Pieces
<1> QED BY <1>1, <1>2, <1>3 DEF Sorted

LEMMA ConcatKeeps ==
  ASSUME NEW r \in Seq(Token), NEW s \in Seq(Token)
  PROVE  /\ r \o s \in Seq(Token)
         /\ \A w : Before(r, w) /\ Before(s, w) => Before(r \o s, w)
         /\ \A w : Before(w, r) /\ Before(w, s) => Before(w, r \o s)
         /\ \A q : Known(r, q) /\ Known(s, q) => Known(r \o s, q)
         /\ \A d : Newer(r, d) /\ Newer(s, d) => Newer(r \o s, d)
         /\ Sorted(r) /\ Sorted(s) /\ Before(r, s) => Sorted(r \o s)
<1>1. /\ r \o s \in Seq(Token) /\ Len(r) \in Nat /\ Len(s) \in Nat
      /\ Len(r \o s) = Len(r) + Len(s)
      /\ \A j \in 1..Len(r) + Len(s) :
           (r \o s)[j] = IF j <= Len(r) THEN r[j] ELSE s[j - Len(r)]
  BY ConcatProperties, LenProperties
<1>2. \A j \in Pieces(r \o s) :
        /\ j \in Nat
        /\ \/ j <= Len(r) /\ j \in Pieces(r) /\ (r \o s)[j] = r[j]
           \/ j > Len(r) /\ j - Len(r) \in Pieces(s) /\ (r \o s)[j] = s[j - Len(r)]
  BY <1>1 DEF Pieces
<1> DEFINE len == Len(r)
<1>0. /\ len \in Nat
      /\ \A j \in Pieces(r \o s) :
           /\ j \in Nat
           /\ j <= len => j \in Pieces(r) /\ (r \o s)[j] = r[j]
           /\ j > len => j - len \in Pieces(s) /\ (r \o s)[j] = s[j - len]
  BY <1>1 DEF Pieces
<1> HIDE DEF len
<1>3. Sorted(r) /\ Sorted(s) /\ Before(r, s) => Sorted(r \o s)
  <2> SUFFICES ASSUME Sorted(r), Sorted(s), Before(r, s),
                      NEW j \in Pieces(r \o s), NEW k \in Pieces(r \o s), j < k
               PROVE  Less((r \o s)[j], (r \o s)[k])
    BY DEF Sorted
  <2> DEFINE m == j - len
             n == k - len
  <2>0. j \in Nat /\ k \in Nat /\ len \in Nat
    BY <1>0
  <2>4. k <= len => j <= len
    BY <2>0
  <2>5. j > len => k > len
    BY <2>0
  <2>6. k <= len \/ j > len \/ (j <= len /\ k > len)
    BY <2>0
  <2>1. CASE k <= len
    <3>1. /\ j \in Pieces(r) /\ (r \o s)[j] = r[j]
          /\ k \in Pieces(r) /\ (r \o s)[k] = r[k]
      BY <1>0, <2>4, <2>1
    <3>2. Less(r[j], r[k])
      BY <3>1 DEF Sorted
    <3> QED BY <3>1, <3>2
  <2>2. CASE j > len
    <3>1. /\ m \in Pieces(s) /\ (r \o s)[j] = s[m]
          /\ n \in Pieces(s) /\ (r \o s)[k] = s[n]
      BY <1>0, <2>5, <2>2
    <3>2. m < n
      BY <1>0, <2>0
    <3>3. Less(s[m], s[n])
      BY <3>1, <3>2 DEF Sorted
    <3> QED BY <3>1, <3>3
  <2>3. CASE j <= len /\ k > len
    <3>1. /\ j \in Pieces(r) /\ (r \o s)[j] = r[j]
          /\ n \in Pieces(s) /\ (r \o s)[k] = s[n]
      BY <1>0, <2>0, <2>3
    <3>2. Less(r[j], s[n])
      BY <3>1 DEF Before
    <3> QED BY <3>1, <3>2
  <2> QED BY <2>6, <2>1, <2>2, <2>3
<1>4. \A w : Before(r, w) /\ Before(s, w) => Before(r \o s, w)
  BY <1>2 DEF Before
<1>5. \A w : Before(w, r) /\ Before(w, s) => Before(w, r \o s)
  BY <1>2 DEF Before
<1>6. \A q : Known(r, q) /\ Known(s, q) => Known(r \o s, q)
  BY <1>2 DEF Known
<1>7. \A d : Newer(r, d) /\ Newer(s, d) => Newer(r \o s, d)
  BY <1>2 DEF Newer
<1> QED BY <1>1, <1>3, <1>4, <1>5, <1>6, <1>7

-----------------------------------------------------------------------------
(* Hosts *)

LEMMA Encoded ==
  ASSUME NEW t \in Nat, NEW n \in Nat \ {0}
  PROVE  /\ encode(t, n) \in Seq(Token) /\ Len(encode(t, n)) = 3 * n
         /\ Sorted(encode(t, n))
         /\ \A j \in Pieces(encode(t, n)) : encode(t, n)[j].t = t /\ encode(t, n)[j].i \in 1..n
<1> DEFINE e == encode(t, n)
<1>1. \A k \in 1..3 * n : (k + 1) \div 3 \in Nat
  OBVIOUS
<1>2. \A k \in 1..3 * n : e[k] \in Token
  BY <1>1, Marks DEF encode, MARKER_START, MARKER_CONT, Newline
<1>3. 3 * n \in Nat /\ e = [k \in 1..3 * n |-> e[k]]
  BY DEF encode
<1>4. e \in Seq(Token) /\ Len(e) = 3 * n
  BY <1>2, <1>3, IsASeq
<1>5. \A k \in 1..3 * n :
        e[k].tag = "piece" => k % 3 = 2 /\ e[k].t = t /\ e[k].i = (k + 1) \div 3
  BY <1>1, Marks DEF encode, MARKER_START, MARKER_CONT, Newline
<1>6. \A k \in Pieces(e) : k \in 1..3 * n /\ k % 3 = 2 /\ e[k].t = t /\ e[k].i = (k + 1) \div 3
  BY <1>4, <1>5 DEF Pieces
<1>7. \A k \in 1..3 * n : k % 3 = 2 => (k + 1) \div 3 \in 1..n
  OBVIOUS
<1>8. \A j, k \in 1..3 * n : j < k /\ j % 3 = 2 /\ k % 3 = 2 => (j + 1) \div 3 < (k + 1) \div 3
  OBVIOUS
<1>9. Sorted(e)
  <2> SUFFICES ASSUME NEW j \in Pieces(e), NEW k \in Pieces(e), j < k PROVE Less(e[j], e[k])
    BY DEF Sorted
  <2>1. (j + 1) \div 3 < (k + 1) \div 3
    BY <1>6, <1>8
  <2> HIDE DEF e
  <2> QED BY <1>6, <2>1 DEF Less
<1> HIDE DEF e
<1>10. \A j \in Pieces(e) : e[j].t = t /\ e[j].i \in 1..n
  BY <1>6, <1>7
<1> USE DEF e
<1> QED BY <1>4, <1>9, <1>10

LEMMA PrefixKeeps ==
  ASSUME NEW s \in Seq(Token), NEW m \in 0..Len(s), Sorted(s)
  PROVE  /\ SubSeq(s, 1, m) \in Seq(Token) /\ Sorted(SubSeq(s, 1, m))
         /\ \A j \in Pieces(SubSeq(s, 1, m)) : j \in Pieces(s) /\ SubSeq(s, 1, m)[j] = s[j]
<1> DEFINE p == SubSeq(s, 1, m)
<1>1. Len(s) \in Nat /\ \A i \in 1..m : s[i] \in Token
  BY LenProperties, ElementOfSeq
<1>2. p \in Seq(Token) /\ Len(p) = m /\ \A i \in 1..m : p[i] = s[i]
  BY <1>1, SubSeqProperties
<1> HIDE DEF p
<1>3. \A j \in Pieces(p) : j \in Pieces(s) /\ p[j] = s[j]
  BY <1>1, <1>2 DEF Pieces
<1>4. Sorted(p)
  BY <1>3 DEF Sorted
<1> USE DEF p
<1> QED BY <1>2, <1>3, <1>4

\* What a host writes belongs to a packet behind all others.
LEMMA WriteKeeps ==
  ASSUME Inv, NEW p \in Packets, NEW m \in 0..3 * p.lines,
         sent' = Append(sent, p),
         wire' = wire \o SubSeq(encode(Len(sent'), p.lines), 1, m),
         UNCHANGED <<line, acc, in_packet, delivered>>
  PROVE  /\ OrderInv' /\ DeliveredOnceInOrder'
         /\ wire' \in Seq(Token) /\ sent' \in Seq(Packets) /\ delivered' \in Seq(1..Len(sent'))
         /\ Len(sent') = Len(sent) + 1 /\ Len(sent) \in Nat
<1> DEFINE t == Len(sent')
           s == SubSeq(encode(t, p.lines), 1, m)
<1>1. p.lines \in Nat \ {0}
  BY ConsoleAssumption
<1>2. /\ sent \in Seq(Packets) /\ wire \in Seq(Token) /\ line \in Seq(Token) /\ acc \in Seq(Token)
      /\ delivered \in Seq(1..Len(sent)) /\ OrderInv /\ DeliveredOnceInOrder
  BY DEF Inv, TypeOK
<1>3. /\ sent' \in Seq(Packets) /\ Len(sent) \in Nat /\ t = Len(sent) + 1 /\ t \in Nat
      /\ \A i \in 1..Len(sent) : sent'[i] = sent[i]
      /\ sent'[t] = p
  BY <1>2, AppendProperties, LenProperties
<1>4. /\ s \in Seq(Token) /\ Sorted(s)
      /\ \A j \in Pieces(s) : s[j].t = t /\ s[j].i \in 1..p.lines
  <2> DEFINE e == encode(t, p.lines)
  <2>1. /\ e \in Seq(Token) /\ Len(e) = 3 * p.lines /\ Sorted(e)
        /\ \A j \in Pieces(e) : e[j].t = t /\ e[j].i \in 1..p.lines
    BY <1>1, <1>3, Encoded
  <2> HIDE DEF e
  <2>2. m \in 0..Len(e)
    BY <2>1
  <2>3. /\ SubSeq(e, 1, m) \in Seq(Token) /\ Sorted(SubSeq(e, 1, m))
        /\ \A j \in Pieces(SubSeq(e, 1, m)) : j \in Pieces(e) /\ SubSeq(e, 1, m)[j] = e[j]
    BY <2>1, <2>2, PrefixKeeps
  <2>4. s = SubSeq(e, 1, m)
    BY DEF e
  <2> QED BY <2>1, <2>3, <2>4
<1>5. wire' = wire \o s /\ Len(sent') = t
  OBVIOUS
<1> HIDE DEF s, t
<1>6. \A q \in Seq(Token) : Known(q, sent) => Known(q, sent') /\ Before(q, s)
  <2> SUFFICES ASSUME NEW q \in Seq(Token), Known(q, sent)
               PROVE  Known(q, sent') /\ Before(q, s)
    OBVIOUS
  <2>1. \A j \in Pieces(q) : q[j].t \in 1..Len(sent) /\ q[j].i \in 1..sent[q[j].t].lines
    BY DEF Known
  <2>2. \A j \in Pieces(q) : q[j].t \in 1..Len(sent') /\ q[j].t < t /\ sent'[q[j].t] = sent[q[j].t]
    BY <1>3, <1>5, <2>1
  <2> QED BY <1>4, <2>1, <2>2 DEF Known, Before, Less
<1>7. Known(s, sent')
  BY <1>3, <1>4, <1>5 DEF Known
<1>8. \A k \in 1..Len(delivered) : delivered[k] \in 1..Len(sent)
  BY <1>2, ElementOfSeq
<1>9. Newer(s, delivered)
  BY <1>3, <1>4, <1>8 DEF Newer
<1>10. wire' \in Seq(Token) /\ Sorted(wire') /\ Known(wire', sent') /\ Newer(wire', delivered)
  <2>1. Sorted(wire) /\ Known(wire, sent) /\ Newer(wire, delivered)
    BY <1>2 DEF OrderInv
  <2>2. Known(wire, sent') /\ Before(wire, s)
    BY <1>2, <1>6, <2>1
  <2> QED BY <1>2, <1>4, <1>5, <1>7, <1>9, <2>1, <2>2, ConcatKeeps
<1>11. Before(line, wire') /\ Before(acc, wire')
  <2>1. Before(line, wire) /\ Before(acc, wire) /\ Known(line, sent) /\ Known(acc, sent)
    BY <1>2 DEF OrderInv
  <2>2. Before(line, s) /\ Before(acc, s)
    BY <1>2, <1>6, <2>1
  <2>3. \A q : Before(q, wire) /\ Before(q, s) => Before(q, wire \o s)
    BY <1>2, <1>4, ConcatKeeps
  <2> QED BY <1>5, <2>1, <2>2, <2>3
<1>12. Known(line, sent') /\ Known(acc, sent')
  BY <1>2, <1>6 DEF OrderInv
<1>13. OrderInv'
  BY <1>2, <1>10, <1>11, <1>12 DEF OrderInv
<1>14. delivered' \in Seq(1..Len(sent'))
  <2>1. 1..Len(sent) \subseteq 1..Len(sent')
    BY <1>3, <1>5
  <2> QED BY <1>2, <2>1, SeqMonotonic
<1> QED BY <1>2, <1>3, <1>5, <1>10, <1>13, <1>14 DEF DeliveredOnceInOrder

-----------------------------------------------------------------------------
(* The board *)

\* A packet made of newer pieces is newer, and what is on its way newer still.
LEMMA AssembledKeeps ==
  ASSUME Inv, NEW text \in Seq(Token), NEW w \in Seq(Token),
         Known(text, sent), Newer(text, delivered), Before(text, w),
         Known(w, sent), Newer(w, delivered), Assembled(text), sent' = sent
  PROVE  /\ Newer(w, delivered') /\ (in_packet' => Newer(text, delivered'))
         /\ DeliveredOnceInOrder' /\ delivered' \in Seq(1..Len(sent)) /\ in_packet' \in BOOLEAN
<1>1. sent \in Seq(Packets) /\ delivered \in Seq(1..Len(sent)) /\ DeliveredOnceInOrder
  BY DEF Inv, TypeOK
<1>2. CASE delivered' = delivered /\ in_packet' \in BOOLEAN
  BY <1>1, <1>2 DEF DeliveredOnceInOrder
<1>3. ASSUME NEW t \in 1..Len(sent), Whole(text, t), delivered' = Append(delivered, t),
             in_packet' = FALSE
      PROVE  /\ Newer(w, delivered')
             /\ DeliveredOnceInOrder' /\ delivered' \in Seq(1..Len(sent))
  <2> DEFINE n == sent[t].lines
  <2>1. Len(sent) \in Nat /\ t \in Nat /\ n \in Nat \ {0}
    BY <1>1, ConsoleAssumption, LenProperties, ElementOfSeq
  <2>2. 1 \in 1..n /\ n \in 1..n /\ Len(text) \in Nat /\ n <= Len(text)
    BY <1>3, <2>1, LenProperties DEF Whole
  <2>3. text[1] = Piece(t, 1) /\ text[n] = Piece(t, n)
    BY <1>3, <2>2 DEF Whole
  <2>4. 1 \in Pieces(text) /\ n \in Pieces(text) /\ text[1].t = t /\ text[n].t = t /\ text[n].i = n
    BY <2>1, <2>2, <2>3, Marks DEF Pieces
  <2> HIDE DEF n
  <2>5. \A k \in 1..Len(delivered) : delivered[k] < t
    BY <2>4 DEF Newer
  <2>6. /\ delivered' \in Seq(1..Len(sent)) /\ Len(delivered) \in Nat
        /\ Len(delivered') = Len(delivered) + 1
        /\ \A k \in 1..Len(delivered) : delivered'[k] = delivered[k]
        /\ delivered'[Len(delivered) + 1] = t
    BY <1>1, <1>3, AppendProperties, LenProperties
  <2>7. \A k \in 1..Len(delivered') : k \in 1..Len(delivered) \/ k = Len(delivered) + 1
    BY <2>6
  <2>8. DeliveredOnceInOrder'
    <3> SUFFICES ASSUME NEW j \in 1..Len(delivered'), NEW k \in 1..Len(delivered'), j < k
                 PROVE  delivered'[j] < delivered'[k]
      BY DEF DeliveredOnceInOrder
    <3>1. j \in 1..Len(delivered)
      BY <2>6, <2>7
    <3> QED BY <1>1, <2>5, <2>6, <2>7, <3>1 DEF DeliveredOnceInOrder
  <2>9. \A j \in Pieces(w) : t < w[j].t
    <3> SUFFICES ASSUME NEW j \in Pieces(w) PROVE t < w[j].t
      OBVIOUS
    <3>1. w[j].t \in 1..Len(sent) /\ w[j].i \in 1..sent[w[j].t].lines
      BY DEF Known
    <3>2. t < w[j].t \/ (t = w[j].t /\ n < w[j].i)
      BY <2>4 DEF Before, Less
    <3>3. ~(t = w[j].t /\ n < w[j].i)
      BY <2>1, <3>1 DEF n
    <3> QED BY <3>2, <3>3
  <2>10. Newer(w, delivered')
    BY <2>6, <2>7, <2>9 DEF Newer
  <2> QED BY <2>6, <2>8, <2>10
<1>4. \/ delivered' = delivered /\ in_packet' \in BOOLEAN
      \/ \E t \in 1..Len(sent) :
           Whole(text, t) /\ delivered' = Append(delivered, t) /\ in_packet' = FALSE
  BY DEF Assembled
<1> QED BY <1>2, <1>3, <1>4

\* Taking a token: the head of the wire, or one that is no piece.
LEMMA TakeKeeps ==
  ASSUME Inv, wire # <<>>, NEW token \in Token,
         token = Head(wire) \/ token.tag # "piece",
         wire' = Tail(wire), Take(token), sent' = sent
  PROVE  /\ OrderInv' /\ DeliveredOnceInOrder'
         /\ wire' \in Seq(Token) /\ line' \in Seq(Token) /\ acc' \in Seq(Token)
         /\ in_packet' \in BOOLEAN /\ delivered' \in Seq(1..Len(sent)) /\ read' \in Seq(Token)
<1>1. /\ wire \in Seq(Token) /\ line \in Seq(Token) /\ acc \in Seq(Token) /\ read \in Seq(Token)
      /\ in_packet \in BOOLEAN /\ delivered \in Seq(1..Len(sent))
      /\ OrderInv /\ DeliveredOnceInOrder
  BY DEF Inv, TypeOK
<1>2. /\ wire' \in Seq(Token) /\ Sorted(wire') /\ Before(line, wire') /\ Before(acc, wire')
      /\ Known(wire', sent) /\ Newer(wire', delivered)
  BY <1>1, TailKeeps DEF OrderInv
<1>3. read' \in Seq(Token)
  BY <1>1, AppendProperties DEF Take
<1>4. CASE token # Newline
  <2>1. line' = Append(line, token) /\ UNCHANGED <<acc, in_packet, delivered>>
    BY <1>4 DEF Take
  <2>2. /\ line' \in Seq(Token) /\ Len(line) \in Nat /\ Len(line') = Len(line) + 1
        /\ \A j \in 1..Len(line) : line'[j] = line[j]
        /\ line'[Len(line) + 1] = token
    BY <1>1, <2>1, AppendProperties, LenProperties
  <2>3. \A j \in Pieces(line') :
          \/ j \in Pieces(line) /\ line'[j] = line[j]
          \/ token.tag = "piece" /\ line'[j] = token
    BY <2>2 DEF Pieces
  <2>4. token.tag = "piece" =>
          /\ \A k \in Pieces(wire') : Less(token, wire'[k])
          /\ token.t \in 1..Len(sent) /\ token.i \in 1..sent[token.t].lines
          /\ \A k \in 1..Len(delivered) : delivered[k] < token.t
    <3> SUFFICES ASSUME token.tag = "piece", token = Head(wire)
                 PROVE  /\ \A k \in Pieces(wire') : Less(token, wire'[k])
                        /\ token.t \in 1..Len(sent) /\ token.i \in 1..sent[token.t].lines
                        /\ \A k \in 1..Len(delivered) : delivered[k] < token.t
      OBVIOUS
    <3>1. 1 \in Pieces(wire) /\ wire[1] = token /\ \A k \in Pieces(wire') : Less(token, wire'[k])
      BY <1>1, HeadIsFirst DEF OrderInv
    <3>2. Known(wire, sent) /\ Newer(wire, delivered)
      BY <1>1 DEF OrderInv
    <3> QED BY <3>1, <3>2 DEF Known, Newer
  <2>5. Before(line', wire')
    BY <1>2, <2>3, <2>4 DEF Before
  <2>6. Known(line', sent) /\ Newer(line', delivered)
    BY <1>1, <2>3, <2>4 DEF OrderInv, Known, Newer
  <2>7. OrderInv'
    BY <1>1, <1>2, <2>1, <2>5, <2>6 DEF OrderInv
  <2> QED BY <1>1, <1>2, <1>3, <2>1, <2>2, <2>7 DEF DeliveredOnceInOrder
<1>5. CASE token = Newline
  <2>1. line' = <<>> /\ push_line(line)
    BY <1>5 DEF Take
  <2>2. SUFFICES /\ acc' \in Seq(Token) /\ in_packet' \in BOOLEAN
                 /\ Before(acc', wire') /\ Known(acc', sent)
                 /\ Newer(wire', delivered') /\ (in_packet' => Newer(acc', delivered'))
                 /\ DeliveredOnceInOrder' /\ delivered' \in Seq(1..Len(sent))
    BY <1>2, <1>3, <2>1, <2>2, Empty DEF OrderInv
  <2>3. CASE UNCHANGED <<acc, in_packet, delivered>>
    BY <1>1, <1>2, <2>3 DEF OrderInv, DeliveredOnceInOrder
  <2> DEFINE text == Tail(line)
  <2>4. line # <<>> => /\ text \in Seq(Token) /\ Known(text, sent) /\ Newer(text, delivered)
                       /\ Before(text, wire')
    BY <1>1, <1>2, TailKeeps DEF OrderInv
  <2> HIDE DEF text
  <2>5. CASE line # <<>> /\ acc' = text /\ Assembled(acc')
    BY <1>2, <2>4, <2>5, AssembledKeeps
  <2>6. CASE line # <<>> /\ in_packet /\ acc' = acc \o text /\ Assembled(acc')
    <3>1. /\ acc' \in Seq(Token) /\ Known(acc', sent) /\ Newer(acc', delivered)
          /\ Before(acc', wire')
      BY <1>1, <1>2, <2>4, <2>6, ConcatKeeps DEF OrderInv
    <3> QED BY <1>2, <2>6, <3>1, AssembledKeeps
  <2>7. \/ line # <<>> /\ acc' = text /\ Assembled(acc')
        \/ line # <<>> /\ in_packet /\ acc' = acc \o text /\ Assembled(acc')
        \/ UNCHANGED <<acc, in_packet, delivered>>
    BY <2>1 DEF push_line, text
  <2> QED BY <2>3, <2>5, <2>6, <2>7
<1> QED BY <1>4, <1>5

-----------------------------------------------------------------------------

LEMMA InitInv == Init => Inv
<1> SUFFICES ASSUME Init PROVE Inv
  OBVIOUS
<1>1. /\ <<>> \in Seq(Packets) /\ <<>> \in Seq(Token) /\ Len(<<>>) = 0
      /\ <<>> \in Seq(1..Len(sent)) /\ 0 \in 0..MaxFaults
  BY ConsoleAssumption
<1>2. TypeOK
  BY <1>1 DEF Init, TypeOK
<1>3. OrderInv /\ DeliveredOnceInOrder
  BY <1>1, Empty DEF Init, OrderInv, DeliveredOnceInOrder
<1> QED BY <1>2, <1>3 DEF Inv

\* A host writes a packet, or the beginning of one.
LEMMA Written ==
  ASSUME Inv, NEW p \in Packets, Write(p) \/ \E n \in 0..3 * p.lines - 1 : Killed(p, n)
  PROVE  \E m \in 0..3 * p.lines :
           /\ sent' = Append(sent, p)
           /\ wire' = wire \o SubSeq(encode(Len(sent'), p.lines), 1, m)
           /\ (m = 3 * p.lines /\ faults' = faults) \/ faults' = faults + 1
<1>0. p.lines \in Nat \ {0}
  BY ConsoleAssumption
<1>1. CASE Write(p)
  <2>1. sent' \in Seq(Packets) /\ Len(sent') \in Nat
    BY <1>1, AppendProperties, LenProperties DEF Write, Inv, TypeOK
  <2>2. /\ encode(Len(sent'), p.lines) \in Seq(Token)
        /\ Len(encode(Len(sent'), p.lines)) = 3 * p.lines
    BY <1>0, <2>1, Encoded
  <2>3. SubSeq(encode(Len(sent'), p.lines), 1, 3 * p.lines) = encode(Len(sent'), p.lines)
    BY <2>2, SubSeqFull
  <2>4. /\ sent' = Append(sent, p) /\ wire' = wire \o encode(Len(sent'), p.lines)
        /\ faults' = faults
    BY <1>1 DEF Write
  <2>5. 3 * p.lines \in 0..3 * p.lines
    BY <1>0
  <2> QED BY <2>3, <2>4, <2>5
<1>2. CASE \E n \in 0..3 * p.lines - 1 : Killed(p, n)
  <2>1. PICK n \in 0..3 * p.lines - 1 : Killed(p, n)
    BY <1>2
  <2>2. n \in 0..3 * p.lines
    BY <1>0
  <2>3. /\ sent' = Append(sent, p) /\ faults' = faults + 1
        /\ wire' = wire \o SubSeq(encode(Len(sent'), p.lines), 1, n)
    BY <2>1 DEF Killed
  <2> QED BY <2>2, <2>3
<1> QED BY <1>1, <1>2

LEMMA HostStep ==
  ASSUME Inv, NEW p \in Packets, Write(p) \/ \E n \in 0..3 * p.lines - 1 : Killed(p, n)
  PROVE  Inv'
<1>1. p.lines \in Nat \ {0}
  BY ConsoleAssumption
<1>2. PICK m \in 0..3 * p.lines :
        /\ sent' = Append(sent, p)
        /\ wire' = wire \o SubSeq(encode(Len(sent'), p.lines), 1, m)
  BY Written
<1>3. UNCHANGED <<line, acc, in_packet, delivered, read, firsts>>
  BY DEF Write, Killed, boardVars
<1>4. /\ OrderInv' /\ DeliveredOnceInOrder'
      /\ wire' \in Seq(Token) /\ sent' \in Seq(Packets) /\ delivered' \in Seq(1..Len(sent'))
      /\ Len(sent') = Len(sent) + 1 /\ Len(sent) \in Nat
  BY <1>2, <1>3, WriteKeeps
<1>5. faults' \in 0..MaxFaults /\ polled' \in BOOLEAN /\ host' \in {"up", "gone"}
  <2>1. /\ faults \in 0..MaxFaults /\ MaxFaults \in Nat /\ polled \in BOOLEAN
        /\ host \in {"up", "gone"}
    BY ConsoleAssumption DEF Inv, TypeOK
  <2>2. CASE Write(p)
    BY <2>1, <2>2 DEF Write
  <2>3. CASE \E n \in 0..3 * p.lines - 1 : Killed(p, n)
    <3>1. faults < MaxFaults /\ faults' = faults + 1 /\ polled' = FALSE /\ host' = "gone"
      BY <2>3 DEF Killed
    <3>2. faults + 1 \in 0..MaxFaults
      BY <2>1, <3>1
    <3> QED BY <3>1, <3>2
  <2> QED BY <2>2, <2>3
<1>6. firsts' \subseteq 1..Len(sent') + 1
  BY <1>3, <1>4 DEF Inv, TypeOK
<1>7. TypeOK'
  BY <1>3, <1>4, <1>5, <1>6 DEF Inv, TypeOK
<1> QED BY <1>4, <1>7 DEF Inv

LEMMA TokenStep == ASSUME Inv, Read \/ Garble PROVE Inv'
<1>1. wire # <<>> /\ wire \in Seq(Token)
  BY DEF Read, Garble, Inv, TypeOK
<1>2. Head(wire) \in Token
  BY <1>1, HeadTailProperties
<1>3. PICK token \in Token : /\ token = Head(wire) \/ token.tag # "piece"
                             /\ Take(token)
  <2>1. CASE Read
    BY <1>2, <2>1 DEF Read
  <2>2. CASE Garble
    <3>1. PICK tag \in {"x", "wrong"} : Take(Mark(tag))
      BY <2>2 DEF Garble
    <3> QED BY <3>1, Marks
  <2> QED BY <2>1, <2>2
<1>4. wire' = Tail(wire) /\ UNCHANGED <<sent, host, polled, firsts>>
  BY DEF Read, Garble
<1>5. /\ OrderInv' /\ DeliveredOnceInOrder'
      /\ wire' \in Seq(Token) /\ line' \in Seq(Token) /\ acc' \in Seq(Token)
      /\ in_packet' \in BOOLEAN /\ delivered' \in Seq(1..Len(sent)) /\ read' \in Seq(Token)
  BY <1>1, <1>3, <1>4, TakeKeeps
<1>6. faults' \in 0..MaxFaults
  BY ConsoleAssumption DEF Read, Garble, Inv, TypeOK
<1> QED BY <1>4, <1>5, <1>6 DEF Inv, TypeOK

LEMMA OtherStep == ASSUME Inv, Open \/ Lose \/ Poll PROVE Inv'
<1>1. CASE Open
  <2>1. Len(sent) \in Nat
    BY LenProperties DEF Inv, TypeOK
  <2>2. firsts' \subseteq 1..Len(sent) + 1
    <3>1. firsts' \in {firsts, firsts \cup {Len(sent) + 1}}
      BY <1>1 DEF Open
    <3>2. firsts \subseteq 1..Len(sent) + 1 /\ Len(sent) + 1 \in 1..Len(sent) + 1
      BY <2>1 DEF Inv, TypeOK
    <3> QED BY <3>1, <3>2
  <2> QED BY <1>1, <2>2 DEF Open, Inv, TypeOK, OrderInv, DeliveredOnceInOrder, boardVars
<1>2. CASE Lose
  <2>1. /\ wire' \in Seq(Token) /\ Sorted(wire') /\ Before(line, wire') /\ Before(acc, wire')
        /\ Known(wire', sent) /\ Newer(wire', delivered)
    BY <1>2, TailKeeps DEF Lose, Inv, TypeOK, OrderInv
  <2>2. faults' \in 0..MaxFaults
    BY <1>2, ConsoleAssumption DEF Lose, Inv, TypeOK
  <2> QED
    BY <1>2, <2>1, <2>2 DEF Lose, Inv, TypeOK, OrderInv, DeliveredOnceInOrder, boardVars
<1>3. CASE Poll
  <2>1. read' \in Seq(Token)
    <3>1. read \in Seq(Token) /\ Eof \in Token
      BY Marks DEF Eof, Inv, TypeOK
    <3>2. read' \in {read, Append(read, Eof)}
      BY <1>3 DEF Poll
    <3> QED BY <3>1, <3>2, AppendProperties
  <2>2. \/ line' = <<>> /\ acc' = <<>> /\ in_packet' = FALSE
        \/ UNCHANGED <<line, acc, in_packet>>
    BY <1>3 DEF Poll, boardVars
  <2>3. UNCHANGED <<sent, wire, host, delivered, firsts, faults>> /\ polled' = TRUE
    BY <1>3 DEF Poll
  <2>4. TypeOK'
    BY <2>1, <2>2, <2>3, Empty DEF Inv, TypeOK
  <2>5. OrderInv' /\ DeliveredOnceInOrder'
    BY <2>2, <2>3, Empty DEF Inv, OrderInv, DeliveredOnceInOrder
  <2> QED BY <2>4, <2>5 DEF Inv
<1> QED BY <1>1, <1>2, <1>3

LEMMA Step == ASSUME Inv, [Next]_vars PROVE Inv'
<1>1. CASE UNCHANGED vars
  BY <1>1 DEF Inv, vars, boardVars, TypeOK, OrderInv, DeliveredOnceInOrder
<1>2. CASE Next
  BY <1>2, HostStep, TokenStep, OtherStep DEF Next
<1> QED BY <1>1, <1>2

(* The framing is type-correct (Decoder, Server::serve).                   *)
THEOREM ConsoleTypeOK == Spec => []TypeOK
<1>1. Inv => TypeOK
  BY DEF Inv
<1> QED BY <1>1, InitInv, Step, PTL DEF Spec

(* Whatever is lost or damaged and whichever hosts die in the middle of a  *)
(* packet, none is acted on twice or out of turn (Decoder::push_line).     *)
THEOREM OnceInOrderTheorem == Spec => []DeliveredOnceInOrder
<1>1. Inv => DeliveredOnceInOrder
  BY DEF Inv
<1> QED BY <1>1, InitInv, Step, PTL DEF Spec

-----------------------------------------------------------------------------
(* What arrives unchanged, on a line of its own *)

\* The k-th token of packet t.
Tok(t, k) ==
  CASE k % 3 = 1 -> IF k = 1 THEN MARKER_START ELSE MARKER_CONT
    [] k % 3 = 2 -> Piece(t, (k + 1) \div 3)
    [] OTHER -> Newline

Marker(q) == IF q = 0 THEN MARKER_START ELSE MARKER_CONT

LEMMA Toks ==
  ASSUME NEW t, NEW q \in Nat
  PROVE  /\ Tok(t, 3 * q + 1) = Marker(q) /\ Tok(t, 3 * q + 2) = Piece(t, q + 1)
         /\ Tok(t, 3 * q + 3) = Newline
<1>1. /\ (3 * q + 1) % 3 = 1 /\ (3 * q + 1 = 1 <=> q = 0)
      /\ (3 * q + 2) % 3 = 2 /\ (3 * q + 2 + 1) \div 3 = q + 1 /\ (3 * q + 3) % 3 = 0
  OBVIOUS
<1> QED BY <1>1 DEF Tok, Marker

LEMMA EncodeToks ==
  ASSUME NEW t, NEW n \in Nat
  PROVE  \A k \in 1..3 * n : encode(t, n)[k] = Tok(t, k)
BY DEF encode, Tok

\* A line of the buffer begins with the a-th token read, and m of packet t's follow.
Fresh(r, a) == a = 1 \/ r[a - 1] \in {Newline, Eof}
Starts(r, a, t, m) == \A j \in 1..m : r[a + (j - 1)] = Tok(t, j)

\* They are the last ones read.
Ends(r, a, t, m) == a + m = Len(r) + 1 /\ Fresh(r, a) /\ Starts(r, a, t, m)

\* A packet that exists, or at most its first piece.
Possible(t, m) == m < 3 \/ (t \in 1..Len(sent) /\ m < 3 * sent[t].lines)

\* After q lines of packet t and r tokens of another.
LineHeld(t, q, r) ==
  /\ r = 0 => line = <<>>
  /\ r = 1 => line = <<Marker(q)>>
  /\ r = 2 => line = <<Marker(q), Piece(t, q + 1)>>
Gathered(s, t, q) == Len(s) = q /\ \A i \in 1..q : s[i] = Piece(t, i)
Held(t, q, r) == LineHeld(t, q, r) /\ (q > 0 => in_packet /\ Gathered(acc, t, q))

(* While a packet that began on a line of its own arrives unchanged, serve *)
(* and Decoder hold what has arrived of it, whatever they held before.     *)
HeldInv ==
  \A a, t \in Nat \ {0}, q \in Nat, r \in 0..2 :
    Ends(read, a, t, 3 * q + r) /\ Possible(t, 3 * q + r) => Held(t, q, r)

Got(t) == \E k \in 1..Len(delivered) : delivered[k] = t

\* CleanIsDelivered, token by token.
AllGot ==
  \A a \in Nat \ {0}, t \in 1..Len(sent) :
    /\ a + 3 * sent[t].lines <= Len(read) + 1
    /\ Fresh(read, a) /\ Starts(read, a, t, 3 * sent[t].lines)
    => Got(t)

\* Only what a host writes is on the wire, and only its packets have been read.
StreamInv ==
  /\ \A j \in 1..Len(wire) : wire[j].tag \in {"start", "cont", "newline", "piece"}
  /\ Known(read, sent)

CleanInv == StreamInv /\ HeldInv /\ AllGot

LEMMA Markers ==
  /\ Newline \in Token /\ Eof \in Token /\ Newline.tag = "newline" /\ Eof.tag = "eof"
  /\ MARKER_START.tag = "start" /\ MARKER_CONT.tag = "cont"
  /\ MARKER_START \in Token /\ MARKER_CONT \in Token
  /\ \A q \in Nat : Marker(q) \in Token /\ Marker(q) # Newline /\ Marker(q) # Eof
BY Marks DEF Newline, Eof, MARKER_START, MARKER_CONT, Marker

LEMMA PieceSame ==
  ASSUME NEW t, NEW i, NEW u, NEW j, Piece(t, i) = Piece(u, j)
  PROVE  t = u /\ i = j
<1>1. Piece(t, i).t = t /\ Piece(t, i).i = i /\ Piece(u, j).t = u /\ Piece(u, j).i = j
  BY DEF Piece
<1> QED BY <1>1

\* A packet is delivered with its last line, and no other packet is.
LEMMA LastLine ==
  ASSUME Inv, NEW t \in 1..Len(sent), NEW text \in Seq(Token), Gathered(text, t, sent[t].lines),
         Assembled(text)
  PROVE  delivered' = Append(delivered, t)
<1> DEFINE n == sent[t].lines
<1>1. /\ sent \in Seq(Packets) /\ n \in Nat \ {0} /\ Len(sent) \in Nat
      /\ \A u \in 1..Len(sent) : sent[u].lines \in Nat \ {0}
  <2>1. sent \in Seq(Packets)
    BY DEF Inv, TypeOK
  <2>2. \A u \in 1..Len(sent) : sent[u] \in Packets
    BY <2>1, ElementOfSeq
  <2> QED BY <2>1, <2>2, ConsoleAssumption, LenProperties
<1> HIDE DEF n
<1>2. Len(text) = n /\ \A i \in 1..n : text[i] = Piece(t, i)
  BY DEF Gathered, n
<1>3. 1 \in 1..n /\ t \in Nat
  BY <1>1
<1>4. ~Undecodable(text)
  <2>1. \A i \in 1..n : text[i].tag = "piece" /\ text[i].t = t /\ text[i].i = i
    BY <1>2 DEF Piece
  <2>2. \A i \in 1..n : i < n => i # n
    BY <1>1
  <2> QED BY <1>2, <2>1, <2>2 DEF Undecodable, n
<1>5. \A u \in 1..Len(sent) : text[1] = Piece(u, 1) => u = t
  BY <1>2, <1>3, PieceSame
<1>6. \A u \in 1..Len(sent) : ~Begun(text, u)
  <2> SUFFICES ASSUME NEW u \in 1..Len(sent), Begun(text, u) PROVE FALSE
    OBVIOUS
  <2>1. u = t
    BY <1>2, <1>3, <1>5 DEF Begun
  <2>2. n < n
    BY <1>2, <2>1 DEF Begun, n
  <2> QED BY <1>1, <2>2
<1>7. Whole(text, t)
  BY <1>1, <1>2 DEF Whole, n
<1>8. \A u \in 1..Len(sent) : Whole(text, u) => u = t
  <2> SUFFICES ASSUME NEW u \in 1..Len(sent), Whole(text, u) PROVE u = t
    OBVIOUS
  <2>1. 1 \in 1..sent[u].lines
    BY <1>1
  <2> QED BY <1>5, <2>1 DEF Whole
<1> QED BY <1>4, <1>6, <1>7, <1>8 DEF Assembled

LEMMA PushHeld ==
  ASSUME Inv, NEW t \in 1..Len(sent), NEW p \in Nat, p + 1 <= sent[t].lines,
         Held(t, p, 2), push_line(line)
  PROVE  /\ p + 1 < sent[t].lines => in_packet' /\ Gathered(acc', t, p + 1) /\ delivered' = delivered
         /\ p + 1 = sent[t].lines => delivered' = Append(delivered, t)
<1>0. p > 0 => in_packet /\ Gathered(acc, t, p)
  BY DEF Held
<1>1. line # <<>> /\ Head(line) = Marker(p) /\ Tail(line) = <<Piece(t, p + 1)>>
  <2> DEFINE m == Marker(p)
             x == Piece(t, p + 1)
  <2>1. line = <<m, x>>
    BY DEF Held, LineHeld
  <2> HIDE DEF m, x
  <2>2. <<m, x>> # <<>> /\ Head(<<m, x>>) = m /\ Tail(<<m, x>>) = <<x>>
    OBVIOUS
  <2> QED BY <2>1, <2>2 DEF m, x
<1> DEFINE one == <<Piece(t, p + 1)>>
<1>2. one \in Seq(Token) /\ Len(one) = 1 /\ one[1] = Piece(t, p + 1)
  <2>1. t \in Nat /\ p + 1 \in Nat
    BY LenProperties DEF Inv, TypeOK
  <2> DEFINE x == Piece(t, p + 1)
  <2>2. x \in Token
    BY <2>1, Marks
  <2> HIDE DEF x
  <2>3. <<x>> \in Seq(Token) /\ Len(<<x>>) = 1 /\ <<x>>[1] = x
    BY <2>2
  <2> QED BY <2>3 DEF x
<1>3. Marker(p) = MARKER_START <=> p = 0
  BY Markers DEF Marker
<1>4. Marker(p) \in {MARKER_START, MARKER_CONT} /\ MARKER_START # MARKER_CONT
  BY Markers DEF Marker
<1> HIDE DEF one
<1>5. acc' = (IF p = 0 THEN one ELSE acc \o one) /\ Assembled(acc')
  <2>1. CASE p = 0
    <3>1. Head(line) = MARKER_START /\ Tail(line) = one
      BY <1>1, <1>3, <2>1 DEF one
    <3>2. acc' = Tail(line) /\ Assembled(acc')
      BY <1>1, <1>4, <3>1 DEF push_line
    <3>3. acc' = one
      BY <3>1, <3>2
    <3>4. Assembled(acc')
      BY <3>2
    <3> QED BY <2>1, <3>3, <3>4
  <2>2. CASE p # 0
    <3>1. Head(line) = MARKER_CONT /\ Head(line) # MARKER_START /\ in_packet
      BY <1>0, <1>1, <1>3, <1>4, <2>2
    <3>2. Tail(line) = one
      BY <1>1 DEF one
    <3>3. acc' = acc \o Tail(line) /\ Assembled(acc')
      BY <1>1, <3>1 DEF push_line
    <3>4. acc' = acc \o one
      BY <3>2, <3>3
    <3>5. Assembled(acc')
      BY <3>3
    <3> QED BY <2>2, <3>4, <3>5
  <2> QED BY <2>1, <2>2
<1>6. acc \in Seq(Token)
  BY DEF Inv, TypeOK
<1>7. acc' \in Seq(Token) /\ Gathered(acc', t, p + 1)
  <2>1. CASE p = 0
    <3>1. acc' = one
      BY <1>5, <2>1
    <3>2. \A i \in 1..p + 1 : i = 1 /\ p + 1 = 1
      BY <2>1
    <3> QED BY <1>2, <2>1, <3>1, <3>2 DEF Gathered
  <2>2. CASE p # 0
    <3>1. Len(acc) = p /\ \A i \in 1..p : acc[i] = Piece(t, i)
      BY <1>0, <2>2 DEF Gathered
    <3> DEFINE c == acc \o one
    <3>2. acc' = c
      BY <1>5, <2>2
    <3>6. /\ c \in Seq(Token) /\ Len(c) = Len(acc) + Len(one)
          /\ \A i \in 1..Len(acc) + Len(one) :
               c[i] = IF i <= Len(acc) THEN acc[i] ELSE one[i - Len(acc)]
      BY <1>2, <1>6, ConcatProperties
    <3> HIDE DEF c
    <3>3. /\ acc' \in Seq(Token) /\ Len(acc') = p + 1
          /\ \A i \in 1..p + 1 : acc'[i] = IF i <= p THEN acc[i] ELSE one[i - p]
      BY <1>2, <3>1, <3>2, <3>6
    <3>4. \A i \in 1..p + 1 : (i <= p /\ i \in 1..p) \/ (i = p + 1 /\ ~(i <= p) /\ i - p = 1)
      OBVIOUS
    <3>5. \A i \in 1..p + 1 : acc'[i] = Piece(t, i)
      BY <1>2, <3>1, <3>3, <3>4
    <3> QED BY <3>3, <3>5 DEF Gathered
  <2> QED BY <2>1, <2>2
<1>8. CASE p + 1 < sent[t].lines
  <2>1. Begun(acc', t)
    BY <1>7, <1>8 DEF Gathered, Begun
  <2>2. in_packet' /\ delivered' = delivered
    BY <1>5, <2>1 DEF Assembled
  <2>3. p + 1 # sent[t].lines
    BY <1>8
  <2> QED BY <1>7, <2>2, <2>3
<1>9. CASE p + 1 = sent[t].lines
  <2>1. delivered' = Append(delivered, t)
    BY <1>5, <1>7, <1>9, LastLine
  <2>2. ~(p + 1 < sent[t].lines)
    BY <1>9
  <2> QED BY <2>1, <2>2
<1>10. p + 1 < sent[t].lines \/ p + 1 = sent[t].lines
  <2>1. sent[t].lines \in Nat
    <3>1. sent[t] \in Packets
      BY ElementOfSeq DEF Inv, TypeOK
    <3> QED BY <3>1, ConsoleAssumption
  <2> QED BY <2>1
<1> QED BY <1>8, <1>9, <1>10

LEMMA DeliveredGrows ==
  ASSUME Inv, NEW t \in 1..Len(sent), delivered' = Append(delivered, t)
  PROVE  Got(t)' /\ \A u : Got(u) => Got(u)'
<1>1. delivered \in Seq(1..Len(sent))
  BY DEF Inv, TypeOK
<1>2. /\ Len(delivered) \in Nat /\ Len(delivered') = Len(delivered) + 1
      /\ \A k \in 1..Len(delivered) : delivered'[k] = delivered[k]
      /\ delivered'[Len(delivered) + 1] = t
  BY <1>1, AppendProperties, LenProperties
<1>3. Len(delivered) + 1 \in 1..Len(delivered') /\ 1..Len(delivered) \subseteq 1..Len(delivered')
  BY <1>2
<1>4. Got(t)'
  BY <1>2, <1>3 DEF Got
<1>5. \A u : Got(u) => Got(u)'
  <2> SUFFICES ASSUME NEW u, Got(u) PROVE Got(u)'
    OBVIOUS
  <2>1. PICK k \in 1..Len(delivered) : delivered[k] = u
    BY DEF Got
  <2>2. k \in 1..Len(delivered') /\ delivered'[k] = u
    BY <1>2, <1>3, <2>1
  <2> QED BY <2>2 DEF Got
<1> QED BY <1>4, <1>5

LEMMA TakeGrows ==
  ASSUME Inv, NEW token, Take(token)
  PROVE  \A u : Got(u) => Got(u)'
<1>1. CASE delivered' = delivered
  BY <1>1 DEF Got
<1>2. CASE \E t \in 1..Len(sent) : delivered' = Append(delivered, t)
  BY <1>2, DeliveredGrows
<1>3. \A text : Assembled(text) =>
        delivered' = delivered \/ \E t \in 1..Len(sent) : delivered' = Append(delivered, t)
  BY DEF Assembled
<1>4. Assembled(acc') \/ delivered' = delivered
  BY DEF Take, push_line
<1> QED BY <1>1, <1>2, <1>3, <1>4

LEMMA Lines ==
  ASSUME Inv
  PROVE  Len(sent) \in Nat /\ \A t \in 1..Len(sent) : sent[t].lines \in Nat \ {0} /\ t \in Nat \ {0}
<1>1. sent \in Seq(Packets)
  BY DEF Inv, TypeOK
<1>2. \A t \in 1..Len(sent) : sent[t] \in Packets
  BY <1>1, ElementOfSeq
<1> QED BY <1>1, <1>2, ConsoleAssumption, LenProperties

\* What ends with the token that is taken was one token shorter before.
LEMMA OneShorter ==
  ASSUME NEW s \in Seq(Token), NEW token \in Token, NEW a \in Nat \ {0}, NEW t,
         NEW m \in Nat, Ends(Append(s, token), a, t, m + 1)
  PROVE  Ends(s, a, t, m) /\ token = Tok(t, m + 1)
<1> DEFINE n == Len(s)
           ss == Append(s, token)
<1>1. /\ n \in Nat /\ Len(ss) = n + 1 /\ ss[n + 1] = token
      /\ \A j \in 1..n : ss[j] = s[j]
  BY AppendProperties, LenProperties
<1>2. a + (m + 1) = Len(ss) + 1 /\ Fresh(ss, a) /\ Starts(ss, a, t, m + 1)
  BY DEF Ends
<1> HIDE DEF n, ss
<1>3. a + m = n + 1
  BY <1>1, <1>2
<1>4. Fresh(s, a)
  <2>1. a = 1 \/ a - 1 \in 1..n
    BY <1>1, <1>3
  <2> QED BY <1>1, <1>2, <2>1 DEF Fresh
<1>5. \A j \in 1..m + 1 : ss[a + (j - 1)] = Tok(t, j)
  BY <1>2 DEF Starts
<1>6. \A j \in 1..m : j \in 1..m + 1 /\ a + (j - 1) \in 1..n
  BY <1>1, <1>3
<1>7. Starts(s, a, t, m)
  BY <1>1, <1>5, <1>6 DEF Starts
<1>8. m + 1 \in 1..m + 1 /\ a + ((m + 1) - 1) = n + 1
  BY <1>1, <1>3
<1>9. token = Tok(t, m + 1)
  BY <1>1, <1>5, <1>8
<1> QED BY <1>3, <1>4, <1>7, <1>9 DEF Ends, n

LEMMA Pair ==
  ASSUME NEW m, NEW x
  PROVE  Append(<<m>>, x) = <<m, x>>
<1>1. <<m>> \in Seq({m, x}) /\ <<m, x>> \in Seq({m, x}) /\ x \in {m, x}
  OBVIOUS
<1>2. /\ Append(<<m>>, x) \in Seq({m, x}) /\ Len(Append(<<m>>, x)) = Len(<<m>>) + 1
      /\ \A i \in 1..Len(<<m>>) : Append(<<m>>, x)[i] = <<m>>[i]
      /\ Append(<<m>>, x)[Len(<<m>>) + 1] = x
  BY <1>1, AppendProperties
<1>3. Len(<<m>>) = 1 /\ <<m>>[1] = m /\ Len(<<m, x>>) = 2 /\ <<m, x>>[1] = m /\ <<m, x>>[2] = x
  OBVIOUS
<1> DEFINE y == Append(<<m>>, x)
           z == <<m, x>>
<1>4. /\ y \in Seq({m, x}) /\ z \in Seq({m, x}) /\ Len(y) = 2 /\ Len(z) = 2
      /\ y[1] = z[1] /\ y[2] = z[2]
  BY <1>1, <1>2, <1>3
<1> HIDE DEF y, z
<1>5. \A i \in 1..Len(y) : y[i] = z[i]
  BY <1>4
<1>6. y = z
  BY <1>4, <1>5, SeqEqual
<1> QED BY <1>6 DEF y, z

LEMMA TakeHeld ==
  ASSUME Inv, HeldInv, NEW token \in Token, token # Eof, Take(token), sent' = sent
  PROVE  HeldInv'
<1> SUFFICES ASSUME NEW a \in Nat \ {0}, NEW t \in Nat \ {0}, NEW q \in Nat, NEW r \in 0..2,
                    Ends(read', a, t, 3 * q + r), Possible(t, 3 * q + r)
             PROVE  Held(t, q, r)'
  BY DEF HeldInv, Possible
<1>1. read \in Seq(Token) /\ read' = Append(read, token)
  BY DEF Inv, TypeOK, Take
<1>2. \A u \in 1..Len(sent) : sent[u].lines \in Nat \ {0}
  BY Lines
<1>3. ASSUME NEW p \in Nat, NEW o \in 0..2, 3 * q + r = 3 * p + o + 1
      PROVE  Held(t, p, o) /\ token = Tok(t, 3 * p + o + 1)
  <2> DEFINE m == 3 * p + o
  <2>1. m \in Nat /\ m + 1 = 3 * q + r
    BY <1>3
  <2> HIDE DEF m
  <2>2. Possible(t, m)
    <3>1. CASE m + 1 < 3
      BY <2>1, <3>1 DEF Possible
    <3>2. CASE t \in 1..Len(sent) /\ m + 1 < 3 * sent[t].lines
      <4> DEFINE n == sent[t].lines
      <4>1. n \in Nat /\ m + 1 < 3 * n
        BY <1>2, <3>2
      <4> HIDE DEF n
      <4>2. m < 3 * n
        BY <2>1, <4>1
      <4> QED BY <3>2, <4>2 DEF Possible, n
    <3> QED BY <2>1, <3>1, <3>2 DEF Possible
  <2>3. Ends(Append(read, token), a, t, m + 1)
    BY <1>1, <2>1
  <2>4. Ends(read, a, t, m) /\ token = Tok(t, m + 1)
    BY <1>1, <2>1, <2>3, OneShorter
  <2> USE DEF m
  <2> QED BY <2>2, <2>4 DEF HeldInv
<1>4. CASE r = 1
  <2>1. Held(t, q, 0) /\ token = Tok(t, 3 * q + 1)
    <3>1. 3 * q + r = 3 * q + 0 + 1 /\ 3 * q + 0 + 1 = 3 * q + 1 /\ 0 \in 0..2
      BY <1>4
    <3> QED BY <1>3, <3>1
  <2>2. token = Marker(q) /\ token # Newline
    BY <2>1, Toks, Markers
  <2>3. line = <<>> /\ line' = Append(line, token) /\ UNCHANGED <<acc, in_packet>>
    BY <2>1, <2>2 DEF Take, Held, LineHeld
  <2>4. line' = <<Marker(q)>>
    BY <2>2, <2>3
  <2> QED BY <1>4, <2>1, <2>3, <2>4 DEF Held, LineHeld
<1>5. CASE r = 2
  <2>1. Held(t, q, 1) /\ token = Tok(t, 3 * q + 2)
    <3>1. 3 * q + r = 3 * q + 1 + 1 /\ 3 * q + 1 + 1 = 3 * q + 2 /\ 1 \in 0..2
      BY <1>5
    <3> QED BY <1>3, <3>1
  <2>2. token = Piece(t, q + 1)
    BY <2>1, Toks
  <2>3. token # Newline
    BY <2>2, Markers DEF Piece
  <2>4. line = <<Marker(q)>> /\ line' = Append(line, token) /\ UNCHANGED <<acc, in_packet>>
    BY <2>1, <2>3 DEF Take, Held, LineHeld
  <2>5. line' = <<Marker(q), Piece(t, q + 1)>>
    <3> DEFINE m == Marker(q)
               x == Piece(t, q + 1)
    <3>1. line' = Append(<<m>>, x)
      BY <2>2, <2>4
    <3> HIDE DEF m, x
    <3>2. Append(<<m>>, x) = <<m, x>>
      BY Pair
    <3> QED BY <3>1, <3>2 DEF m, x
  <2>6. LineHeld(t, q, r)'
    <3>1. r # 0 /\ r # 1
      BY <1>5
    <3> QED BY <2>5, <3>1 DEF LineHeld
  <2>7. q > 0 => in_packet' /\ Gathered(acc', t, q)
    BY <2>1, <2>4 DEF Held
  <2> QED BY <2>6, <2>7 DEF Held
<1>6. CASE r = 0 /\ q > 0
  <2> DEFINE p == q - 1
  <2>1. p \in Nat /\ p + 1 = q /\ 3 * q + r = 3 * p + 2 + 1 /\ 3 * p + 2 + 1 = 3 * p + 3 /\ 2 \in 0..2
    BY <1>6
  <2> HIDE DEF p
  <2>2. Held(t, p, 2) /\ token = Tok(t, 3 * p + 3)
    BY <1>3, <2>1
  <2>3. token = Newline
    BY <2>1, <2>2, Toks
  <2>4. line' = <<>> /\ push_line(line)
    BY <2>3 DEF Take
  <2>5. t \in 1..Len(sent) /\ p + 1 < sent[t].lines
    <3>1. t \in 1..Len(sent) /\ 3 * q < 3 * sent[t].lines
      BY <1>6 DEF Possible
    <3> QED BY <1>2, <2>1, <3>1
  <2>6. p + 1 <= sent[t].lines
    BY <1>2, <2>1, <2>5
  <2>7. in_packet' /\ Gathered(acc', t, p + 1)
    BY <2>1, <2>2, <2>4, <2>5, <2>6, PushHeld
  <2> QED BY <1>6, <2>1, <2>4, <2>7 DEF Held, LineHeld
<1>7. CASE r = 0 /\ q = 0
  <2>1. a = Len(read) + 2
    <3>1. Len(read') = Len(read) + 1 /\ Len(read) \in Nat
      BY <1>1, AppendProperties, LenProperties
    <3> QED BY <1>7, <3>1 DEF Ends
  <2>2. token = Newline
    <3>1. Len(read) \in Nat /\ read'[Len(read) + 1] = token
      BY <1>1, AppendProperties, LenProperties
    <3>2. a # 1 /\ a - 1 = Len(read) + 1
      BY <2>1, <3>1
    <3> QED BY <1>1, <3>1, <3>2 DEF Ends, Fresh
  <2>3. line' = <<>>
    BY <2>2 DEF Take
  <2> QED BY <1>7, <2>3 DEF Held, LineHeld
<1> QED BY <1>4, <1>5, <1>6, <1>7

LEMMA TakeAll ==
  ASSUME Inv, HeldInv, AllGot, NEW token \in Token, Take(token), sent' = sent
  PROVE  AllGot'
<1> SUFFICES ASSUME NEW a \in Nat \ {0}, NEW t \in 1..Len(sent),
                    a + 3 * sent[t].lines <= Len(read') + 1, Fresh(read', a),
                    Starts(read', a, t, 3 * sent[t].lines)
             PROVE  Got(t)'
  BY DEF AllGot
<1> DEFINE n == sent[t].lines
           m == 3 * n
           k == Len(read)
<1>1. /\ read \in Seq(Token) /\ read' = Append(read, token) /\ k \in Nat
      /\ Len(read') = k + 1 /\ \A j \in 1..k : read'[j] = read[j]
  BY AppendProperties, LenProperties DEF Inv, TypeOK, Take
<1>2. n \in Nat \ {0} /\ t \in Nat \ {0}
  BY Lines
<1> HIDE DEF n, k
<1>3. m \in Nat /\ a + m <= k + 2
  BY <1>1, <1>2 DEF n
<1>4. CASE a + m <= k + 1
  <2>1. Fresh(read, a)
    <3>1. a = 1 \/ a - 1 \in 1..k
      BY <1>1, <1>3, <1>4
    <3> QED BY <1>1, <3>1 DEF Fresh
  <2>2. Starts(read, a, t, m)
    <3>1. \A j \in 1..m : a + (j - 1) \in 1..k
      BY <1>1, <1>3, <1>4
    <3>2. \A j \in 1..m : read'[a + (j - 1)] = Tok(t, j)
      BY DEF Starts, n
    <3> HIDE DEF m
    <3> QED BY <1>1, <3>1, <3>2 DEF Starts
  <2>3. Got(t)
    BY <1>4, <2>1, <2>2 DEF AllGot, n, k
  <2> QED BY <2>3, TakeGrows
<1>5. CASE a + m = k + 2
  <2> DEFINE p == n - 1
             o == 3 * p + 2
  <2>1. p \in Nat /\ p + 1 = n /\ o \in Nat /\ o + 1 = m /\ o + 1 = 3 * p + 3 /\ o < m
    BY <1>2
  <2>2. Possible(t, o)
    BY <2>1 DEF Possible, n
  <2> HIDE DEF o, p, m
  <2>3. Ends(Append(read, token), a, t, o + 1)
    <3>1. a + m = Len(read') + 1
      BY <1>1, <1>3, <1>5
    <3>2. Ends(read', a, t, m)
      BY <3>1 DEF Ends, m, n
    <3> QED BY <1>1, <2>1, <3>2
  <2>4. Ends(read, a, t, o) /\ token = Tok(t, o + 1)
    <3>1. read \in Seq(Token) /\ o \in Nat
      BY <1>1, <2>1
    <3> QED BY <2>3, <3>1, OneShorter
  <2>5. Held(t, p, 2)
    BY <1>2, <2>1, <2>2, <2>4 DEF HeldInv, o
  <2>6. token = Newline
    BY <2>1, <2>4, Toks
  <2>7. push_line(line)
    BY <2>6 DEF Take
  <2>8. delivered' = Append(delivered, t)
    <3>1. p + 1 <= sent[t].lines /\ p + 1 = sent[t].lines
      BY <1>2, <2>1 DEF n
    <3> QED BY <2>1, <2>5, <2>7, <3>1, PushHeld
  <2> QED BY <2>8, DeliveredGrows
<1>6. a + m <= k + 1 \/ a + m = k + 2
  BY <1>1, <1>3
<1> QED BY <1>4, <1>5, <1>6

\* So was what ended before the token that is taken.
LEMMA NotShorter ==
  ASSUME NEW s \in Seq(Token), NEW token \in Token, NEW a \in Nat \ {0}, NEW t,
         NEW m \in Nat \ {0}, a + m <= Len(s) + 1,
         Fresh(Append(s, token), a), Starts(Append(s, token), a, t, m)
  PROVE  Fresh(s, a) /\ Starts(s, a, t, m)
<1> DEFINE k == Len(s)
           ss == Append(s, token)
<1>1. k \in Nat /\ \A j \in 1..k : ss[j] = s[j]
  BY AppendProperties, LenProperties
<1>2. Fresh(ss, a) /\ Starts(ss, a, t, m) /\ a + m <= k + 1
  OBVIOUS
<1> HIDE DEF k, ss
<1>3. \A j \in 1..m : a + (j - 1) \in 1..k
  BY <1>1, <1>2
<1>4. a = 1 \/ a - 1 \in 1..k
  BY <1>1, <1>2
<1> QED BY <1>1, <1>2, <1>3, <1>4 DEF Fresh, Starts

LEMMA TokTags ==
  \A t, k : Tok(t, k).tag \in {"start", "cont", "newline", "piece"}
<1> SUFFICES ASSUME NEW t, NEW k
             PROVE  Tok(t, k).tag \in {"start", "cont", "newline", "piece"}
  OBVIOUS
<1>1. Tok(t, k) \in {MARKER_START, MARKER_CONT, Newline, Piece(t, (k + 1) \div 3)}
  BY DEF Tok
<1>2. Piece(t, (k + 1) \div 3).tag = "piece"
  BY DEF Piece
<1> QED BY <1>1, <1>2, Markers

LEMMA KnownGrows ==
  ASSUME NEW s \in Seq(Token), NEW token \in Token, NEW q, Known(s, q),
         token.tag = "piece" => token.t \in 1..Len(q) /\ token.i \in 1..q[token.t].lines
  PROVE  Known(Append(s, token), q)
<1> DEFINE ss == Append(s, token)
           k == Len(s)
<1>1. /\ k \in Nat /\ Len(ss) = k + 1 /\ ss[k + 1] = token
      /\ \A j \in 1..k : ss[j] = s[j]
  BY AppendProperties, LenProperties
<1> HIDE DEF ss
<1>2. \A j \in Pieces(ss) :
        \/ j \in Pieces(s) /\ ss[j] = s[j]
        \/ ss[j] = token /\ token.tag = "piece"
  BY <1>1 DEF Pieces
<1>3. Known(ss, q)
  BY <1>2 DEF Known
<1> QED BY <1>3 DEF ss

LEMMA CleanToken ==
  ASSUME Inv, CleanInv, Read \/ Garble
  PROVE  CleanInv'
<1>1. /\ wire # <<>> /\ wire \in Seq(Token) /\ read \in Seq(Token)
      /\ wire' = Tail(wire) /\ sent' = sent
  BY DEF Read, Garble, Inv, TypeOK
<1>2. /\ Head(wire) \in Token /\ Len(wire) \in Nat \ {0} /\ Len(Tail(wire)) = Len(wire) - 1
      /\ Head(wire) = wire[1] /\ \A j \in 1..Len(Tail(wire)) : Tail(wire)[j] = wire[j + 1]
  BY <1>1, HeadTailProperties, LenProperties
<1>3. Head(wire).tag \in {"start", "cont", "newline", "piece"}
  BY <1>2 DEF CleanInv, StreamInv
<1>4. PICK token \in Token : /\ Take(token) /\ token # Eof
                             /\ token = Head(wire) \/ token.tag # "piece"
  <2>1. CASE Read
    BY <1>2, <1>3, <2>1, Markers DEF Read
  <2>2. CASE Garble
    <3>1. PICK tag \in {"x", "wrong"} : Take(Mark(tag))
      BY <2>2 DEF Garble
    <3>2. Mark(tag) \in Token /\ Mark(tag).tag = tag
      BY Marks
    <3> QED BY <3>1, <3>2, Markers
  <2> QED BY <2>1, <2>2
<1>5. HeldInv' /\ AllGot'
  BY <1>1, <1>4, TakeHeld, TakeAll DEF CleanInv
<1>6. \A j \in 1..Len(wire') : wire'[j].tag \in {"start", "cont", "newline", "piece"}
  <2>1. \A j \in 1..Len(Tail(wire)) : j + 1 \in 1..Len(wire)
    BY <1>2
  <2> QED BY <1>1, <1>2, <2>1 DEF CleanInv, StreamInv
<1>7. Known(read', sent)
  <2>1. Known(wire, sent) /\ Known(read, sent)
    BY DEF Inv, OrderInv, CleanInv, StreamInv
  <2>2. Head(wire).tag = "piece" => 1 \in Pieces(wire)
    BY <1>2 DEF Pieces
  <2>3. token.tag = "piece" => token.t \in 1..Len(sent) /\ token.i \in 1..sent[token.t].lines
    BY <1>2, <1>4, <2>1, <2>2 DEF Known
  <2>4. read' = Append(read, token)
    BY <1>4 DEF Take
  <2> QED BY <1>1, <2>1, <2>3, <2>4, KnownGrows
<1>8. Known(read', sent')
  BY <1>1, <1>7
<1> QED BY <1>5, <1>6, <1>8 DEF CleanInv, StreamInv

\* Only a packet that has been written arrives past its first marker.
LEMMA PieceKnown ==
  ASSUME Inv, CleanInv, NEW a \in Nat \ {0}, NEW t \in Nat \ {0}, NEW m \in Nat, m >= 2,
         a + m <= Len(read) + 1, Starts(read, a, t, m)
  PROVE  t \in 1..Len(sent)
<1>1. Len(read) \in Nat
  BY LenProperties DEF Inv, TypeOK
<1>2. 2 \in 1..m /\ a + (2 - 1) \in 1..Len(read)
  BY <1>1
<1>3. Tok(t, 2) = Piece(t, 1)
  <2>1. 3 * 0 + 2 = 2 /\ 0 + 1 = 1
    OBVIOUS
  <2> QED BY <2>1, Toks
<1>4. read[a + (2 - 1)] = Piece(t, 1)
  BY <1>2, <1>3 DEF Starts
<1>5. a + (2 - 1) \in Pieces(read) /\ read[a + (2 - 1)].t = t
  BY <1>2, <1>4 DEF Pieces, Piece
<1> QED BY <1>5 DEF CleanInv, StreamInv, Known

LEMMA CleanHost ==
  ASSUME Inv, CleanInv, NEW p \in Packets, Write(p) \/ \E n \in 0..3 * p.lines - 1 : Killed(p, n)
  PROVE  CleanInv'
<1>1. p.lines \in Nat \ {0}
  BY ConsoleAssumption
<1>2. PICK m \in 0..3 * p.lines :
        /\ sent' = Append(sent, p)
        /\ wire' = wire \o SubSeq(encode(Len(sent'), p.lines), 1, m)
  BY Written
<1>3. UNCHANGED <<line, acc, in_packet, delivered, read>>
  BY DEF Write, Killed, boardVars
<1>4. /\ sent \in Seq(Packets) /\ wire \in Seq(Token) /\ Len(sent) \in Nat /\ Len(read) \in Nat
      /\ Len(sent') = Len(sent) + 1 /\ \A i \in 1..Len(sent) : sent'[i] = sent[i]
      /\ sent'[Len(sent) + 1] = p
  BY <1>2, AppendProperties, LenProperties DEF Inv, TypeOK
<1>5. \A t \in 1..Len(sent) : sent[t].lines \in Nat \ {0} /\ t \in Nat \ {0}
  BY Lines
<1>6. \A t \in 1..Len(sent') : sent'[t].lines \in Nat \ {0} /\ t \in Nat \ {0}
  <2>1. \A t \in 1..Len(sent') : t \in 1..Len(sent) \/ t = Len(sent) + 1
    BY <1>4
  <2> QED BY <1>1, <1>4, <1>5, <2>1
<1>7. Known(read', sent')
  <2>1. Known(read, sent)
    BY DEF CleanInv, StreamInv
  <2>2. \A t \in 1..Len(sent) : t \in 1..Len(sent') /\ sent'[t] = sent[t]
    BY <1>4
  <2> QED BY <1>3, <2>1, <2>2 DEF Known
<1>8. \A j \in 1..Len(wire') : wire'[j].tag \in {"start", "cont", "newline", "piece"}
  <2> DEFINE u == Len(sent')
             e == encode(u, p.lines)
             s == SubSeq(e, 1, m)
  <2>1. e \in Seq(Token) /\ Len(e) = 3 * p.lines
    <3>1. u \in Nat
      BY <1>4
    <3> HIDE DEF u
    <3> QED BY <1>1, <3>1, Encoded
  <2>2. \A j \in 1..3 * p.lines : e[j].tag \in {"start", "cont", "newline", "piece"}
    <3>1. \A j \in 1..3 * p.lines : e[j] = Tok(Len(sent'), j)
      BY <1>1, EncodeToks
    <3> HIDE DEF e
    <3> QED BY <3>1, TokTags
  <2> HIDE DEF e
  <2>3. m \in Nat /\ m <= 3 * p.lines /\ \A j \in 1..m : j \in 1..3 * p.lines
    BY <1>1
  <2>4. s \in Seq(Token) /\ Len(s) = m /\ \A j \in 1..m : s[j] = e[j]
    <3>1. \A j \in 1..m : e[j] \in Token
      BY <2>1, <2>3, ElementOfSeq
    <3> QED BY <2>3, <3>1, SubSeqProperties
  <2> DEFINE w == wire \o s
  <2>5. wire' = w
    BY <1>2 DEF e
  <2> HIDE DEF s
  <2>6. /\ Len(w) = Len(wire) + m
        /\ \A j \in 1..Len(wire) + m : w[j] = IF j <= Len(wire) THEN wire[j] ELSE s[j - Len(wire)]
    BY <1>4, <2>4, ConcatProperties
  <2> HIDE DEF w
  <2>7. \A j \in 1..Len(wire) : wire[j].tag \in {"start", "cont", "newline", "piece"}
    BY DEF CleanInv, StreamInv
  <2>8. Len(wire) \in Nat
    BY <1>4, LenProperties
  <2>9. \A j \in 1..Len(wire) + m : j \in 1..Len(wire) \/ (~(j <= Len(wire)) /\ j - Len(wire) \in 1..m)
    BY <2>3, <2>8
  <2> QED BY <2>2, <2>3, <2>4, <2>5, <2>6, <2>7, <2>9
<1>9. HeldInv'
  <2> SUFFICES ASSUME NEW a \in Nat \ {0}, NEW t \in Nat \ {0}, NEW q \in Nat, NEW r \in 0..2,
                      Ends(read', a, t, 3 * q + r), Possible(t, 3 * q + r)'
               PROVE  Held(t, q, r)'
    BY DEF HeldInv
  <2> DEFINE k == 3 * q + r
  <2>1. k \in Nat /\ Ends(read, a, t, k)
    BY <1>3
  <2> HIDE DEF k
  <2>2. Possible(t, k)
    <3>1. CASE k < 3
      BY <3>1 DEF Possible
    <3>2. CASE ~(k < 3)
      <4>1. t \in 1..Len(sent)
        <5>1. k >= 2 /\ a + k <= Len(read) + 1 /\ Starts(read, a, t, k)
          BY <1>4, <2>1, <3>2 DEF Ends
        <5> QED BY <2>1, <5>1, PieceKnown
      <4>2. k < 3 * sent'[t].lines
        BY <3>2 DEF Possible, k
      <4> QED BY <1>4, <4>1, <4>2 DEF Possible
    <3> QED BY <3>1, <3>2
  <2>3. Held(t, q, r)
    BY <2>1, <2>2 DEF CleanInv, HeldInv, k
  <2> QED BY <1>3, <2>3 DEF Held, LineHeld
<1>10. AllGot'
  <2> SUFFICES ASSUME NEW a \in Nat \ {0}, NEW t \in 1..Len(sent'),
                      a + 3 * sent'[t].lines <= Len(read') + 1, Fresh(read', a),
                      Starts(read', a, t, 3 * sent'[t].lines)
               PROVE  Got(t)'
    BY DEF AllGot
  <2> DEFINE k == 3 * sent'[t].lines
  <2>1. k \in Nat /\ k >= 2 /\ t \in Nat \ {0}
    BY <1>6
  <2>2. a + k <= Len(read) + 1 /\ Fresh(read, a) /\ Starts(read, a, t, k)
    BY <1>3
  <2> HIDE DEF k
  <2>3. t \in 1..Len(sent)
    BY <2>1, <2>2, PieceKnown
  <2>4. k = 3 * sent[t].lines
    BY <1>4, <2>3 DEF k
  <2>5. Got(t)
    BY <2>2, <2>3, <2>4 DEF CleanInv, AllGot
  <2> QED BY <1>3, <2>5 DEF Got
<1> QED BY <1>7, <1>8, <1>9, <1>10 DEF CleanInv, StreamInv

LEMMA NotEof == \A t, k : Tok(t, k) # Eof
BY TokTags, Markers

LEMMA CleanPoll == ASSUME Inv, CleanInv, Poll PROVE CleanInv'
<1>1. wire = <<>> /\ UNCHANGED <<sent, wire, delivered>> /\ read \in Seq(Token)
  BY DEF Poll, Inv, TypeOK
<1>2. CASE EofReaches
  <2>1. line' = <<>> /\ read' = Append(read, Eof)
    BY <1>2 DEF Poll
  <2>2. StreamInv'
    <3>1. Known(read', sent)
      BY <1>1, <2>1, Markers, KnownGrows DEF CleanInv, StreamInv
    <3>2. Known(read', sent')
      BY <1>1, <3>1
    <3>3. \A j \in 1..Len(wire') : wire'[j].tag \in {"start", "cont", "newline", "piece"}
      BY <1>1
    <3> QED BY <3>2, <3>3 DEF StreamInv
  <2>3. ASSUME NEW a \in Nat \ {0}, NEW t, NEW m \in Nat, Ends(read', a, t, m + 1)
        PROVE  FALSE
    <3>1. Eof = Tok(t, m + 1)
      BY <1>1, <2>1, <2>3, Markers, OneShorter
    <3> QED BY <3>1, NotEof
  <2>4. HeldInv'
    <3> SUFFICES ASSUME NEW a \in Nat \ {0}, NEW t \in Nat \ {0}, NEW q \in Nat, NEW r \in 0..2,
                        Ends(read', a, t, 3 * q + r)
                 PROVE  Held(t, q, r)'
      BY DEF HeldInv
    <3>1. 3 * q + r = 0
      <4> SUFFICES ASSUME 3 * q + r # 0 PROVE FALSE
        OBVIOUS
      <4> DEFINE m == 3 * q + r - 1
      <4>1. m \in Nat /\ m + 1 = 3 * q + r
        OBVIOUS
      <4> HIDE DEF m
      <4> QED BY <2>3, <4>1
    <3>2. q = 0 /\ r = 0
      BY <3>1
    <3> QED BY <2>1, <3>2 DEF Held, LineHeld
  <2>5. AllGot'
    <3> SUFFICES ASSUME NEW a \in Nat \ {0}, NEW t \in 1..Len(sent),
                        a + 3 * sent[t].lines <= Len(read') + 1, Fresh(read', a),
                        Starts(read', a, t, 3 * sent[t].lines)
                 PROVE  Got(t)'
      BY <1>1 DEF AllGot
    <3> DEFINE m == 3 * sent[t].lines
               k == Len(read)
    <3>1. m \in Nat \ {0}
      BY Lines
    <3>2. k \in Nat /\ Len(read') = k + 1
      BY <1>1, <2>1, Markers, AppendProperties, LenProperties
    <3>3. a + m <= Len(read') + 1 /\ Fresh(read', a) /\ Starts(read', a, t, m)
      OBVIOUS
    <3> HIDE DEF m
    <3>4. CASE a + m <= k + 1
      <4>1. Fresh(read, a) /\ Starts(read, a, t, m)
        BY <1>1, <2>1, <3>1, <3>3, <3>4, Markers, NotShorter
      <4>2. Got(t)
        BY <3>4, <4>1 DEF CleanInv, AllGot, m
      <4> QED BY <1>1, <4>2 DEF Got
    <3>5. CASE a + m = k + 2
      <4> DEFINE n == m - 1
      <4>1. n \in Nat /\ n + 1 = m
        BY <3>1
      <4> HIDE DEF n, k
      <4>2. Ends(read', a, t, n + 1)
        BY <3>2, <3>3, <3>5, <4>1 DEF Ends
      <4> QED BY <2>3, <4>1, <4>2
    <3> QED BY <3>1, <3>2, <3>3, <3>4, <3>5
  <2> QED BY <2>2, <2>4, <2>5 DEF CleanInv
<1>3. CASE ~EofReaches
  BY <1>1, <1>3 DEF Poll, boardVars, CleanInv, StreamInv, HeldInv, AllGot, Possible, Held, LineHeld,
                    Got
<1> QED BY <1>2, <1>3

LEMMA CleanStep == ASSUME Inv, CleanInv, [Next]_vars PROVE CleanInv'
<1>1. CASE UNCHANGED vars \/ Open \/ Lose
  <2>1. UNCHANGED <<sent, line, acc, in_packet, delivered, read>>
    BY <1>1 DEF vars, boardVars, Open, Lose
  <2>2. HeldInv' /\ AllGot' /\ Known(read', sent')
    BY <2>1 DEF CleanInv, StreamInv, HeldInv, AllGot, Possible, Held, LineHeld, Got
  <2>3. CASE wire' = wire
    BY <2>2, <2>3 DEF CleanInv, StreamInv
  <2>4. CASE wire # <<>> /\ wire' = Tail(wire)
    <3>1. /\ Len(wire) \in Nat /\ Len(Tail(wire)) = Len(wire) - 1
          /\ \A j \in 1..Len(Tail(wire)) : Tail(wire)[j] = wire[j + 1]
      BY <2>4, HeadTailProperties, LenProperties DEF Inv, TypeOK
    <3>2. \A j \in 1..Len(Tail(wire)) : j + 1 \in 1..Len(wire)
      BY <3>1
    <3> QED BY <2>2, <2>4, <3>1, <3>2 DEF CleanInv, StreamInv
  <2>5. wire' = wire \/ (wire # <<>> /\ wire' = Tail(wire))
    BY <1>1 DEF vars, Open, Lose
  <2> QED BY <2>3, <2>4, <2>5
<1>2. CASE Next
  BY <1>1, <1>2, CleanHost, CleanToken, CleanPoll DEF Next
<1> QED BY <1>1, <1>2

LEMMA CleanInit == Init => CleanInv
<1> SUFFICES ASSUME Init PROVE CleanInv
  OBVIOUS
<1>1. sent = <<>> /\ wire = <<>> /\ line = <<>> /\ read = <<>> /\ Len(read) = 0 /\ Len(sent) = 0
  BY DEF Init
<1>2. StreamInv
  BY <1>1, Empty DEF StreamInv
<1>3. HeldInv
  <2> SUFFICES ASSUME NEW a \in Nat \ {0}, NEW t \in Nat \ {0}, NEW q \in Nat, NEW r \in 0..2,
                      Ends(read, a, t, 3 * q + r)
               PROVE  Held(t, q, r)
    BY DEF HeldInv
  <2>1. q = 0 /\ r = 0
    BY <1>1 DEF Ends
  <2> QED BY <1>1, <2>1 DEF Held, LineHeld
<1>4. AllGot
  BY <1>1 DEF AllGot
<1> QED BY <1>2, <1>3, <1>4 DEF CleanInv

LEMMA ArrivedStarts ==
  ASSUME Inv, NEW t \in 1..Len(sent), NEW a \in 1..Len(read), ArrivedAt(t, a)
  PROVE  a + 3 * sent[t].lines <= Len(read) + 1 /\ Starts(read, a, t, 3 * sent[t].lines)
<1> DEFINE n == sent[t].lines
           m == 3 * n
           e == encode(t, n)
<1>1. n \in Nat \ {0} /\ t \in Nat /\ read \in Seq(Token) /\ Len(read) \in Nat
  BY Lines, LenProperties DEF Inv, TypeOK
<1>2. a + m - 1 <= Len(read) /\ SubSeq(read, a, a + m - 1) = e
  BY DEF ArrivedAt
<1>3. \A j \in 1..m : e[j] = Tok(t, j)
  BY <1>1, EncodeToks
<1> HIDE DEF n, e
<1>4. m \in Nat /\ a + m - 1 \in Int /\ a \in Int /\ (a + m - 1) - a + 1 = m
  BY <1>1
<1> HIDE DEF m
<1>5. \A i \in a..a + m - 1 : read[i] \in Token
  <2>1. \A i \in a..a + m - 1 : i \in 1..Len(read)
    BY <1>1, <1>2, <1>4
  <2> QED BY <1>1, <2>1, ElementOfSeq
<1>6. \A i \in 1..m : SubSeq(read, a, a + m - 1)[i] = read[a + i - 1]
  BY <1>4, <1>5, SubSeqProperties
<1>7. \A j \in 1..m : a + j - 1 = a + (j - 1)
  BY <1>4
<1>8. Starts(read, a, t, m)
  BY <1>2, <1>3, <1>6, <1>7 DEF Starts
<1>9. a + m <= Len(read) + 1
  BY <1>1, <1>2, <1>4
<1> QED BY <1>8, <1>9 DEF m, n

LEMMA ArrivedGot ==
  ASSUME Inv, CleanInv, NEW t \in 1..Len(sent), NEW a \in 1..Len(read), ArrivedAt(t, a),
         Fresh(read, a)
  PROVE  Got(t)
<1>1. a \in Nat \ {0}
  BY LenProperties DEF Inv, TypeOK
<1>2. a + 3 * sent[t].lines <= Len(read) + 1 /\ Starts(read, a, t, 3 * sent[t].lines)
  BY ArrivedStarts
<1> QED BY <1>1, <1>2 DEF CleanInv, AllGot

(* A packet that arrives unchanged, on a line of its own, is delivered,    *)
(* whatever serve and Decoder held before (Decoder::push_line, the line    *)
(* buffer of Server::serve).                                               *)
THEOREM CleanTheorem == Spec => []CleanIsDelivered
<1>1. Inv /\ CleanInv => CleanIsDelivered
  <2> SUFFICES ASSUME Inv, CleanInv, NEW a \in 1..Len(read), NEW t \in 1..Len(sent),
                      a = 1 \/ read[a - 1] \in {Newline, Eof}, ArrivedAt(t, a)
               PROVE  \E k \in 1..Len(delivered) : delivered[k] = t
    BY DEF CleanIsDelivered
  <2>1. Got(t)
    BY ArrivedGot DEF Fresh
  <2> QED BY <2>1 DEF Got
<1> QED BY <1>1, InitInv, CleanInit, Step, CleanStep, PTL DEF Spec

-----------------------------------------------------------------------------
(* What damage can cost *)

\* A packet that has arrived shows its first marker and its first piece.
LEMMA ArrivedPieces ==
  ASSUME Inv, NEW t \in 1..Len(sent), NEW a \in 1..Len(read), ArrivedAt(t, a)
  PROVE  /\ a \in Nat \ {0} /\ a + 1 \in 1..Len(read)
         /\ read[a] = MARKER_START /\ read[a + 1] = Piece(t, 1)
<1> DEFINE m == 3 * sent[t].lines
<1>1. a + m <= Len(read) + 1 /\ Starts(read, a, t, m)
  BY ArrivedStarts
<1>2. m \in Nat /\ m >= 3 /\ Len(read) \in Nat /\ a \in Nat \ {0}
  <2> DEFINE n == sent[t].lines
  <2>1. n \in Nat \ {0}
    BY Lines
  <2>2. Len(read) \in Nat
    BY LenProperties DEF Inv, TypeOK
  <2> HIDE DEF n
  <2>3. 3 * n \in Nat /\ 3 * n >= 3 /\ a \in Nat \ {0}
    BY <2>1, <2>2
  <2> QED BY <2>2, <2>3 DEF n
<1> HIDE DEF m
<1>3. 1 \in 1..m /\ 2 \in 1..m /\ a + (1 - 1) = a /\ a + (2 - 1) = a + 1 /\ a + 1 \in 1..Len(read)
  BY <1>1, <1>2
<1>4. Tok(t, 1) = MARKER_START /\ Tok(t, 2) = Piece(t, 1)
  <2>1. 3 * 0 + 1 = 1 /\ 3 * 0 + 2 = 2 /\ 0 + 1 = 1
    OBVIOUS
  <2> QED BY <2>1, Toks DEF Marker
<1> QED BY <1>1, <1>2, <1>3, <1>4 DEF Starts

Stream == read \o wire

(* Where a packet begins or would begin, but in the middle of a line: only *)
(* these packets can arrive unchanged and be missed.                       *)
Ragged(s) ==
  {j \in 2..Len(s) + 1 :
     (j = Len(s) + 1 \/ s[j] = MARKER_START) /\ s[j - 1] \notin {Newline, Eof}}

NoiseInv == Cardinality(Ragged(Stream)) <= faults

LEMMA RaggedFinite ==
  ASSUME NEW s \in Seq(Token)
  PROVE  IsFiniteSet(Ragged(s)) /\ Cardinality(Ragged(s)) \in Nat
<1>1. 2 \in Int /\ Len(s) + 1 \in Int
  BY LenProperties
<1>2. IsFiniteSet(2..Len(s) + 1)
  BY <1>1, FS_Interval
<1>3. Ragged(s) \in SUBSET (2..Len(s) + 1)
  BY DEF Ragged
<1>4. IsFiniteSet(Ragged(s))
  BY <1>2, <1>3, FS_Subset
<1> QED BY <1>4, FS_CardinalityType

LEMMA AtMostAsMany ==
  ASSUME NEW s \in Seq(Token), NEW S, S \subseteq Ragged(s)
  PROVE  Cardinality(S) <= Cardinality(Ragged(s))
<1>1. S \in SUBSET Ragged(s)
  OBVIOUS
<1> QED BY <1>1, RaggedFinite, FS_Subset

LEMMA OneMore ==
  ASSUME NEW s \in Seq(Token), NEW S, NEW x, S \subseteq Ragged(s) \cup {x}
  PROVE  Cardinality(S) <= Cardinality(Ragged(s)) + 1
<1> DEFINE T == Ragged(s) \cup {x}
<1>1. IsFiniteSet(Ragged(s)) /\ Cardinality(Ragged(s)) \in Nat
  BY RaggedFinite
<1>2. IsFiniteSet(T) /\ (Cardinality(T) = Cardinality(Ragged(s))
                         \/ Cardinality(T) = Cardinality(Ragged(s)) + 1)
  BY <1>1, FS_AddElement
<1>3. S \in SUBSET T
  OBVIOUS
<1> HIDE DEF T
<1>4. IsFiniteSet(S) /\ Cardinality(S) <= Cardinality(T)
  BY <1>2, <1>3, FS_Subset
<1>5. Cardinality(S) \in Nat /\ Cardinality(T) \in Nat
  BY <1>2, <1>4, FS_CardinalityType
<1> QED BY <1>1, <1>2, <1>4, <1>5

\* One token of z is another in y, and no start of a packet.
LEMMA RaggedReplaced ==
  ASSUME NEW z \in Seq(Token), NEW y \in Seq(Token), Len(y) = Len(z), NEW i \in 1..Len(z),
         \A j \in 1..Len(z) : j # i => y[j] = z[j], y[i] # MARKER_START
  PROVE  Ragged(y) \subseteq Ragged(z) \cup {i + 1}
<1> DEFINE n == Len(z)
<1>1. n \in Nat /\ i \in 1..n /\ Len(y) = n
  BY LenProperties
<1> SUFFICES ASSUME NEW j \in Ragged(y), j # i + 1 PROVE j \in Ragged(z)
  OBVIOUS
<1>2. j \in 2..n + 1 /\ (j = n + 1 \/ y[j] = MARKER_START) /\ y[j - 1] \notin {Newline, Eof}
  BY <1>1 DEF Ragged
<1> HIDE DEF n
<1>3. j - 1 \in 1..n /\ j - 1 # i /\ (j = n + 1 \/ j \in 1..n)
  BY <1>1, <1>2
<1>4. z[j - 1] \notin {Newline, Eof}
  BY <1>2, <1>3 DEF n
<1>5. j = n + 1 \/ z[j] = MARKER_START
  BY <1>1, <1>2, <1>3 DEF n
<1> QED BY <1>2, <1>4, <1>5 DEF Ragged, n

\* One token of z is missing in y.
LEMMA RaggedDropped ==
  ASSUME NEW z \in Seq(Token), NEW y \in Seq(Token), Len(z) = Len(y) + 1, NEW i \in 1..Len(z),
         \A j \in 1..Len(y) : y[j] = IF j < i THEN z[j] ELSE z[j + 1]
  PROVE  Cardinality(Ragged(y)) <= Cardinality(Ragged(z)) + 1
<1> DEFINE n == Len(y)
           R == Ragged(y) \ {i}
           f == [j \in R |-> IF j < i THEN j ELSE j + 1]
<1>1. n \in Nat /\ Len(z) = n + 1 /\ i \in 1..n + 1
  BY LenProperties
<1>2. \A j \in R : /\ j \in 2..n + 1 /\ j # i /\ y[j - 1] \notin {Newline, Eof}
                   /\ j = n + 1 \/ y[j] = MARKER_START
  BY DEF Ragged
<1> HIDE DEF n, R
<1>3. \A j \in 1..n : y[j] = IF j < i THEN z[j] ELSE z[j + 1]
  BY DEF n
<1>4. ASSUME NEW j \in R PROVE (IF j < i THEN j ELSE j + 1) \in Ragged(z)
  <2>1. j \in 2..n + 1 /\ j # i /\ j - 1 \in 1..n /\ (j = n + 1 \/ j \in 1..n)
    BY <1>1, <1>2
  <2>2. CASE j < i
    <3>1. j - 1 < i /\ j # n + 1 /\ j \in 1..n /\ j \in 2..n + 2
      BY <1>1, <2>1, <2>2
    <3>2. z[j - 1] \notin {Newline, Eof} /\ z[j] = MARKER_START
      BY <1>2, <1>3, <2>1, <2>2, <3>1
    <3>3. j \in Ragged(z)
      BY <1>1, <3>1, <3>2 DEF Ragged
    <3> QED BY <2>2, <3>3
  <2>3. CASE ~(j < i)
    <3> DEFINE l == j + 1
    <3>1. ~(j - 1 < i) /\ (j - 1) + 1 = j /\ l - 1 = j /\ l \in 2..Len(z) + 1
      BY <1>1, <2>1, <2>3
    <3>2. z[j] \notin {Newline, Eof}
      BY <1>2, <1>3, <2>1, <3>1
    <3>3. CASE j = n + 1
      <4>1. l = Len(z) + 1
        BY <1>1, <3>3
      <4> HIDE DEF l
      <4>2. l \in Ragged(z)
        BY <3>1, <3>2, <4>1 DEF Ragged
      <4> QED BY <2>3, <4>2 DEF l
    <3>4. CASE j # n + 1
      <4>1. y[j] = MARKER_START /\ y[j] = z[l]
        BY <1>2, <1>3, <2>1, <2>3, <3>4
      <4> HIDE DEF l
      <4>2. l \in Ragged(z)
        BY <3>1, <3>2, <4>1 DEF Ragged
      <4> QED BY <2>3, <4>2 DEF l
    <3> QED BY <3>3, <3>4
  <2> QED BY <2>2, <2>3
<1>5. f \in Injection(R, Ragged(z))
  <2>1. f \in [R -> Ragged(z)]
    BY <1>4
  <2>2. \A j, k \in R : f[j] = f[k] => j = k
    <3>1. \A j \in R : j \in Int /\ j # i
      BY <1>2
    <3>2. i \in Int
      BY <1>1
    <3> QED BY <3>1, <3>2
  <2> QED BY <2>1, <2>2 DEF Injection, IsInjective
<1>6. IsFiniteSet(R) /\ Cardinality(R) <= Cardinality(Ragged(z))
  BY <1>5, RaggedFinite, FS_Injection
<1>7. Cardinality(Ragged(y)) <= Cardinality(R) + 1
  <2>1. IsFiniteSet(Ragged(y)) /\ Cardinality(Ragged(y)) \in Nat
    BY RaggedFinite
  <2>2. Cardinality(R) = IF i \in Ragged(y) THEN Cardinality(Ragged(y)) - 1
                         ELSE Cardinality(Ragged(y))
    BY <2>1, FS_RemoveElement DEF R
  <2> QED BY <2>1, <2>2
<1>8. /\ Cardinality(R) \in Nat /\ Cardinality(Ragged(y)) \in Nat
      /\ Cardinality(Ragged(z)) \in Nat
  BY <1>6, RaggedFinite, FS_CardinalityType
<1> QED BY <1>6, <1>7, <1>8

\* What is written of packet u, and what comes of it.
Beginning(u, n, m) == SubSeq(encode(u, n), 1, m)
Joined(y, r, s) == y = r \o s

LEMMA RaggedWritten ==
  ASSUME NEW s \in Seq(Token), NEW u \in Nat, NEW n \in Nat \ {0}, NEW m \in 0..3 * n,
         NEW w, Joined(w, s, Beginning(u, n, m))
  PROVE  /\ w \in Seq(Token) /\ Ragged(w) \subseteq Ragged(s) \cup {Len(w) + 1}
         /\ m = 3 * n => Ragged(w) \subseteq Ragged(s)
<1> DEFINE f == encode(u, n)
           p == SubSeq(f, 1, m)
           k == Len(s)
<1>1. f \in Seq(Token) /\ Len(f) = 3 * n
  BY Encoded
<1>2. \A j \in 1..3 * n : f[j] = Tok(u, j)
  BY EncodeToks
<1>3. w = s \o p
  BY DEF Joined, Beginning
<1> HIDE DEF f
<1>4. m \in Nat /\ \A j \in 1..m : j \in 1..3 * n
  OBVIOUS
<1>5. p \in Seq(Token) /\ Len(p) = m /\ \A j \in 1..m : p[j] = Tok(u, j)
  <2>1. \A j \in 1..m : f[j] \in Token
    BY <1>1, <1>4, ElementOfSeq
  <2>2. p \in Seq(Token) /\ Len(p) = m /\ \A j \in 1..m : p[j] = f[j]
    BY <1>4, <2>1, SubSeqProperties
  <2> QED BY <1>2, <1>4, <2>2
<1> HIDE DEF p
<1>6. /\ k \in Nat /\ w \in Seq(Token) /\ Len(w) = k + m
      /\ \A j \in 1..k + m : w[j] = IF j <= k THEN s[j] ELSE p[j - k]
  <2> DEFINE c == s \o p
  <2>1. w = c
    BY <1>3
  <2>2. /\ c \in Seq(Token) /\ Len(c) = Len(s) + Len(p)
        /\ \A j \in 1..Len(s) + Len(p) : c[j] = IF j <= Len(s) THEN s[j] ELSE p[j - Len(s)]
    BY ONLY <1>5, s \in Seq(Token), ConcatProperties
  <2> HIDE DEF c
  <2> QED BY <1>5, <2>1, <2>2, LenProperties
<1>7. \A j \in 2..m : Tok(u, j) # MARKER_START
  <2> SUFFICES ASSUME NEW j \in 2..m PROVE Tok(u, j) # MARKER_START
    OBVIOUS
  <2>1. Tok(u, j) \in {MARKER_CONT, Newline, Piece(u, (j + 1) \div 3)}
    BY DEF Tok
  <2>2. Piece(u, (j + 1) \div 3).tag = "piece"
    BY DEF Piece
  <2> QED BY <2>1, <2>2, Markers
<1>8. ASSUME NEW j \in Ragged(w) PROVE j \in Ragged(s) \/ (j = k + m + 1 /\ m # 0)
  <2>1. /\ j \in 2..k + m + 1 /\ w[j - 1] \notin {Newline, Eof}
        /\ j = k + m + 1 \/ w[j] = MARKER_START
    BY <1>6 DEF Ragged
  <2> HIDE DEF k
  <2>2. CASE j <= k + 1
    <3>1. j \in 2..k + 1 /\ j - 1 \in 1..k + m /\ j - 1 <= k
      BY <1>4, <1>6, <2>1, <2>2
    <3>2. s[j - 1] \notin {Newline, Eof}
      BY <1>6, <2>1, <3>1
    <3>3. CASE j = k + 1
      BY <3>1, <3>2, <3>3 DEF Ragged, k
    <3>4. CASE j # k + 1
      <4>1. j # k + m + 1 /\ j \in 1..k + m /\ j <= k
        BY <1>4, <1>6, <3>1, <3>4
      <4>2. s[j] = MARKER_START
        BY <1>6, <2>1, <4>1
      <4> QED BY <3>1, <3>2, <4>2 DEF Ragged, k
    <3> QED BY <3>3, <3>4
  <2>3. CASE ~(j <= k + 1)
    <3>1. m # 0
      BY <1>6, <2>1, <2>3
    <3>2. CASE j # k + m + 1
      <4>1. j \in 1..k + m /\ ~(j <= k) /\ j - k \in 2..m /\ j - k \in 1..m
        BY <1>4, <1>6, <2>1, <2>3, <3>2
      <4>2. w[j] = Tok(u, j - k)
        BY <1>5, <1>6, <4>1
      <4> QED BY <1>7, <2>1, <3>2, <4>1, <4>2
    <3> QED BY <3>1, <3>2
  <2> QED BY <1>6, <2>1, <2>2, <2>3
<1>9. m = 3 * n => k + m + 1 \notin Ragged(w)
  <2> SUFFICES ASSUME m = 3 * n PROVE w[(k + m + 1) - 1] = Newline
    BY DEF Ragged
  <2>1. m \in 1..m /\ k + m \in 1..k + m /\ ~(k + m <= k) /\ (k + m) - k = m
        /\ (k + m + 1) - 1 = k + m
    BY <1>4, <1>6
  <2>2. w[k + m] = Tok(u, m)
    BY <1>5, <1>6, <2>1
  <2>3. Tok(u, m) = Newline
    <3> DEFINE q == n - 1
    <3>1. q \in Nat /\ m = 3 * q + 3
      OBVIOUS
    <3> HIDE DEF q
    <3> QED BY <3>1, Toks
  <2> QED BY <2>1, <2>2, <2>3
<1> QED BY <1>6, <1>8, <1>9 DEF k

LEMMA StreamType ==
  ASSUME TypeOK
  PROVE  Stream \in Seq(Token) /\ read \in Seq(Token) /\ wire \in Seq(Token)
<1>1. read \in Seq(Token) /\ wire \in Seq(Token)
  BY DEF TypeOK
<1> DEFINE z == read \o wire
<1>2. z \in Seq(Token)
  BY <1>1, ConcatProperties
<1> QED BY <1>1, <1>2 DEF Stream

\* A token is taken as it is, or damaged.
LEMMA StreamTake ==
  ASSUME NEW r \in Seq(Token), NEW w \in Seq(Token), w # <<>>, NEW token \in Token,
         NEW z, Joined(z, r, w), NEW y, Joined(y, Append(r, token), Tail(w))
  PROVE  /\ z \in Seq(Token) /\ y \in Seq(Token) /\ Len(y) = Len(z) /\ Len(r) + 1 \in 1..Len(z)
         /\ \A j \in 1..Len(z) : j # Len(r) + 1 => y[j] = z[j]
         /\ y[Len(r) + 1] = token /\ z[Len(r) + 1] = Head(w)
<1> DEFINE a == Append(r, token)
           b == Tail(w)
           k == Len(r)
           n == Len(w)
<1>1. /\ k \in Nat /\ a \in Seq(Token) /\ Len(a) = k + 1 /\ a[k + 1] = token
      /\ \A j \in 1..k : a[j] = r[j]
  BY AppendProperties, LenProperties
<1>2. /\ n \in Nat \ {0} /\ b \in Seq(Token) /\ Len(b) = n - 1 /\ Head(w) = w[1]
      /\ \A j \in 1..n - 1 : b[j] = w[j + 1]
  BY HeadTailProperties, LenProperties
<1>3. y = a \o b
  BY DEF Joined
<1> HIDE DEF a, b
<1>4. /\ y \in Seq(Token) /\ Len(y) = Len(a) + Len(b)
      /\ \A j \in 1..Len(a) + Len(b) : y[j] = IF j <= Len(a) THEN a[j] ELSE b[j - Len(a)]
  <2> DEFINE c == a \o b
  <2>1. y = c
    BY <1>3
  <2>2. /\ c \in Seq(Token) /\ Len(c) = Len(a) + Len(b)
        /\ \A j \in 1..Len(a) + Len(b) : c[j] = IF j <= Len(a) THEN a[j] ELSE b[j - Len(a)]
    BY ONLY <1>1, <1>2, ConcatProperties
  <2> HIDE DEF c
  <2> QED BY <2>1, <2>2
<1>5. /\ z \in Seq(Token) /\ Len(z) = k + n
      /\ \A j \in 1..k + n : z[j] = IF j <= k THEN r[j] ELSE w[j - k]
  <2> DEFINE c == r \o w
  <2>1. z = c
    BY DEF Joined
  <2>2. /\ c \in Seq(Token) /\ Len(c) = k + n
        /\ \A j \in 1..k + n : c[j] = IF j <= k THEN r[j] ELSE w[j - k]
    BY ONLY r \in Seq(Token), w \in Seq(Token), ConcatProperties
  <2> HIDE DEF c
  <2> QED BY <2>1, <2>2
<1> HIDE DEF k, n
<1>6. (k + 1) + (n - 1) = k + n
  BY <1>1, <1>2
<1>7. Len(y) = k + n /\ \A j \in 1..k + n : y[j] = IF j <= k + 1 THEN a[j] ELSE b[j - (k + 1)]
  BY <1>1, <1>2, <1>4, <1>6
<1>8. k + 1 \in 1..k + n /\ k + 1 <= k + 1 /\ ~(k + 1 <= k) /\ (k + 1) - k = 1
  BY <1>1, <1>2
<1>9. y[k + 1] = token /\ z[k + 1] = Head(w)
  BY <1>1, <1>2, <1>5, <1>7, <1>8
<1>10. \A j \in 1..k + n : j # k + 1 => y[j] = z[j]
  <2> SUFFICES ASSUME NEW j \in 1..k + n, j # k + 1 PROVE y[j] = z[j]
    OBVIOUS
  <2>1. CASE j <= k
    <3>1. j \in 1..k /\ j <= k + 1
      BY <1>1, <2>1
    <3> QED BY <1>1, <1>5, <1>7, <2>1, <3>1
  <2>2. CASE ~(j <= k)
    <3>1. ~(j <= k + 1) /\ j - (k + 1) \in 1..n - 1 /\ (j - (k + 1)) + 1 = j - k
      BY <1>1, <1>2, <2>2
    <3> QED BY <1>2, <1>5, <1>7, <2>2, <3>1
  <2> QED BY <2>1, <2>2
<1> QED BY <1>4, <1>5, <1>7, <1>8, <1>9, <1>10 DEF k

LEMMA BeginningType ==
  ASSUME NEW u \in Nat, NEW n \in Nat \ {0}, NEW m \in 0..3 * n
  PROVE  Beginning(u, n, m) \in Seq(Token)
<1> DEFINE f == encode(u, n)
<1>1. f \in Seq(Token) /\ Len(f) = 3 * n /\ Sorted(f)
  BY Encoded
<1>2. m \in 0..Len(f)
  BY <1>1
<1> HIDE DEF f
<1>3. SubSeq(f, 1, m) \in Seq(Token)
  BY <1>1, <1>2, PrefixKeeps
<1> QED BY <1>3 DEF Beginning, f

LEMMA JoinedType ==
  ASSUME NEW r \in Seq(Token), NEW s \in Seq(Token), NEW y, Joined(y, r, s)
  PROVE  y \in Seq(Token)
<1> DEFINE c == r \o s
<1>1. c \in Seq(Token)
  BY ONLY r \in Seq(Token), s \in Seq(Token), ConcatProperties
<1>2. y = c
  BY DEF Joined
<1> HIDE DEF c
<1> QED BY <1>1, <1>2

LEMMA JoinedBehind ==
  ASSUME NEW r \in Seq(Token), NEW w \in Seq(Token), NEW p \in Seq(Token),
         NEW z, Joined(z, r, w), NEW v, Joined(v, w, p), NEW y, Joined(y, r, v)
  PROVE  Joined(y, z, p)
<1> DEFINE left == (r \o w) \o p
           right == r \o (w \o p)
<1>1. left = right
  BY ONLY r \in Seq(Token), w \in Seq(Token), p \in Seq(Token), ConcatAssociative
<1>2. y = right
  BY DEF Joined
<1>3. left = z \o p
  BY DEF Joined
<1> HIDE DEF left, right
<1>4. y = z \o p
  BY ONLY <1>1, <1>2, <1>3
<1> QED BY <1>4 DEF Joined

LEMMA NoiseHost ==
  ASSUME Inv, NoiseInv, NEW p \in Packets, Write(p) \/ \E n \in 0..3 * p.lines - 1 : Killed(p, n)
  PROVE  NoiseInv'
<1> DEFINE z == Stream
           y == Stream'
           u == Len(sent')
<1>1. p.lines \in Nat \ {0} /\ faults \in Nat /\ z \in Seq(Token)
  BY ConsoleAssumption, StreamType DEF Inv, TypeOK
<1>2. read' = read /\ read \in Seq(Token) /\ wire \in Seq(Token) /\ u \in Nat
  <2>1. read' = read
    BY DEF Write, Killed
  <2>2. sent' \in Seq(Packets)
    BY HostStep DEF Inv, TypeOK
  <2> QED BY <2>1, <2>2, LenProperties DEF Inv, TypeOK
<1> HIDE DEF u
<1>3. PICK m \in 0..3 * p.lines :
        /\ Joined(wire', wire, Beginning(u, p.lines, m))
        /\ (m = 3 * p.lines /\ faults' = faults) \/ faults' = faults + 1
  BY Written DEF Joined, Beginning, u
<1>4. Joined(z, read, wire) /\ Joined(y, read, wire')
  BY <1>2 DEF Stream, Joined
<1> HIDE DEF z, y
<1>5. Beginning(u, p.lines, m) \in Seq(Token)
  BY <1>1, <1>2, BeginningType
<1>6. Joined(y, z, Beginning(u, p.lines, m))
  BY <1>5, <1>2, <1>3, <1>4, JoinedBehind
<1>7. /\ y \in Seq(Token) /\ Ragged(y) \subseteq Ragged(z) \cup {Len(y) + 1}
      /\ m = 3 * p.lines => Ragged(y) \subseteq Ragged(z)
  BY <1>1, <1>2, <1>6, RaggedWritten
<1>8. /\ Cardinality(Ragged(z)) \in Nat /\ Cardinality(Ragged(y)) \in Nat
      /\ Cardinality(Ragged(z)) <= faults
  BY <1>1, <1>7, RaggedFinite DEF NoiseInv, z
<1>9. Cardinality(Ragged(y)) <= faults'
  <2>1. CASE m = 3 * p.lines /\ faults' = faults
    <3>1. Cardinality(Ragged(y)) <= Cardinality(Ragged(z))
      BY ONLY <1>1, <1>7, <2>1, AtMostAsMany
    <3> QED BY <1>1, <1>8, <2>1, <3>1
  <2>2. CASE faults' = faults + 1
    <3>1. Cardinality(Ragged(y)) <= Cardinality(Ragged(z)) + 1
      BY ONLY <1>1, <1>7, OneMore
    <3> QED BY <1>1, <1>8, <2>2, <3>1
  <2> QED BY <1>3, <2>1, <2>2
<1> QED BY <1>9 DEF NoiseInv, y

LEMMA NoiseToken == ASSUME Inv, CleanInv, NoiseInv, Read \/ Garble PROVE NoiseInv'
<1> DEFINE z == Stream
           y == Stream'
           k == Len(read)
<1>1. /\ wire # <<>> /\ wire \in Seq(Token) /\ read \in Seq(Token) /\ wire' = Tail(wire)
      /\ faults \in Nat /\ z \in Seq(Token)
  BY ConsoleAssumption, StreamType DEF Read, Garble, Inv, TypeOK
<1>2. PICK token \in Token : /\ read' = Append(read, token)
                             /\ \/ token = Head(wire) /\ faults' = faults
                                \/ token # MARKER_START /\ faults' = faults + 1
  <2>1. CASE Read
    BY <1>1, <2>1, HeadTailProperties DEF Read, Take
  <2>2. CASE Garble
    <3>1. PICK tag \in {"x", "wrong"} : Take(Mark(tag))
      BY <2>2 DEF Garble
    <3>2. Mark(tag) \in Token /\ Mark(tag) # MARKER_START
      BY Marks, Markers
    <3>3. faults' = faults + 1 /\ read' = Append(read, Mark(tag))
      BY <2>2, <3>1 DEF Garble, Take
    <3> QED BY <3>2, <3>3
  <2> QED BY <2>1, <2>2
<1>3. Joined(z, read, wire) /\ Joined(y, Append(read, token), Tail(wire))
  BY <1>1, <1>2 DEF Stream, Joined
<1> HIDE DEF z, y
<1>4. /\ z \in Seq(Token) /\ y \in Seq(Token) /\ Len(y) = Len(z) /\ k + 1 \in 1..Len(z)
      /\ \A j \in 1..Len(z) : j # k + 1 => y[j] = z[j]
      /\ y[k + 1] = token /\ z[k + 1] = Head(wire)
  BY <1>1, <1>3, StreamTake
<1> HIDE DEF k
<1>5. /\ Cardinality(Ragged(z)) \in Nat /\ Cardinality(Ragged(y)) \in Nat
      /\ Cardinality(Ragged(z)) <= faults
  BY <1>4, RaggedFinite DEF NoiseInv, z
<1>6. Cardinality(Ragged(y)) <= faults'
  <2>1. CASE token = Head(wire) /\ faults' = faults
    <3>1. \A j \in 1..Len(y) : y[j] = z[j]
      BY <1>4, <2>1
    <3>2. y = z
      BY <1>4, <3>1, SeqEqual
    <3> QED BY <1>5, <2>1, <3>2
  <2>2. CASE token # MARKER_START /\ faults' = faults + 1
    <3> DEFINE i == k + 1
    <3>1. i \in 1..Len(z) /\ (\A j \in 1..Len(z) : j # i => y[j] = z[j]) /\ y[i] # MARKER_START
      BY <1>4, <2>2
    <3> HIDE DEF i
    <3>2. Ragged(y) \subseteq Ragged(z) \cup {i + 1}
      BY ONLY <1>4, <3>1, RaggedReplaced
    <3>3. Cardinality(Ragged(y)) <= Cardinality(Ragged(z)) + 1
      BY ONLY <1>4, <3>2, OneMore
    <3> QED BY <1>1, <1>5, <2>2, <3>3
  <2> QED BY <1>2, <2>1, <2>2
<1> QED BY <1>6 DEF NoiseInv, y

LEMMA StreamLose ==
  ASSUME NEW r \in Seq(Token), NEW w \in Seq(Token), w # <<>>,
         NEW z, Joined(z, r, w), NEW y, Joined(y, r, Tail(w))
  PROVE  /\ z \in Seq(Token) /\ y \in Seq(Token) /\ Len(z) = Len(y) + 1 /\ Len(r) + 1 \in 1..Len(z)
         /\ \A j \in 1..Len(y) : y[j] = IF j < Len(r) + 1 THEN z[j] ELSE z[j + 1]
<1> DEFINE b == Tail(w)
           k == Len(r)
           n == Len(w)
<1>1. /\ k \in Nat /\ n \in Nat \ {0} /\ b \in Seq(Token) /\ Len(b) = n - 1
      /\ \A j \in 1..n - 1 : b[j] = w[j + 1]
  BY HeadTailProperties, LenProperties
<1>2. z \in Seq(Token) /\ Joined(y, r, b)
  BY JoinedType
<1> HIDE DEF b
<1>3. y \in Seq(Token)
  BY <1>1, <1>2, JoinedType
<1>4. Len(z) = k + n /\ \A j \in 1..k + n : z[j] = IF j <= k THEN r[j] ELSE w[j - k]
  <2> DEFINE c == r \o w
  <2>1. z = c
    BY DEF Joined
  <2>2. Len(c) = k + n /\ \A j \in 1..k + n : c[j] = IF j <= k THEN r[j] ELSE w[j - k]
    BY ONLY r \in Seq(Token), w \in Seq(Token), ConcatProperties
  <2> HIDE DEF c
  <2> QED BY <2>1, <2>2
<1>5. /\ Len(y) = k + (n - 1)
      /\ \A j \in 1..k + (n - 1) : y[j] = IF j <= k THEN r[j] ELSE b[j - k]
  <2> DEFINE c == r \o b
  <2>1. y = c
    BY <1>2 DEF Joined
  <2>2. Len(c) = k + Len(b) /\ \A j \in 1..k + Len(b) : c[j] = IF j <= k THEN r[j] ELSE b[j - k]
    BY ONLY <1>1, r \in Seq(Token), ConcatProperties
  <2> HIDE DEF c
  <2> QED BY <1>1, <2>1, <2>2
<1> HIDE DEF k, n
<1>6. ASSUME NEW j \in 1..Len(y) PROVE y[j] = IF j < k + 1 THEN z[j] ELSE z[j + 1]
  <2>1. j \in 1..k + (n - 1)
    BY <1>5
  <2>2. CASE j < k + 1
    <3>1. j <= k /\ j \in 1..k + n
      BY <1>1, <2>1, <2>2
    <3> QED BY <1>4, <1>5, <2>1, <2>2, <3>1
  <2>3. CASE ~(j < k + 1)
    <3>1. /\ ~(j <= k) /\ ~(j + 1 <= k) /\ j - k \in 1..n - 1 /\ (j - k) + 1 = (j + 1) - k
          /\ j + 1 \in 1..k + n
      BY <1>1, <2>1, <2>3
    <3> QED BY <1>1, <1>4, <1>5, <2>1, <2>3, <3>1
  <2> QED BY <2>2, <2>3
<1>7. Len(z) = Len(y) + 1 /\ k + 1 \in 1..Len(z)
  BY <1>1, <1>4, <1>5
<1> QED BY <1>2, <1>3, <1>6, <1>7 DEF k

LEMMA NoiseLose == ASSUME Inv, NoiseInv, Lose PROVE NoiseInv'
<1> DEFINE z == Stream
           y == Stream'
           i == Len(read) + 1
<1>1. /\ wire # <<>> /\ wire \in Seq(Token) /\ read \in Seq(Token)
      /\ faults' = faults + 1 /\ faults \in Nat
  BY ConsoleAssumption DEF Lose, Inv, TypeOK
<1>2. Joined(z, read, wire) /\ Joined(y, read, Tail(wire))
  BY DEF Lose, Stream, Joined
<1> HIDE DEF z, y
<1>3. /\ z \in Seq(Token) /\ y \in Seq(Token) /\ Len(z) = Len(y) + 1 /\ i \in 1..Len(z)
      /\ \A j \in 1..Len(y) : y[j] = IF j < i THEN z[j] ELSE z[j + 1]
  BY <1>1, <1>2, StreamLose
<1> HIDE DEF i
<1>4. Cardinality(Ragged(y)) <= Cardinality(Ragged(z)) + 1
  BY <1>3, RaggedDropped
<1>5. /\ Cardinality(Ragged(z)) \in Nat /\ Cardinality(Ragged(y)) \in Nat
      /\ Cardinality(Ragged(z)) <= faults
  BY <1>3, RaggedFinite DEF NoiseInv, z
<1>6. Cardinality(Ragged(y)) <= faults'
  BY <1>1, <1>4, <1>5
<1> QED BY <1>6 DEF NoiseInv, y

LEMMA RaggedEof ==
  ASSUME NEW s \in Seq(Token)
  PROVE  Ragged(Append(s, Eof)) \subseteq Ragged(s)
<1> DEFINE n == Len(s)
           y == Append(s, Eof)
<1>1. n \in Nat /\ Len(y) = n + 1 /\ y[n + 1] = Eof /\ \A j \in 1..n : y[j] = s[j]
  BY Markers, AppendProperties, LenProperties
<1> HIDE DEF y
<1> SUFFICES ASSUME NEW j \in Ragged(y) PROVE j \in Ragged(s)
  BY DEF y
<1>2. /\ j \in 2..n + 2 /\ y[j - 1] \notin {Newline, Eof}
      /\ j = n + 2 \/ y[j] = MARKER_START
  BY <1>1 DEF Ragged
<1> HIDE DEF n
<1>3. j # n + 2
  <2>1. (n + 2) - 1 = n + 1
    BY <1>1
  <2> QED BY <1>1, <1>2, <2>1
<1>4. j # n + 1
  BY <1>1, <1>2, <1>3, Markers
<1>5. j \in 1..n /\ j - 1 \in 1..n /\ j \in 2..n + 1
  BY <1>1, <1>2, <1>3, <1>4
<1> QED BY <1>1, <1>2, <1>3, <1>5 DEF Ragged, n

LEMMA NoisePoll == ASSUME Inv, NoiseInv, Poll PROVE NoiseInv'
<1>1. /\ wire = <<>> /\ wire' = <<>> /\ read \in Seq(Token) /\ faults' = faults
      /\ read' \in {read, Append(read, Eof)}
  BY DEF Poll, Inv, TypeOK
<1>2. read' \in Seq(Token)
  BY <1>1, Markers, AppendProperties
<1>3. Stream = read /\ Stream' = read'
  <2>1. \A s \in Seq(Token) : s \o <<>> = s
    BY ConcatEmptySeq
  <2> QED BY <1>1, <1>2, <2>1 DEF Stream
<1>4. Ragged(read') \subseteq Ragged(read)
  BY <1>1, RaggedEof
<1>5. /\ Cardinality(Ragged(read)) \in Nat /\ Cardinality(Ragged(read')) \in Nat
      /\ Cardinality(Ragged(read)) <= faults /\ faults \in Nat
  BY <1>1, <1>2, <1>3, ConsoleAssumption, RaggedFinite DEF NoiseInv, Inv, TypeOK
<1>6. Cardinality(Ragged(read')) <= Cardinality(Ragged(read))
  BY <1>1, <1>4, AtMostAsMany
<1>7. Cardinality(Ragged(read')) <= faults'
  BY <1>1, <1>5, <1>6
<1> QED BY <1>3, <1>7 DEF NoiseInv

LEMMA NoiseStep == ASSUME Inv, CleanInv, NoiseInv, [Next]_vars PROVE NoiseInv'
<1>1. CASE UNCHANGED vars \/ Open
  BY <1>1 DEF vars, Open, NoiseInv, Stream
<1>2. CASE Next
  BY <1>1, <1>2, NoiseHost, NoiseToken, NoiseLose, NoisePoll DEF Next
<1> QED BY <1>1, <1>2

LEMMA NoiseInit == Init => NoiseInv
<1> SUFFICES ASSUME Init PROVE NoiseInv
  OBVIOUS
<1>1. Stream = <<>> /\ faults = 0
  <2>1. \A s \in Seq(Token) : s \o <<>> = s
    BY ConcatEmptySeq
  <2>2. <<>> \in Seq(Token)
    BY Empty
  <2> QED BY <2>1, <2>2 DEF Init, Stream
<1>2. Ragged(<<>>) = {}
  <2>1. Len(<<>>) = 0
    OBVIOUS
  <2> QED BY <2>1 DEF Ragged
<1>3. Cardinality(Ragged(Stream)) = 0
  BY <1>1, <1>2, FS_EmptySet
<1> QED BY <1>1, <1>3 DEF NoiseInv

(* The damage does not spread: whatever is lost, damaged or cut short, it  *)
(* costs at most one packet apiece that itself arrives unchanged           *)
(* (Decoder::push_line, the line buffer of Server::serve).                 *)
THEOREM DamageTheorem == Spec => []DamageIsLocal
<1>1. ASSUME Inv, CleanInv, NoiseInv PROVE DamageIsLocal
  <2> DEFINE D == {t \in 1..Len(sent) :
                     Arrived(t) /\ \A k \in 1..Len(delivered) : delivered[k] # t}
             at(t) == CHOOSE a \in 1..Len(read) : ArrivedAt(t, a)
             f == [t \in D |-> at(t)]
  <2>1. \A t \in D : t \in 1..Len(sent) /\ ~Got(t) /\ at(t) \in 1..Len(read) /\ ArrivedAt(t, at(t))
    BY DEF Arrived, Got
  <2> HIDE DEF D, at
  <2>2. \A t \in D : /\ at(t) \in Nat \ {0} /\ read[at(t)] = MARKER_START
                     /\ read[at(t) + 1] = Piece(t, 1) /\ ~Fresh(read, at(t))
    BY <1>1, <2>1, ArrivedPieces, ArrivedGot
  <2>3. Stream \in Seq(Token) /\ read \in Seq(Token) /\ wire \in Seq(Token)
    BY <1>1, StreamType DEF Inv
  <2>4. /\ Len(Stream) \in Nat /\ Len(read) \in Nat /\ Len(read) <= Len(Stream)
        /\ \A j \in 1..Len(read) : Stream[j] = read[j]
    <3> DEFINE c == read \o wire
    <3>1. /\ Len(c) = Len(read) + Len(wire)
          /\ \A j \in 1..Len(read) + Len(wire) :
               c[j] = IF j <= Len(read) THEN read[j] ELSE wire[j - Len(read)]
      BY <2>3, ConcatProperties
    <3>2. Stream = c
      BY DEF Stream
    <3>3. Len(read) \in Nat /\ Len(wire) \in Nat
      BY <2>3, LenProperties
    <3> HIDE DEF c
    <3>4. \A j \in 1..Len(read) : j \in 1..Len(read) + Len(wire) /\ j <= Len(read)
      BY <3>3
    <3> QED BY <3>1, <3>2, <3>3, <3>4
  <2>5. ASSUME NEW t \in D PROVE at(t) \in Ragged(Stream)
    <3> DEFINE a == at(t)
    <3>1. a \in 1..Len(read) /\ a # 1 /\ read[a] = MARKER_START /\ read[a - 1] \notin {Newline, Eof}
      BY <2>1, <2>2 DEF Fresh
    <3> HIDE DEF a
    <3>2. a \in 2..Len(Stream) + 1 /\ a - 1 \in 1..Len(read)
      BY <2>4, <3>1
    <3>3. a \in Ragged(Stream)
      BY <2>4, <3>1, <3>2 DEF Ragged
    <3> QED BY <3>3 DEF a
  <2>6. \A t, u \in D : at(t) = at(u) => t = u
    BY <2>2, PieceSame
  <2>7. f \in Injection(D, Ragged(Stream))
    BY <2>5, <2>6 DEF Injection, IsInjective
  <2>8. IsFiniteSet(D) /\ Cardinality(D) <= Cardinality(Ragged(Stream))
    BY <2>3, <2>7, RaggedFinite, FS_Injection
  <2>9. /\ Cardinality(D) \in Nat /\ Cardinality(Ragged(Stream)) \in Nat /\ faults \in Nat
        /\ Cardinality(Ragged(Stream)) <= faults
    BY <1>1, <2>3, <2>8, RaggedFinite, FS_CardinalityType, ConsoleAssumption DEF NoiseInv, Inv, TypeOK
  <2>10. Cardinality(D) <= faults
    BY <2>8, <2>9
  <2> QED BY <2>10 DEF DamageIsLocal, D
<1> QED BY <1>1, InitInv, CleanInit, NoiseInit, Step, CleanStep, NoiseStep, PTL DEF Spec
=============================================================================
