------------------------------ MODULE Console ------------------------------
(***************************************************************************)
(* The SMP console framing on its way to a board (runtt-mock/src/codec.rs  *)
(* and the reading half of Server::serve): packets written as lines, a     *)
(* link that loses and damages what is on it, hosts that die in the middle *)
(* of a packet, and the board's line buffer and Decoder.                   *)
(*                                                                         *)
(* A line is a marker, a piece of base64 text and a newline, one token     *)
(* each.  Every line but the last is filled, so that the pieces decode one *)
(* by one and only the last piece of a packet may carry padding.           *)
(***************************************************************************)
EXTENDS Naturals, Sequences, FiniteSets

CONSTANTS Packets,    \* records [lines, padded]: shapes of packets
          EofReaches, \* BOOLEAN: the board's end of the link tells that no host has it open
          MaxSent,    \* bound: packets written
          MaxFaults   \* bound: tokens lost or damaged, and hosts killed

ASSUME ConsoleAssumption ==
  /\ Packets \subseteq [lines : Nat \ {0}, padded : BOOLEAN]
  /\ EofReaches \in BOOLEAN /\ MaxSent \in Nat /\ MaxFaults \in Nat

VARIABLES
  sent,      \* history: the shapes of the packets written, also those cut short
  wire,      \* tokens on their way
  host,      \* "up", or "gone" between two processes that use the port
  line,      \* serve's line
  acc,       \* Decoder.acc
  in_packet, \* Decoder.in_packet
  delivered, \* history: the packets that push_line returned
  read,      \* history: the tokens read, as they arrived, and ends of file
  polled,    \* history: the board has read once since the host left
  firsts,    \* history: first packets of hosts that came after that
  faults

boardVars == <<line, acc, in_packet>>
vars == <<sent, wire, host, boardVars, delivered, read, polled, firsts, faults>>

(* "piece" is the i-th piece of the t-th packet; "wrong" decodes, but to   *)
(* other bytes; "x" is anything that is no base64.                         *)
Token == [tag : {"start", "cont", "newline", "piece", "wrong", "x", "eof"}, t : Nat, i : Nat]

Mark(tag) == [tag |-> tag, t |-> 0, i |-> 0]
Piece(t, i) == [tag |-> "piece", t |-> t, i |-> i]

MARKER_START == Mark("start")
MARKER_CONT == Mark("cont")
Newline == Mark("newline")
Eof == Mark("eof")

\* Each line but the first is a continuation.
encode(t, n) ==
  [k \in 1..3 * n |->
     CASE k % 3 = 1 -> IF k = 1 THEN MARKER_START ELSE MARKER_CONT
       [] k % 3 = 2 -> Piece(t, (k + 1) \div 3)
       [] OTHER -> Newline]

TypeOK ==
  /\ sent \in Seq(Packets) /\ wire \in Seq(Token) /\ host \in {"up", "gone"}
  /\ line \in Seq(Token) /\ acc \in Seq(Token) /\ in_packet \in BOOLEAN
  /\ delivered \in Seq(1..Len(sent)) /\ read \in Seq(Token)
  /\ polled \in BOOLEAN /\ firsts \subseteq 1..Len(sent) + 1 /\ faults \in 0..MaxFaults

Init ==
  /\ sent = <<>> /\ wire = <<>> /\ host = "up"
  /\ line = <<>> /\ acc = <<>> /\ in_packet = FALSE
  /\ delivered = <<>> /\ read = <<>> /\ polled = FALSE /\ firsts = {} /\ faults = 0

-----------------------------------------------------------------------------
(* Hosts *)

Write(p) ==
  /\ host = "up" /\ Len(sent) < MaxSent
  /\ sent' = Append(sent, p) /\ wire' = wire \o encode(Len(sent'), p.lines)
  /\ UNCHANGED <<host, boardVars, delivered, read, polled, firsts, faults>>

\* The host is killed with n tokens of a packet written, or between packets.
Killed(p, n) ==
  /\ host = "up" /\ Len(sent) < MaxSent /\ faults < MaxFaults /\ n < 3 * p.lines
  /\ sent' = Append(sent, p) /\ wire' = wire \o SubSeq(encode(Len(sent'), p.lines), 1, n)
  /\ host' = "gone" /\ polled' = FALSE /\ faults' = faults + 1
  /\ UNCHANGED <<boardVars, delivered, read, firsts>>

\* The next host opens the port, maybe at once.
Open ==
  /\ host = "gone"
  /\ host' = "up" /\ firsts' = IF polled THEN firsts \cup {Len(sent) + 1} ELSE firsts
  /\ UNCHANGED <<sent, wire, boardVars, delivered, read, polled, faults>>

-----------------------------------------------------------------------------
(* The board *)

\* Text that is no base64, or has padding before its end.
Undecodable(text) ==
  \E k \in 1..Len(text) :
    \/ text[k].tag \notin {"piece", "wrong"}
    \/ /\ text[k].tag = "piece" /\ k < Len(text)
       /\ sent[text[k].t].padded /\ text[k].i = sent[text[k].t].lines

\* The declared length is there and the CRC holds; what follows is ignored.
Whole(text, t) ==
  /\ sent[t].lines <= Len(text)
  /\ \A i \in 1..sent[t].lines : text[i] = Piece(t, i)

Begun(text, t) ==
  /\ Len(text) < sent[t].lines
  /\ \A i \in 1..Len(text) : text[i] = Piece(t, i)

\* Mutant: a packet that is complete stays open.
AssembledStays(text) ==
  IF Undecodable(text) \/ (\E t \in 1..Len(sent) : Begun(text, t))
  THEN in_packet' = TRUE /\ UNCHANGED delivered
  ELSE \/ \E t \in 1..Len(sent) :
            Whole(text, t) /\ delivered' = Append(delivered, t) /\ in_packet' = TRUE
       \/ /\ \A t \in 1..Len(sent) : ~Whole(text, t)
          /\ in_packet' \in BOOLEAN /\ UNCHANGED delivered

(* The second half of push_line.  A mixture of packets decodes to whatever *)
(* length its first bytes declare: it either waits for more or is dropped  *)
(* because of its CRC, which is taken to tell every mixture from a packet. *)
Assembled(text) ==
  IF Undecodable(text) \/ (\E t \in 1..Len(sent) : Begun(text, t))
  THEN in_packet' = TRUE /\ UNCHANGED delivered
  ELSE \/ \E t \in 1..Len(sent) :
            Whole(text, t) /\ delivered' = Append(delivered, t) /\ in_packet' = FALSE
       \/ /\ \A t \in 1..Len(sent) : ~Whole(text, t)
          /\ in_packet' \in BOOLEAN /\ UNCHANGED delivered

\* Mutant: a start marker inside a packet is taken for one of its lines.
push_line_NoRestart(text) ==
  CASE text # <<>> /\ Head(text) = MARKER_START ->
         acc' = (IF in_packet THEN acc ELSE <<>>) \o Tail(text) /\ Assembled(acc')
    [] text # <<>> /\ Head(text) = MARKER_CONT /\ in_packet ->
         acc' = acc \o Tail(text) /\ Assembled(acc')
    [] OTHER -> UNCHANGED <<acc, in_packet, delivered>>

(* Decoder::push_line: a start marker drops what was being assembled, a    *)
(* continuation without start and any other line are skipped.              *)
push_line(text) ==
  CASE text # <<>> /\ Head(text) = MARKER_START ->
         acc' = Tail(text) /\ Assembled(acc')
    [] text # <<>> /\ Head(text) = MARKER_CONT /\ in_packet ->
         acc' = acc \o Tail(text) /\ Assembled(acc')
    [] OTHER -> UNCHANGED <<acc, in_packet, delivered>>

\* Mutant: a line that is dropped stays in the buffer.
TakeKeepsDropped(token) ==
  /\ read' = Append(read, token)
  /\ IF token # Newline
     THEN line' = Append(line, token) /\ UNCHANGED <<acc, in_packet, delivered>>
     ELSE push_line(line) /\ line' = IF acc' = acc THEN line ELSE <<>>

\* serve takes a byte: to the line, or, at a newline, the line to the decoder.
Take(token) ==
  /\ read' = Append(read, token)
  /\ IF token # Newline
     THEN line' = Append(line, token) /\ UNCHANGED <<acc, in_packet, delivered>>
     ELSE line' = <<>> /\ push_line(line)

Read ==
  /\ wire # <<>>
  /\ wire' = Tail(wire) /\ Take(Head(wire))
  /\ UNCHANGED <<sent, host, polled, firsts, faults>>

\* A token is lost on the link.
Lose ==
  /\ wire # <<>> /\ faults < MaxFaults
  /\ wire' = Tail(wire) /\ faults' = faults + 1
  /\ UNCHANGED <<sent, host, boardVars, delivered, read, polled, firsts>>

\* Or it is damaged; text may still decode, to something else.
Garble ==
  /\ wire # <<>> /\ faults < MaxFaults
  /\ wire' = Tail(wire) /\ faults' = faults + 1
  /\ \E tag \in {"x"} \cup (IF Head(wire).tag = "piece" THEN {"wrong"} ELSE {}) : Take(Mark(tag))
  /\ UNCHANGED <<sent, host, polled, firsts>>

(* A read with nothing pending and no host: end of file, or, while another *)
(* process keeps the port open, a timeout.                                 *)
Poll ==
  /\ wire = <<>> /\ host = "gone" /\ ~polled
  /\ IF EofReaches
     THEN line' = <<>> /\ acc' = <<>> /\ in_packet' = FALSE /\ read' = Append(read, Eof)
     ELSE UNCHANGED <<boardVars, read>>
  /\ polled' = TRUE
  /\ UNCHANGED <<sent, wire, host, delivered, firsts, faults>>

Next ==
  \/ \E p \in Packets : Write(p) \/ \E n \in 0..3 * p.lines - 1 : Killed(p, n)
  \/ Open \/ Read \/ Lose \/ Garble \/ Poll

Spec == Init /\ [][Next]_vars

-----------------------------------------------------------------------------
(* Properties *)

\* Packet t has arrived whole and unchanged, from the a-th token read.
ArrivedAt(t, a) ==
  LET size == 3 * sent[t].lines IN
  a + size - 1 <= Len(read) /\ SubSeq(read, a, a + size - 1) = encode(t, sent[t].lines)

Arrived(t) == \E a \in 1..Len(read) : ArrivedAt(t, a)

(* Whatever came before, a packet that arrives unchanged and begins on a   *)
(* line of its own is delivered: an interrupted packet, a stray            *)
(* continuation or rubbish in front of it never gets in its way.           *)
CleanIsDelivered ==
  \A a \in 1..Len(read), t \in 1..Len(sent) :
    /\ a = 1 \/ read[a - 1] \in {Newline, Eof}
    /\ ArrivedAt(t, a)
    => \E k \in 1..Len(delivered) : delivered[k] = t

(* A packet is acted on once, and packets are acted on in the order they   *)
(* were written: no request is run again because of lines that follow it.  *)
DeliveredOnceInOrder == \A j, k \in 1..Len(delivered) : j < k => delivered[j] < delivered[k]

(* The damage does not spread: each loss, each damaged byte and each host  *)
(* killed in the middle costs at most one packet that itself arrived       *)
(* unchanged, so that a repeated request gets through.                     *)
DamageIsLocal ==
  Cardinality({t \in 1..Len(sent) : Arrived(t) /\ \A k \in 1..Len(delivered) : delivered[k] # t})
    <= faults

(* "Host went away. Drop any half-assembled packet so the next client      *)
(* starts clean" (Server::serve): the first packet of a host that comes    *)
(* after the board has waited for one is delivered if it arrives.  It is   *)
(* not so where another process keeps the port open (~EofReaches).         *)
NextClientStartsClean ==
  \A t \in firsts : t <= Len(sent) /\ Arrived(t) => \E k \in 1..Len(delivered) : delivered[k] = t
=============================================================================
