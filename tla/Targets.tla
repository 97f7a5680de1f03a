------------------------------ MODULE Targets ------------------------------
(***************************************************************************)
(* From a placement label to device nodes (runtt-transport/src/resolve.rs  *)
(* and lib.rs): the udev tree, the scan of sysfs with its separate reads,  *)
(* and the choice among what was found, while boards come and go one tty   *)
(* at a time and udev follows later.  Occupancy takes a label to lead to   *)
(* its board's node in one step.                                           *)
(***************************************************************************)
EXTENDS Naturals, Sequences, FiniteSets

CONSTANTS
  Boards,
  Port, Serial, Shape, \* of each board: its port path, its serial, and "dual" or "single"
  Nodes,               \* names the kernel gives to ttys
  Labels,              \* records [kind, of]: usb:<port> or usb:<serial>
  Selectors,           \* what may follow "usb:", as sequences of characters
  HasTree,             \* BOOLEAN: the udev rules are installed
  None,                \* Option::None, and no node, no tty
  MaxMoves             \* bound: times a board is plugged or unplugged

IFACE_MGMT == "runtt-mgmt"
IFACE_LOG == "runtt-log"

Ifaces(b) == IF Shape[b] = "dual" THEN {IFACE_MGMT, IFACE_LOG} ELSE {None}
Ttys == UNION {{[board |-> b, iface |-> i] : i \in Ifaces(b)} : b \in Boards}
LinkNames == [board : {b \in Boards : Shape[b] = "dual"}, iface : {IFACE_MGMT, IFACE_LOG}]

\* A link that is followed; a candidate none, one or two of whose fields have been read.
Entries ==
  LET ports == {Port[b] : b \in Boards} \cup {None}
      ifaces == {IFACE_MGMT, IFACE_LOG, None}
  IN [link : LinkNames, dev : Nodes] \cup [dev : Nodes, read : {0}]
     \cup [dev : Nodes, read : {1}, port : ports]
     \cup [dev : Nodes, read : {2}, port : ports, iface : ifaces]

\* Every board is at a port of its own; serials may be missing or repeated.
ASSUME TargetsAssumption ==
  /\ IsFiniteSet(Boards) /\ Shape \in [Boards -> {"dual", "single"}]
  /\ \A b \in Boards : Port[b] # None
  /\ \A b, c \in Boards : Port[b] = Port[c] => b = c
  /\ \A l \in Labels : l.kind \in {"port", "serial"} /\ l.of # None
  /\ Selectors \subseteq Seq({"d", "-", ".", "c"})   \* a digit, two marks, any other
  /\ HasTree \in BOOLEAN /\ MaxMoves \in Nat
  /\ None \notin Nodes \cup Nat /\ None \notin {IFACE_MGMT, IFACE_LOG}
  /\ None \notin Ttys /\ None \notin Entries

VARIABLES
  plugged,  \* boards that are plugged in, or are becoming so
  tty,      \* what each node stands for, [board, iface], or None
  links,    \* udev's links: the node under each board's -mgmt and -log name
  moves,
  pc,       \* resolve: "idle", "tree", "scan" or "done"
  label,
  todo,     \* names or links that are still to be looked at
  cur,      \* the entry being looked at, with what has been read of it
  found,    \* from_udev_tree's mgmt and log; then what resolve returns
  cands,    \* candidates of the scan
  quiet,    \* history: nothing has moved, nothing was half there, since it began
  owners    \* history: the boards each node has belonged to since it began

worldVars == <<plugged, tty, links, moves>>
vars == <<worldVars, pc, label, todo, cur, found, cands, quiet, owners>>

Unresolved == [ok |-> FALSE, mgmt |-> None, log |-> None]

TypeOK ==
  /\ plugged \subseteq Boards /\ moves \in 0..MaxMoves
  /\ tty \in [Nodes -> Ttys \cup {None}]
  /\ links \in [LinkNames -> Nodes \cup {None}]
  /\ pc \in {"idle", "tree", "scan", "done"}
  /\ todo \subseteq Nodes \cup LinkNames
  /\ found \in [ok : BOOLEAN, mgmt : Nodes \cup {None}, log : Nodes \cup {None}]
  /\ \A c \in cands : c.dev \in Nodes
  /\ \A c, d \in cands : c.dev = d.dev => c = d
  /\ quiet \in BOOLEAN /\ owners \in [Nodes -> SUBSET Boards]

NodeOf(b, i) ==
  IF \E n \in Nodes : tty[n] = [board |-> b, iface |-> i]
  THEN CHOOSE n \in Nodes : tty[n] = [board |-> b, iface |-> i]
  ELSE None

\* No board is half there, and udev has caught up.
Settled ==
  /\ \A b \in Boards, i \in {IFACE_MGMT, IFACE_LOG, None} :
       NodeOf(b, i) # None <=> b \in plugged /\ i \in Ifaces(b)
  /\ \A l \in LinkNames : links[l] = NodeOf(l.board, l.iface)

Init ==
  /\ plugged \in SUBSET Boards /\ moves = 0
  /\ tty \in {f \in [Nodes -> Ttys \cup {None}] :
       /\ \A t \in Ttys : (t.board \in plugged) <=> (\E n \in Nodes : f[n] = t)
       /\ \A n, m \in Nodes : f[n] = f[m] /\ f[n] # None => n = m}
  /\ links = [l \in LinkNames |-> NodeOf(l.board, l.iface)]
  /\ pc = "idle" /\ label = None /\ todo = {} /\ cur = None
  /\ found = Unresolved /\ cands = {} /\ quiet = TRUE /\ owners = [n \in Nodes |-> {}]

-----------------------------------------------------------------------------
(* Boards, the kernel and udev *)

Plug(b) ==
  /\ moves < MaxMoves /\ moves' = moves + 1
  /\ plugged' = IF b \in plugged THEN plugged \ {b} ELSE plugged \cup {b}
  /\ quiet' = FALSE
  /\ UNCHANGED <<tty, links, pc, label, todo, cur, found, cands, owners>>

\* The ttys of a board appear and go one at a time.
Appear(b, i, n) ==
  /\ b \in plugged /\ i \in Ifaces(b) /\ NodeOf(b, i) = None /\ tty[n] = None
  /\ tty' = [tty EXCEPT ![n] = [board |-> b, iface |-> i]]
  /\ owners' = [owners EXCEPT ![n] = @ \cup {b}] /\ quiet' = FALSE
  /\ UNCHANGED <<plugged, links, moves, pc, label, todo, cur, found, cands>>

Vanish(n) ==
  /\ tty[n] # None /\ tty[n].board \notin plugged
  /\ tty' = [tty EXCEPT ![n] = None] /\ quiet' = FALSE
  /\ UNCHANGED <<plugged, links, moves, pc, label, todo, cur, found, cands, owners>>

Follow(l) ==
  /\ links[l] # NodeOf(l.board, l.iface)
  /\ links' = [links EXCEPT ![l] = NodeOf(l.board, l.iface)] /\ quiet' = FALSE
  /\ UNCHANGED <<plugged, tty, moves, pc, label, todo, cur, found, cands, owners>>

-----------------------------------------------------------------------------
(* What a label names, and what sysfs says of a node *)

Names(l, b) == IF l.kind = "port" THEN Port[b] = l.of ELSE Serial[b] = l.of

tty_port_path(n) == IF tty[n] = None THEN None ELSE Port[tty[n].board]
tty_interface(n) == IF tty[n] = None THEN None ELSE tty[n].iface
tty_serial(n) == IF tty[n] = None THEN None ELSE Serial[tty[n].board]

-----------------------------------------------------------------------------
(* resolve *)

Begin(l) ==
  /\ pc = "idle"
  /\ label' = l /\ quiet' = Settled
  /\ owners' = [n \in Nodes |-> IF tty[n] = None THEN {} ELSE {tty[n].board}]
  /\ IF l.kind = "port" /\ HasTree
     THEN pc' = "tree" /\ todo' = LinkNames
     ELSE pc' = "scan" /\ todo' = Nodes
  /\ UNCHANGED <<worldVars, cur, found, cands>>

\* from_udev_tree: a link is followed to a node that is there.
FollowLink ==
  /\ pc = "tree" /\ cur = None
  /\ \E l \in todo :
       /\ todo' = todo \ {l}
       /\ cur' = IF links[l] # None /\ tty[links[l]] # None
                 THEN [link |-> l, dev |-> links[l]] ELSE None
  /\ UNCHANGED <<worldVars, pc, label, found, cands, quiet, owners>>

\* Then the port of that node is read from sysfs.
CheckLink ==
  /\ pc = "tree" /\ cur # None /\ cur' = None
  /\ found' = IF tty_port_path(cur.dev) # label.of THEN found
              ELSE IF cur.link.iface = IFACE_MGMT THEN [found EXCEPT !.mgmt = cur.dev]
              ELSE [found EXCEPT !.log = cur.dev]
  /\ UNCHANGED <<worldVars, pc, label, todo, cands, quiet, owners>>

\* Without a -mgmt link for the port the scan decides.
TreeDone ==
  /\ pc = "tree" /\ todo = {} /\ cur = None
  /\ IF found.mgmt # None
     THEN pc' = "done" /\ found' = [found EXCEPT !.ok = TRUE] /\ UNCHANGED todo
     ELSE pc' = "scan" /\ found' = Unresolved /\ todo' = Nodes
  /\ UNCHANGED <<worldVars, label, cur, cands, quiet, owners>>

\* scan_ttys: each name of the directory once, if its node exists.
Visit ==
  /\ pc = "scan" /\ cur = None
  /\ \E n \in todo :
       /\ todo' = todo \ {n}
       /\ cur' = IF tty[n] = None THEN None ELSE [dev |-> n, read |-> 0]
  /\ UNCHANGED <<worldVars, pc, label, found, cands, quiet, owners>>

\* Candidate's fields are read one after the other.
ReadPort ==
  /\ pc = "scan" /\ cur # None /\ cur.read = 0
  /\ cur' = [dev |-> cur.dev, read |-> 1, port |-> tty_port_path(cur.dev)]
  /\ UNCHANGED <<worldVars, pc, label, todo, found, cands, quiet, owners>>

ReadInterface ==
  /\ pc = "scan" /\ cur # None /\ cur.read = 1
  /\ cur' = [dev |-> cur.dev, read |-> 2, port |-> cur.port, iface |-> tty_interface(cur.dev)]
  /\ UNCHANGED <<worldVars, pc, label, todo, found, cands, quiet, owners>>

ReadSerial ==
  /\ pc = "scan" /\ cur # None /\ cur.read = 2 /\ cur' = None
  /\ cands' = cands \cup {[dev |-> cur.dev, port |-> cur.port, iface |-> cur.iface,
                           serial |-> tty_serial(cur.dev)]}
  /\ UNCHANGED <<worldVars, pc, label, todo, found, quiet, owners>>

\* Mutant: a board without a matching label will do if it is the only one.
MatchingOrOnly ==
  LET m == {c \in cands : (IF label.kind = "port" THEN c.port ELSE c.serial) = label.of}
  IN IF m = {} THEN cands ELSE m

Matching == {c \in cands : (IF label.kind = "port" THEN c.port ELSE c.serial) = label.of}

\* Mutant: two boards under one serial are not told apart.
AmbiguousNever == FALSE

\* "Two boards answering to one serial is a provisioning mistake".
Ambiguous ==
  label.kind = "serial" /\ \E c, d \in Matching : {c.port, d.port} \cap {None} = {} /\ c.port # d.port

\* The first candidate with the interface, in the order of the directory.
FirstWith(i) ==
  IF \E c \in Matching : c.iface = i THEN {c.dev : c \in {d \in Matching : d.iface = i}} ELSE {None}

Choose ==
  /\ pc = "scan" /\ todo = {} /\ cur = None
  /\ pc' = "done"
  /\ \/ /\ Matching = {} \/ Ambiguous
        /\ found' = Unresolved
     \/ /\ Matching # {} /\ ~Ambiguous
        /\ \E m \in FirstWith(IFACE_MGMT), l \in FirstWith(IFACE_LOG) :
             found' =
               IF m # None THEN [ok |-> TRUE, mgmt |-> m, log |-> l]
               ELSE IF Cardinality(Matching) = 1
               THEN [ok |-> TRUE, mgmt |-> (CHOOSE c \in Matching : TRUE).dev, log |-> None]
               ELSE Unresolved
  /\ UNCHANGED <<worldVars, label, todo, cur, cands, quiet, owners>>

Next ==
  \/ \E b \in Boards : Plug(b)
  \/ \E b \in Boards, i \in {IFACE_MGMT, IFACE_LOG, None}, n \in Nodes : Appear(b, i, n)
  \/ \E n \in Nodes : Vanish(n)
  \/ \E l \in LinkNames : Follow(l)
  \/ \E l \in Labels : Begin(l)
  \/ FollowLink \/ CheckLink \/ TreeDone
  \/ Visit \/ ReadPort \/ ReadInterface \/ ReadSerial \/ Choose

Spec == Init /\ [][Next]_vars

-----------------------------------------------------------------------------
(* A port path or a serial, by shape: characters are "d" for a digit, "-", *)
(* "." and "c" for any other.                                              *)

Digits(s) == s # <<>> /\ \A i \in 1..Len(s) : s[i] = "d"

\* Mutant: whatever follows the first hyphen is taken for ports.
is_port_path_Loose(s) ==
  \E k \in 1..Len(s) :
    /\ s[k] = "-" /\ \A j \in 1..k - 1 : s[j] # "-"
    /\ Digits(SubSeq(s, 1, k - 1)) /\ k < Len(s)

\* split_once('-'), then split('.').
is_port_path(s) ==
  \E k \in 1..Len(s) :
    /\ s[k] = "-" /\ \A j \in 1..k - 1 : s[j] # "-"
    /\ Digits(SubSeq(s, 1, k - 1)) /\ k < Len(s)
    /\ \A a, b \in k..Len(s) + 1 :
         /\ a < b /\ (a = k \/ s[a] = ".") /\ (b = Len(s) + 1 \/ s[b] = ".")
         /\ \A j \in a + 1..b - 1 : s[j] # "."
         => Digits(SubSeq(s, a + 1, b - 1))

-----------------------------------------------------------------------------
(* Properties *)

\* Where a label should lead: to the board's two nodes, to its only one, or to an error.
Expected ==
  LET named == {b \in plugged : Names(label, b)}
      b == CHOOSE x \in named : TRUE
  IN IF Cardinality(named) # 1 THEN Unresolved
     ELSE IF Shape[b] = "dual"
     THEN [ok |-> TRUE, mgmt |-> NodeOf(b, IFACE_MGMT), log |-> NodeOf(b, IFACE_LOG)]
     ELSE [ok |-> TRUE, mgmt |-> NodeOf(b, None), log |-> None]

(* On a bus where nothing moves, a label leads to its board and to no      *)
(* other: by port and by serial to the same nodes, whether the udev tree   *)
(* or the scan finds them, and to an error if two boards have the serial.  *)
(* Occupancy rests on it: two labels of one board get one lock key.        *)
SettledMeansRight == pc = "done" /\ quiet => found = Expected

(* Whatever moves between the reads, a node that is returned has belonged  *)
(* to a board with that label while resolve was at work.                   *)
OnlyTheNamedBoards ==
  pc = "done" /\ found.ok =>
    \A n \in {found.mgmt, found.log} \ {None} : \E b \in owners[n] : Names(label, b)

(* "no interface strings: a single-channel target": a tty that says it is  *)
(* the log channel is not taken for the management channel.                *)
LogNeverManages == \A c \in cands : pc = "done" /\ found.ok /\ found.mgmt = c.dev => c.iface # IFACE_LOG

(* <bus>-<port>[.<port>]*: digits, one hyphen, dots only behind it, and    *)
(* each mark between two digits.                                           *)
PortShape(s) ==
  \E k \in 1..Len(s) :
    /\ s[k] = "-"
    /\ \A i \in 1..Len(s) :
         \/ s[i] = "d"
         \/ /\ i = k \/ (i > k /\ s[i] = ".")
            /\ i > 1 /\ i < Len(s) /\ s[i - 1] = "d" /\ s[i + 1] = "d"

(* A usb: label is read as a port path exactly if it has the shape of one, *)
(* so that a serial is never taken for a position nor a position for a     *)
(* serial (is_port_path, which splits at the hyphen and then at the dots). *)
SelectorsByShape ==
  pc = "idle" /\ moves = 0 => \A s \in Selectors : is_port_path(s) <=> PortShape(s)
=============================================================================
