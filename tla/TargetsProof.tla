---------------------------- MODULE TargetsProof ----------------------------
(***************************************************************************)
(* A label never leads to a board that does not carry it, for any boards,  *)
(* ttys and links, and however they move between the reads of resolve;     *)
(* when they do not move, it leads to the one board that carries it.       *)
(***************************************************************************)
EXTENDS Targets, FiniteSetTheorems, WellFoundedInduction, TLAPS

\* Where resolve is, and what it still has to look at.
WorkInv ==
  /\ pc = "idle" => cur = None /\ cands = {} /\ found = Unresolved
  /\ pc # "idle" => label \in Labels
  /\ pc = "tree" => label.kind = "port" /\ todo \subseteq LinkNames /\ cands = {}
  /\ pc = "tree" /\ cur # None => cur.dev \in Nodes
  /\ pc = "scan" => todo \subseteq Nodes /\ found = Unresolved
  /\ pc = "scan" => \A c \in cands : c.dev \notin todo
  /\ pc = "scan" /\ cur # None =>
       cur.dev \in Nodes /\ cur.dev \notin todo /\ \A c \in cands : c.dev # cur.dev

\* A board that had the node had this port, or this serial.
HadPort(n, p) == p = None \/ \E b \in owners[n] : Port[b] = p
HadSerial(n, s) == s = None \/ \E b \in owners[n] : Serial[b] = s
Had(n) == n = None \/ \E b \in owners[n] : Names(label, b)

(* What has been read was true when it was read, and owners keeps what was *)
(* true, so nothing that moves later takes it back.                        *)
SeenInv ==
  /\ pc # "idle" => \A n \in Nodes : tty[n] # None => tty[n].board \in owners[n]
  /\ pc = "scan" /\ cur # None /\ cur.read \in {1, 2} => HadPort(cur.dev, cur.port)
  /\ \A c \in cands : HadPort(c.dev, c.port) /\ HadSerial(c.dev, c.serial)
  /\ pc \in {"tree", "done"} => Had(found.mgmt) /\ Had(found.log)

Inv == TypeOK /\ WorkInv /\ SeenInv

\* A tty has one node.
OneNode == \A n, m \in Nodes : tty[n] = tty[m] /\ tty[n] # None => n = m

\* What the scan makes of a tty that stays.
CandidateOf(n) ==
  [dev |-> n, port |-> Port[tty[n].board], iface |-> tty[n].iface,
   serial |-> Serial[tty[n].board]]

\* The board that is looked for has this link.
Wanted(l, i) == l.iface = i /\ Port[l.board] = label.of

(* from_udev_tree where nothing moves: d, its answer so far for interface  *)
(* i, is the wanted link's node unless that is yet to be looked at, and no *)
(* other.                                                                  *)
TreeHas(d, i) ==
  /\ \A l \in LinkNames : Wanted(l, i) /\ links[l] # None =>
       d = links[l] \/ l \in todo \/ (cur # None /\ cur.link = l)
  /\ d # None => \E l \in LinkNames : Wanted(l, i) /\ links[l] = d

TreeQuiet ==
  /\ cur # None =>
       cur.link \in LinkNames /\ cur.link \notin todo /\ cur.dev = links[cur.link] /\ cur.dev # None
  /\ TreeHas(found.mgmt, IFACE_MGMT) /\ TreeHas(found.log, IFACE_LOG)

(* scan_ttys where nothing moves: the candidates are the ttys that have    *)
(* been looked at, each as it is.                                          *)
ScanQuiet ==
  /\ cur # None =>
       /\ cur \in Entries /\ tty[cur.dev] # None /\ cur.read \in 0..2
       /\ cur.read # 0 => cur.port = Port[tty[cur.dev].board]
       /\ cur.read = 2 => cur.iface = tty[cur.dev].iface
  /\ \A c \in cands : tty[c.dev] # None /\ c = CandidateOf(c.dev)
  /\ \A n \in Nodes :
       tty[n] # None => n \in todo \/ (cur # None /\ cur.dev = n) \/ CandidateOf(n) \in cands

QuietInv ==
  pc # "idle" /\ quiet =>
    /\ Settled
    /\ pc = "tree" => TreeQuiet
    /\ pc = "scan" => ScanQuiet
    /\ pc = "done" => found = Expected

-----------------------------------------------------------------------------

LEMMA InitInv == Init => Inv
<1> SUFFICES ASSUME Init PROVE Inv
  OBVIOUS
<1> USE TargetsAssumption DEF Init, Unresolved
<1>1. \A b, i : NodeOf(b, i) \in Nodes \cup {None}
  BY DEF NodeOf
<1>2. TypeOK
  BY <1>1 DEF TypeOK
<1>3. WorkInv /\ SeenInv
  BY DEF WorkInv, SeenInv
<1> QED BY <1>2, <1>3 DEF Inv

\* What moves on the bus leaves what has been read alone.
LEMMA WorldKeeps ==
  ASSUME Inv, owners' \in [Nodes -> SUBSET Boards],
         \A n \in Nodes : owners[n] \subseteq owners'[n],
         \A n \in Nodes : tty'[n] # None /\ tty'[n] # tty[n] => tty'[n].board \in owners'[n],
         tty' \in [Nodes -> Ttys \cup {None}],
         UNCHANGED <<pc, label, todo, cur, found, cands>>
  PROVE  WorkInv' /\ SeenInv'
<1> USE DEF Inv
<1>1. WorkInv'
  BY DEF WorkInv, Unresolved, LinkNames
<1>2. pc' # "idle" => \A n \in Nodes : tty'[n] # None => tty'[n].board \in owners'[n]
  BY DEF SeenInv
<1>3. \A n \in Nodes : /\ \A p : HadPort(n, p) => HadPort(n, p)'
                       /\ \A s : HadSerial(n, s) => HadSerial(n, s)'
                       /\ Had(n) => Had(n)'
  BY DEF HadPort, HadSerial, Had, Names
<1>4. \A c \in cands : c.dev \in Nodes
  BY DEF TypeOK
<1>5. found.mgmt \in Nodes \cup {None} /\ found.log \in Nodes \cup {None}
  BY DEF TypeOK
<1>6. pc = "scan" /\ cur # None => cur.dev \in Nodes
  BY DEF WorkInv
<1>7. Had(None)'
  BY DEF Had
<1> QED
  BY <1>1, <1>2, <1>3, <1>4, <1>5, <1>6, <1>7 DEF SeenInv

LEMMA PlugStep == ASSUME Inv, NEW b \in Boards, Plug(b) PROVE Inv'
<1>1. TypeOK'
  <2>1. moves' \in 0..MaxMoves /\ plugged' \subseteq Boards
    BY TargetsAssumption DEF Inv, Plug, TypeOK
  <2> QED BY <2>1 DEF Inv, Plug, TypeOK
<1>2. WorkInv' /\ SeenInv'
  BY WorldKeeps DEF Inv, TypeOK, Plug
<1> QED BY <1>1, <1>2 DEF Inv

LEMMA AppearStep ==
  ASSUME Inv, NEW b \in Boards, NEW i \in {IFACE_MGMT, IFACE_LOG, None}, NEW n \in Nodes,
         Appear(b, i, n)
  PROVE  Inv'
<1> USE DEF Inv
<1>1. [board |-> b, iface |-> i] \in Ttys
  BY DEF Appear, Ttys
<1>2. /\ tty' \in [Nodes -> Ttys \cup {None}] /\ owners' \in [Nodes -> SUBSET Boards]
  BY <1>1 DEF Appear, TypeOK
<1>3. /\ \A m \in Nodes : owners[m] \subseteq owners'[m]
      /\ \A m \in Nodes : tty'[m] # None /\ tty'[m] # tty[m] => tty'[m].board \in owners'[m]
  BY <1>1, <1>2 DEF Appear, TypeOK
<1>4. TypeOK'
  BY <1>2 DEF Appear, TypeOK
<1>5. WorkInv' /\ SeenInv'
  BY <1>2, <1>3, WorldKeeps DEF Appear
<1> QED BY <1>4, <1>5

LEMMA VanishStep == ASSUME Inv, NEW n \in Nodes, Vanish(n) PROVE Inv'
<1> USE DEF Inv
<1>1. /\ tty' \in [Nodes -> Ttys \cup {None}]
      /\ \A m \in Nodes : tty'[m] # None => tty'[m] = tty[m]
  BY DEF Vanish, TypeOK
<1>2. TypeOK'
  BY <1>1 DEF Vanish, TypeOK
<1>3. WorkInv' /\ SeenInv'
  BY <1>1, WorldKeeps DEF Vanish, TypeOK
<1> QED BY <1>2, <1>3

LEMMA FollowStep == ASSUME Inv, NEW l \in LinkNames, Follow(l) PROVE Inv'
<1> USE DEF Inv
<1>1. NodeOf(l.board, l.iface) \in Nodes \cup {None}
  BY DEF NodeOf
<1>2. TypeOK'
  BY <1>1 DEF Follow, TypeOK
<1>3. WorkInv' /\ SeenInv'
  BY WorldKeeps DEF Follow, TypeOK
<1> QED BY <1>2, <1>3

-----------------------------------------------------------------------------
(* resolve's own steps *)

LEMMA BeginStep == ASSUME Inv, NEW l \in Labels, Begin(l) PROVE Inv'
<1> USE DEF Inv
<1>1. \A n \in Nodes : tty[n] = None \/ tty[n].board \in Boards
  BY DEF TypeOK, Ttys
<1>2. owners' \in [Nodes -> SUBSET Boards]
  BY <1>1 DEF Begin
<1>3. quiet' \in BOOLEAN
  BY DEF Begin, Settled
<1>4. TypeOK'
  BY <1>2, <1>3 DEF Begin, TypeOK, worldVars
<1>5. WorkInv'
  BY TargetsAssumption DEF Begin, WorkInv, Unresolved, worldVars, LinkNames
<1>6. \A n \in Nodes : tty'[n] # None => tty'[n].board \in owners'[n]
  BY DEF Begin, worldVars
<1>7. SeenInv'
  BY <1>6 DEF Begin, WorkInv, SeenInv, Had, Unresolved
<1> QED BY <1>4, <1>5, <1>7

\* What every later step leaves alone.
Behind == UNCHANGED <<worldVars, label, quiet, owners>> /\ pc # "idle"

LEMMA ResolveKeeps ==
  ASSUME Inv, Behind
  PROVE  /\ \A n : HadPort(n, tty_port_path(n)) \/ n \notin Nodes
         /\ \A n : HadSerial(n, tty_serial(n)) \/ n \notin Nodes
         /\ \A n \in Nodes : tty_port_path(n) = label.of /\ label.kind = "port" => Had(n)
         /\ \A n, p : HadPort(n, p)' <=> HadPort(n, p)
         /\ \A n, s : HadSerial(n, s)' <=> HadSerial(n, s)
         /\ \A n : Had(n)' <=> Had(n)
         /\ pc' # "idle" => \A n \in Nodes : tty'[n] # None => tty'[n].board \in owners'[n]
         /\ pc' # "idle" => label' \in Labels
<1> USE DEF Inv, Behind, worldVars
<1>1. \A n \in Nodes : tty[n] # None => tty[n].board \in owners[n]
  BY DEF SeenInv
<1>2. label \in Labels
  BY DEF WorkInv
<1> QED
  BY <1>1, <1>2, TargetsAssumption
  DEF HadPort, HadSerial, Had, Names, tty_port_path, tty_serial

LEMMA TreeStep == ASSUME Inv, FollowLink \/ CheckLink \/ TreeDone PROVE Inv'
<1> USE DEF Inv
<1>1. pc = "tree" /\ Behind
  BY DEF FollowLink, CheckLink, TreeDone, Behind
<1>2. label \in Labels /\ label.kind = "port" /\ todo \subseteq LinkNames /\ cands = {}
  BY <1>1 DEF WorkInv
<1>3. Had(None)
  BY DEF Had
<1>4. CASE FollowLink
  <2>1. /\ pc' = "tree" /\ todo' \subseteq LinkNames /\ UNCHANGED <<found, cands>>
        /\ cur' # None => cur'.dev \in Nodes
    BY <1>2, <1>4 DEF FollowLink, TypeOK
  <2>2. TypeOK'
    BY <1>1, <2>1 DEF TypeOK, Behind, worldVars
  <2>3. WorkInv'
    BY <1>1, <1>2, <2>1, ResolveKeeps DEF WorkInv, Behind
  <2>4. Had(found.mgmt) /\ Had(found.log)
    BY <1>1 DEF SeenInv
  <2>5. SeenInv'
    BY <1>1, <1>2, <2>1, <2>4, ResolveKeeps DEF SeenInv
  <2> QED BY <2>2, <2>3, <2>5
<1>5. CASE CheckLink
  <2>1. cur.dev \in Nodes
    BY <1>5 DEF CheckLink, WorkInv
  <2>2. /\ pc' = "tree" /\ cur' = None /\ UNCHANGED <<todo, cands>>
        /\ found' \in [ok : BOOLEAN, mgmt : Nodes \cup {None}, log : Nodes \cup {None}]
    BY <2>1, <1>5 DEF CheckLink, TypeOK
  <2>3. \/ found' = found
        \/ Had(cur.dev) /\ found'.mgmt \in {cur.dev, found.mgmt}
                        /\ found'.log \in {cur.dev, found.log}
    BY <1>1, <1>2, <1>5, <2>1, ResolveKeeps DEF CheckLink, TypeOK
  <2>4. Had(found'.mgmt) /\ Had(found'.log)
    BY <1>1, <2>3 DEF SeenInv
  <2>5. TypeOK'
    BY <1>1, <2>2 DEF TypeOK, Behind, worldVars
  <2>6. WorkInv'
    BY <1>1, <1>2, <2>2, ResolveKeeps DEF WorkInv, Behind
  <2>7. SeenInv'
    BY <1>1, <1>2, <2>2, <2>4, ResolveKeeps DEF SeenInv
  <2> QED BY <2>5, <2>6, <2>7
<1>6. CASE TreeDone
  <2>1. Had(found.mgmt) /\ Had(found.log)
    BY <1>1 DEF SeenInv
  <2>2. \/ pc' = "done" /\ todo' = {} /\ found'.mgmt = found.mgmt /\ found'.log = found.log
        \/ pc' = "scan" /\ todo' = Nodes /\ found' = Unresolved
    BY <1>6 DEF TreeDone, TypeOK
  <2>3. cur' = None /\ cands' = {}
    BY <1>2, <1>6 DEF TreeDone
  <2>4. /\ found' \in [ok : BOOLEAN, mgmt : Nodes \cup {None}, log : Nodes \cup {None}]
        /\ todo' \subseteq Nodes \cup LinkNames
    <3>1. Unresolved \in [ok : BOOLEAN, mgmt : Nodes \cup {None}, log : Nodes \cup {None}]
      BY DEF Unresolved
    <3>2. found' \in {[found EXCEPT !.ok = TRUE], Unresolved}
      BY <1>6 DEF TreeDone
    <3> QED BY <2>2, <3>1, <3>2 DEF TypeOK
  <2>5. TypeOK'
    BY <1>1, <2>2, <2>3, <2>4 DEF TypeOK, Behind, worldVars
  <2>6. WorkInv' /\ SeenInv'
    BY <1>1, <2>1, <2>2, <2>3, ResolveKeeps DEF WorkInv, SeenInv
  <2> QED BY <2>5, <2>6
<1> QED BY <1>4, <1>5, <1>6

\* The scan reads, and adds a candidate when it has read all three fields.
LEMMA ScanStep == ASSUME Inv, Visit \/ ReadPort \/ ReadInterface \/ ReadSerial PROVE Inv'
<1> USE DEF Inv
<1>1. pc = "scan" /\ pc' = "scan" /\ found' = found /\ Behind
  BY DEF Visit, ReadPort, ReadInterface, ReadSerial, Behind
<1>2. /\ todo \subseteq Nodes /\ found = Unresolved
      /\ \A c \in cands : c.dev \notin todo
      /\ cur # None => cur.dev \in Nodes /\ cur.dev \notin todo /\ \A c \in cands : c.dev # cur.dev
  BY <1>1 DEF WorkInv
<1>3. /\ cur # None /\ cur.read \in {1, 2} => HadPort(cur.dev, cur.port)
      /\ \A c \in cands : HadPort(c.dev, c.port) /\ HadSerial(c.dev, c.serial)
  BY <1>1 DEF SeenInv
<1>4. SUFFICES
        /\ todo' \subseteq todo
        /\ \A c \in cands' : c.dev \in Nodes /\ c.dev \notin todo'
        /\ \A c, d \in cands' : c.dev = d.dev => c = d
        /\ cur' # None => /\ cur'.dev \in Nodes /\ cur'.dev \notin todo'
                          /\ \A c \in cands' : c.dev # cur'.dev
                          /\ cur'.read \in {1, 2} => HadPort(cur'.dev, cur'.port)
        /\ \A c \in cands' : HadPort(c.dev, c.port) /\ HadSerial(c.dev, c.serial)
  <2>1. TypeOK'
    BY <1>1, <1>2, <1>4 DEF TypeOK, Behind, worldVars
  <2>2. WorkInv'
    BY <1>1, <1>2, <1>4, ResolveKeeps DEF WorkInv, Unresolved
  <2>3. SeenInv'
    BY <1>1, <1>4, ResolveKeeps DEF SeenInv
  <2> QED BY <2>1, <2>2, <2>3
<1>5. \A c \in cands : c.dev \in Nodes
  BY DEF TypeOK
<1>6. \A c, d \in cands : c.dev = d.dev => c = d
  BY DEF TypeOK
<1>7. CASE Visit
  BY <1>2, <1>3, <1>5, <1>6, <1>7 DEF Visit
<1>8. CASE ReadPort
  <2>1. HadPort(cur.dev, tty_port_path(cur.dev))
    BY <1>1, <1>2, <1>8, ResolveKeeps DEF ReadPort
  <2> QED BY <1>2, <1>3, <1>5, <1>6, <1>8, <2>1 DEF ReadPort
<1>9. CASE ReadInterface
  BY <1>2, <1>3, <1>5, <1>6, <1>9 DEF ReadInterface
<1>10. CASE ReadSerial
  <2>1. HadSerial(cur.dev, tty_serial(cur.dev)) /\ HadPort(cur.dev, cur.port)
    BY <1>1, <1>2, <1>3, <1>10, ResolveKeeps DEF ReadSerial
  <2> DEFINE new == [dev |-> cur.dev, port |-> cur.port, iface |-> cur.iface,
                     serial |-> tty_serial(cur.dev)]
  <2>2. /\ cands' = cands \cup {new} /\ cur' = None /\ todo' = todo
        /\ new.dev = cur.dev /\ new.port = cur.port /\ new.serial = tty_serial(cur.dev)
    BY <1>10 DEF ReadSerial
  <2> HIDE DEF new
  <2>3. cur # None
    BY <1>10 DEF ReadSerial
  <2> QED BY <1>2, <1>3, <1>5, <1>6, <2>1, <2>2, <2>3
<1> QED BY <1>7, <1>8, <1>9, <1>10

LEMMA ChooseStep == ASSUME Inv, Choose PROVE Inv'
<1> USE DEF Inv
<1>1. pc = "scan" /\ pc' = "done" /\ Behind /\ todo' = {} /\ cur' = None /\ cands' = cands
  BY DEF Choose, Behind
<1>2. label \in Labels
  BY <1>1 DEF WorkInv
<1>3. \A c \in Matching : c.dev \in Nodes /\ Had(c.dev)
  <2> SUFFICES ASSUME NEW c \in Matching PROVE c.dev \in Nodes /\ Had(c.dev)
    OBVIOUS
  <2>1. c \in cands /\ c.dev \in Nodes /\ HadPort(c.dev, c.port) /\ HadSerial(c.dev, c.serial)
    BY DEF Matching, TypeOK, SeenInv
  <2>2. label.of # None /\ label.of = IF label.kind = "port" THEN c.port ELSE c.serial
    BY <1>2, TargetsAssumption DEF Matching
  <2> QED BY <2>1, <2>2 DEF HadPort, HadSerial, Had, Names
<1>4. Had(None)
  BY DEF Had
<1>5. \A i : \A m \in FirstWith(i) : m \in Nodes \cup {None} /\ Had(m)
  BY <1>3, <1>4 DEF FirstWith
<1>6. Matching # {} => (CHOOSE c \in Matching : TRUE) \in Matching
  OBVIOUS
<1>7. /\ found' \in [ok : BOOLEAN, mgmt : Nodes \cup {None}, log : Nodes \cup {None}]
      /\ Had(found'.mgmt) /\ Had(found'.log)
  <2>1. CASE found' = Unresolved
    BY <1>4, <2>1 DEF Unresolved
  <2>2. CASE \E m \in FirstWith(IFACE_MGMT), l \in FirstWith(IFACE_LOG) :
               found' = [ok |-> TRUE, mgmt |-> m, log |-> l]
    BY <1>5, <2>2
  <2>3. CASE Matching # {} /\ found' = [ok |-> TRUE, log |-> None,
                                      mgmt |-> (CHOOSE c \in Matching : TRUE).dev]
    BY <1>3, <1>4, <1>6, <2>3
  <2> QED BY <2>1, <2>2, <2>3 DEF Choose
<1>8. TypeOK'
  BY <1>1, <1>7 DEF TypeOK, Behind, worldVars
<1>9. WorkInv'
  BY <1>1, ResolveKeeps DEF WorkInv
<1>10. SeenInv'
  BY <1>1, <1>7, ResolveKeeps DEF SeenInv
<1> QED BY <1>8, <1>9, <1>10

LEMMA Step == ASSUME Inv, [Next]_vars PROVE Inv'
<1>1. CASE UNCHANGED vars
  BY <1>1 DEF Inv, vars, worldVars, TypeOK, WorkInv, SeenInv, HadPort, HadSerial, Had, Names
<1>2. CASE Next
  BY <1>2, PlugStep, AppearStep, VanishStep, FollowStep, BeginStep, TreeStep, ScanStep,
     ChooseStep DEF Next
<1> QED BY <1>1, <1>2

-----------------------------------------------------------------------------
(* Where nothing moves *)

\* A tty is a record of a board and one of its interfaces.
LEMMA TtyIs ==
  ASSUME TypeOK, NEW n \in Nodes, tty[n] # None
  PROVE  /\ tty[n] = [board |-> tty[n].board, iface |-> tty[n].iface]
         /\ tty[n].board \in Boards /\ tty[n].iface \in Ifaces(tty[n].board)
<1>1. tty[n] \in Ttys
  BY DEF TypeOK
<1>2. \E b \in Boards : \E i \in Ifaces(b) : tty[n] = [board |-> b, iface |-> i]
  BY <1>1 DEF Ttys
<1> QED BY <1>2

\* NodeOf is the node that the tty has, None if it has none.
LEMMA NodeOfIs ==
  ASSUME TypeOK, OneNode, NEW b, NEW i
  PROVE  /\ NodeOf(b, i) \in Nodes \cup {None}
         /\ NodeOf(b, i) # None => tty[NodeOf(b, i)] = [board |-> b, iface |-> i]
         /\ \A n \in Nodes : tty[n] = [board |-> b, iface |-> i] /\ tty[n] # None => NodeOf(b, i) = n
<1>1. CASE \E n \in Nodes : tty[n] = [board |-> b, iface |-> i]
  <2>1. NodeOf(b, i) \in Nodes /\ tty[NodeOf(b, i)] = [board |-> b, iface |-> i]
    BY <1>1 DEF NodeOf
  <2> QED BY <2>1 DEF OneNode
<1>2. CASE ~ \E n \in Nodes : tty[n] = [board |-> b, iface |-> i]
  BY <1>2 DEF NodeOf
<1> QED BY <1>1, <1>2

LEMMA SettledIs ==
  ASSUME TypeOK, OneNode, Settled
  PROVE  /\ \A n \in Nodes : tty[n] # None => tty[n].board \in plugged
         /\ \A b \in plugged : \A i \in Ifaces(b) :
              NodeOf(b, i) \in Nodes /\ tty[NodeOf(b, i)] = [board |-> b, iface |-> i]
         /\ \A l \in LinkNames :
              /\ links[l] = NodeOf(l.board, l.iface)
              /\ links[l] # None =>
                   /\ links[l] \in Nodes /\ l.board \in plugged
                   /\ tty[links[l]] = l /\ tty[links[l]] # None
<1>1. \A b \in Boards, i \in {IFACE_MGMT, IFACE_LOG, None} :
        NodeOf(b, i) # None <=> b \in plugged /\ i \in Ifaces(b)
  BY DEF Settled
<1>2. \A b \in Boards : Ifaces(b) \subseteq {IFACE_MGMT, IFACE_LOG, None}
  BY DEF Ifaces
<1>3. ASSUME NEW n \in Nodes, tty[n] # None PROVE tty[n].board \in plugged
  <2>1. /\ tty[n] = [board |-> tty[n].board, iface |-> tty[n].iface]
        /\ tty[n].board \in Boards /\ tty[n].iface \in Ifaces(tty[n].board)
    BY <1>3, TtyIs
  <2>2. NodeOf(tty[n].board, tty[n].iface) = n
    BY <1>3, <2>1, NodeOfIs
  <2>3. n # None
    BY TargetsAssumption
  <2> QED BY <1>1, <1>2, <2>1, <2>2, <2>3
<1>4. ASSUME NEW b \in plugged, NEW i \in Ifaces(b)
      PROVE  NodeOf(b, i) \in Nodes /\ tty[NodeOf(b, i)] = [board |-> b, iface |-> i]
  <2>1. b \in Boards
    BY DEF TypeOK
  <2> QED BY <1>1, <1>2, <2>1, NodeOfIs
<1>5. ASSUME NEW l \in LinkNames
      PROVE  /\ links[l] = NodeOf(l.board, l.iface)
             /\ links[l] # None =>
                   /\ links[l] \in Nodes /\ l.board \in plugged
                   /\ tty[links[l]] = l /\ tty[links[l]] # None
  <2>1. links[l] = NodeOf(l.board, l.iface)
    BY DEF Settled
  <2>2. /\ l.board \in Boards /\ Shape[l.board] = "dual" /\ l.iface \in {IFACE_MGMT, IFACE_LOG}
        /\ l = [board |-> l.board, iface |-> l.iface]
    BY DEF LinkNames
  <2>3. l \in Ttys
    BY <2>2 DEF Ttys, Ifaces
  <2> QED BY <1>1, <2>1, <2>2, <2>3, NodeOfIs, TargetsAssumption
<1> QED BY <1>3, <1>4, <1>5

\* One wanted link for an interface: ports tell boards apart.
LEMMA WantedIsOne ==
  ASSUME NEW i, NEW l \in LinkNames, NEW k \in LinkNames, Wanted(l, i), Wanted(k, i)
  PROVE  l = k
<1>1. l.board \in Boards /\ k.board \in Boards
  BY DEF LinkNames
<1> QED BY <1>1, TargetsAssumption DEF Wanted, LinkNames

\* A node of the bus stays the node of its tty.
LEMMA OneNodeStep == ASSUME Inv, OneNode, [Next]_vars PROVE OneNode'
<1>1. ASSUME NEW b \in Boards, NEW i \in {IFACE_MGMT, IFACE_LOG, None}, NEW n \in Nodes,
             Appear(b, i, n)
      PROVE  OneNode'
  <2>1. /\ tty' = [tty EXCEPT ![n] = [board |-> b, iface |-> i]]
        /\ \A m \in Nodes : tty[m] # [board |-> b, iface |-> i]
    <3>1. NodeOf(b, i) = None /\ tty' = [tty EXCEPT ![n] = [board |-> b, iface |-> i]]
      BY <1>1 DEF Appear
    <3> QED BY <3>1, TargetsAssumption DEF NodeOf
  <2> QED BY <2>1 DEF OneNode, Inv, TypeOK
<1>2. ASSUME NEW n \in Nodes, Vanish(n) PROVE OneNode'
  BY <1>2 DEF Vanish, OneNode, Inv, TypeOK
<1>3. CASE UNCHANGED tty
  BY <1>3 DEF OneNode
<1> QED
  BY <1>1, <1>2, <1>3 DEF Next, vars, worldVars, Plug, Follow, Begin, FollowLink, CheckLink,
     TreeDone, Visit, ReadPort, ReadInterface, ReadSerial, Choose

\* Where a label leads if one board carries it, or not just one.
LEMMA ExpectedIs ==
  ASSUME TypeOK
  PROVE  /\ \A b : {x \in plugged : Names(label, x)} = {b} =>
              Expected = IF Shape[b] = "dual"
                         THEN [ok |-> TRUE, mgmt |-> NodeOf(b, IFACE_MGMT), log |-> NodeOf(b, IFACE_LOG)]
                         ELSE [ok |-> TRUE, mgmt |-> NodeOf(b, None), log |-> None]
         /\ (\A b : {x \in plugged : Names(label, x)} # {b}) => Expected = Unresolved
<1> DEFINE named == {x \in plugged : Names(label, x)}
<1>1. IsFiniteSet(named)
  <2>1. IsFiniteSet(plugged)
    BY FS_Subset, TargetsAssumption DEF TypeOK
  <2> QED BY <2>1, FS_Subset
<1>2. \A b : named = {b} => Cardinality(named) = 1 /\ (CHOOSE x \in named : TRUE) = b
  <2> HIDE DEF named
  <2> QED BY FS_Singleton
<1>3. (\A b : named # {b}) => Cardinality(named) # 1
  <2> HIDE DEF named
  <2> QED BY <1>1, FS_Singleton
<1>4. Expected = IF Cardinality(named) # 1 THEN Unresolved
                 ELSE IF Shape[CHOOSE x \in named : TRUE] = "dual"
                 THEN [ok |-> TRUE, mgmt |-> NodeOf(CHOOSE x \in named : TRUE, IFACE_MGMT),
                       log |-> NodeOf(CHOOSE x \in named : TRUE, IFACE_LOG)]
                 ELSE [ok |-> TRUE, mgmt |-> NodeOf(CHOOSE x \in named : TRUE, None), log |-> None]
  BY DEF Expected
<1> HIDE DEF named
<1>5. (\A b : named # {b}) => Expected = Unresolved
  BY <1>3, <1>4
<1>6. ASSUME NEW b, named = {b}
      PROVE  Expected = IF Shape[b] = "dual"
                        THEN [ok |-> TRUE, mgmt |-> NodeOf(b, IFACE_MGMT), log |-> NodeOf(b, IFACE_LOG)]
                        ELSE [ok |-> TRUE, mgmt |-> NodeOf(b, None), log |-> None]
  BY <1>2, <1>4, <1>6
<1> QED BY <1>5, <1>6 DEF named

\* resolve's own steps move nothing.
LEMMA BehindKeeps ==
  ASSUME Behind
  PROVE  /\ Settled' <=> Settled
         /\ \A b, i : NodeOf(b, i)' = NodeOf(b, i)
         /\ Expected' = Expected
         /\ \A l, i : Wanted(l, i)' <=> Wanted(l, i)
         /\ \A n : CandidateOf(n)' = CandidateOf(n)
<1> USE DEF Behind, worldVars
<1>1. \A b, i : NodeOf(b, i)' = NodeOf(b, i)
  BY DEF NodeOf
<1>2. Settled' <=> Settled
  BY DEF Settled, NodeOf
<1>3. Expected' = Expected
  BY DEF Expected, NodeOf, Names, Unresolved
<1> QED BY <1>1, <1>2, <1>3 DEF Wanted, CandidateOf

LEMMA BeginQuiet == ASSUME Inv, OneNode, NEW l \in Labels, Begin(l) PROVE QuietInv'
<1>1. /\ UNCHANGED worldVars /\ cur' = None /\ cands' = {} /\ found' = Unresolved
      /\ quiet' = Settled
      /\ \/ pc' = "tree" /\ todo' = LinkNames
         \/ pc' = "scan" /\ todo' = Nodes
  BY DEF Begin, Inv, WorkInv
<1>2. Settled' <=> Settled
  BY <1>1 DEF Settled, NodeOf, worldVars
<1>3. pc' = "tree" => TreeQuiet'
  BY <1>1 DEF TreeQuiet, TreeHas, Unresolved
<1>4. pc' = "scan" => ScanQuiet'
  BY <1>1 DEF ScanQuiet
<1> QED BY <1>1, <1>2, <1>3, <1>4 DEF QuietInv

\* FollowLink moves a link from todo to cur, CheckLink settles it.
LEMMA TreeQuietStep ==
  ASSUME Inv, OneNode, QuietInv, quiet, FollowLink \/ CheckLink
  PROVE  TreeQuiet'
<1>1. pc = "tree" /\ Settled /\ TreeQuiet /\ Behind /\ TypeOK
  BY DEF FollowLink, CheckLink, QuietInv, Inv, Behind
<1>2. /\ \A b, i : NodeOf(b, i)' = NodeOf(b, i)
      /\ \A l, i : Wanted(l, i)' <=> Wanted(l, i)
      /\ links' = links
  BY <1>1, BehindKeeps DEF Behind, worldVars
<1>3. todo \subseteq LinkNames /\ label.kind = "port" /\ label.of # None
  BY <1>1, TargetsAssumption DEF Inv, WorkInv
<1>4. \A l \in LinkNames : links[l] # None =>
        links[l] \in Nodes /\ tty[links[l]] = l /\ tty[links[l]] # None
  BY <1>1, SettledIs
<1>5. CASE FollowLink
  <2>1. PICK l \in todo :
          /\ todo' = todo \ {l}
          /\ cur' = IF links[l] # None /\ tty[links[l]] # None
                    THEN [link |-> l, dev |-> links[l]] ELSE None
    BY <1>5 DEF FollowLink
  <2>2. cur = None /\ found' = found /\ l \in LinkNames
    BY <1>3, <1>5 DEF FollowLink
  <2>3. \/ links[l] # None /\ cur' # None /\ cur'.link = l /\ cur'.dev = links[l]
        \/ links[l] = None /\ cur' = None
    <3>1. links[l] # None => [link |-> l, dev |-> links[l]] # None
      BY <1>4, <2>2, TargetsAssumption DEF Entries
    <3> QED BY <1>4, <2>1, <2>2, <3>1
  <2>4. ASSUME NEW d, NEW i, TreeHas(d, i)
        PROVE  /\ \A k \in LinkNames : Wanted(k, i) /\ links[k] # None =>
                    d = links[k] \/ k \in todo' \/ (cur' # None /\ cur'.link = k)
               /\ d # None => \E k \in LinkNames : Wanted(k, i) /\ links[k] = d
    BY <2>1, <2>2, <2>3, <2>4 DEF TreeHas
  <2> DEFINE Then(d, i) ==
        /\ \A k \in LinkNames : Wanted(k, i)' /\ links'[k] # None =>
             d = links'[k] \/ k \in todo' \/ (cur' # None /\ cur'.link = k)
        /\ d # None => \E k \in LinkNames : Wanted(k, i)' /\ links'[k] = d
  <2>5. \A d, i : TreeHas(d, i) => Then(d, i)
    BY <1>2, <2>4
  <2>6. TreeHas(found.mgmt, IFACE_MGMT) /\ TreeHas(found.log, IFACE_LOG)
    BY <1>1 DEF TreeQuiet
  <2> HIDE DEF Then
  <2>7. Then(found'.mgmt, IFACE_MGMT) /\ Then(found'.log, IFACE_LOG)
    BY <2>2, <2>5, <2>6
  <2>8. TreeHas(found.mgmt, IFACE_MGMT)' /\ TreeHas(found.log, IFACE_LOG)'
    BY <2>7 DEF TreeHas, Then
  <2>9. cur' # None =>
          /\ cur'.link \in LinkNames /\ cur'.link \notin todo'
          /\ cur'.dev = links'[cur'.link] /\ cur'.dev # None
    BY <1>2, <2>1, <2>2, <2>3
  <2> QED BY <2>8, <2>9 DEF TreeQuiet
<1>6. CASE CheckLink
  <2>1. /\ cur # None /\ cur' = None /\ todo' = todo
        /\ cur.link \in LinkNames /\ cur.dev = links[cur.link] /\ cur.dev # None
    BY <1>1, <1>6 DEF CheckLink, TreeQuiet
  <2>2. tty_port_path(cur.dev) = Port[cur.link.board]
    BY <1>4, <2>1 DEF tty_port_path
  <2>3. cur.link.iface \in {IFACE_MGMT, IFACE_LOG} /\ IFACE_MGMT # IFACE_LOG
    BY <2>1 DEF LinkNames, IFACE_MGMT, IFACE_LOG
  <2>4. /\ found'.mgmt = IF Wanted(cur.link, IFACE_MGMT) THEN cur.dev ELSE found.mgmt
        /\ found'.log = IF Wanted(cur.link, IFACE_LOG) THEN cur.dev ELSE found.log
    BY <1>1, <1>6, <2>2, <2>3 DEF CheckLink, Wanted, TypeOK
  <2>5. ASSUME NEW d, NEW i, TreeHas(d, i), NEW e,
               e = IF Wanted(cur.link, i) THEN cur.dev ELSE d
        PROVE  /\ \A k \in LinkNames : Wanted(k, i) /\ links[k] # None => e = links[k] \/ k \in todo
               /\ e # None => \E k \in LinkNames : Wanted(k, i) /\ links[k] = e
    <3>1. CASE Wanted(cur.link, i)
      BY <2>1, <2>5, <3>1, WantedIsOne
    <3>2. CASE ~Wanted(cur.link, i)
      BY <2>5, <3>2 DEF TreeHas
    <3> QED BY <3>1, <3>2
  <2>6. TreeHas(found.mgmt, IFACE_MGMT) /\ TreeHas(found.log, IFACE_LOG)
    BY <1>1 DEF TreeQuiet
  <2> DEFINE Then(d, i) ==
        /\ \A k \in LinkNames : Wanted(k, i)' /\ links'[k] # None => d = links'[k] \/ k \in todo'
        /\ d # None => \E k \in LinkNames : Wanted(k, i)' /\ links'[k] = d
  <2>7. \A d, e, i : TreeHas(d, i) /\ e = (IF Wanted(cur.link, i) THEN cur.dev ELSE d) => Then(e, i)
    BY <1>2, <2>1, <2>5
  <2> HIDE DEF Then
  <2>8. Then(found'.mgmt, IFACE_MGMT) /\ Then(found'.log, IFACE_LOG)
    BY <2>4, <2>6, <2>7
  <2>9. TreeHas(found.mgmt, IFACE_MGMT)' /\ TreeHas(found.log, IFACE_LOG)'
    BY <2>8 DEF TreeHas, Then
  <2> QED BY <2>1, <2>9 DEF TreeQuiet
<1> QED BY <1>5, <1>6

\* The tree has the named board's nodes if it has one; else the scan starts afresh.
LEMMA TreeDoneQuiet == ASSUME Inv, OneNode, QuietInv, quiet, TreeDone PROVE QuietInv'
<1>1. pc = "tree" /\ todo = {} /\ cur = None /\ Settled /\ TreeQuiet /\ Behind /\ TypeOK
  BY DEF TreeDone, QuietInv, Inv, Behind
<1>2. label.kind = "port" /\ cands = {}
  BY <1>1 DEF Inv, WorkInv
<1>3. Settled' /\ Expected' = Expected /\ cands' = {} /\ cur' = None
  BY <1>1, <1>2, BehindKeeps DEF TreeDone
<1>4. CASE found.mgmt = None
  <2>1. pc' = "scan" /\ todo' = Nodes
    BY <1>4 DEF TreeDone
  <2>2. ScanQuiet'
    BY <1>3, <2>1 DEF ScanQuiet
  <2> QED BY <1>3, <2>1, <2>2 DEF QuietInv
<1>5. CASE found.mgmt # None
  <2>1. pc' = "done" /\ found' = [found EXCEPT !.ok = TRUE]
    BY <1>5 DEF TreeDone
  <2>2. PICK m \in LinkNames : Wanted(m, IFACE_MGMT) /\ links[m] = found.mgmt
    BY <1>1, <1>5 DEF TreeQuiet, TreeHas
  <2> DEFINE b == m.board
             k == [board |-> b, iface |-> IFACE_LOG]
  <2>3. /\ b \in Boards /\ Shape[b] = "dual" /\ k \in LinkNames /\ Port[b] = label.of
        /\ m.iface = IFACE_MGMT /\ m.board = b /\ k.board = b /\ k.iface = IFACE_LOG
    BY <2>2 DEF LinkNames, Wanted
  <2> HIDE DEF b, k
  <2>4. /\ b \in plugged /\ NodeOf(b, IFACE_MGMT) = found.mgmt
        /\ links[k] = NodeOf(b, IFACE_LOG) /\ links[k] # None
    <3>1. links[m] = NodeOf(b, IFACE_MGMT) /\ b \in plugged
      BY <1>1, <1>5, <2>2, <2>3, SettledIs
    <3>2. IFACE_LOG \in Ifaces(b)
      BY <2>3 DEF Ifaces
    <3>3. links[k] = NodeOf(b, IFACE_LOG)
      BY <1>1, <2>3, SettledIs
    <3>4. \A i \in Ifaces(b) : NodeOf(b, i) \in Nodes
      BY <1>1, <3>1, SettledIs
    <3>5. NodeOf(b, IFACE_LOG) # None
      BY <3>2, <3>4, TargetsAssumption
    <3> QED BY <2>2, <3>1, <3>3, <3>5
  <2>5. found.log = links[k]
    <3>1. Wanted(k, IFACE_LOG)
      BY <2>3 DEF Wanted
    <3>2. TreeHas(found.log, IFACE_LOG) /\ todo = {} /\ cur = None
      BY <1>1 DEF TreeQuiet
    <3> QED BY <2>3, <2>4, <3>1, <3>2 DEF TreeHas
  <2>6. {x \in plugged : Names(label, x)} = {b}
    BY <1>1, <1>2, <2>3, <2>4, TargetsAssumption DEF Names, TypeOK
  <2>7. Expected = [ok |-> TRUE, mgmt |-> found.mgmt, log |-> found.log]
    BY <1>1, <2>3, <2>4, <2>5, <2>6, ExpectedIs
  <2>8. [found EXCEPT !.ok = TRUE] = [ok |-> TRUE, mgmt |-> found.mgmt, log |-> found.log]
    <3>1. found \in [ok : BOOLEAN, mgmt : Nodes \cup {None}, log : Nodes \cup {None}]
      BY <1>1 DEF TypeOK
    <3>2. \A r \in [ok : BOOLEAN, mgmt : Nodes \cup {None}, log : Nodes \cup {None}] :
            r = [ok |-> r.ok, mgmt |-> r.mgmt, log |-> r.log]
      OBVIOUS
    <3>3. [found EXCEPT !.ok = TRUE] \in [ok : BOOLEAN, mgmt : Nodes \cup {None}, log : Nodes \cup {None}]
      BY <3>1
    <3>4. /\ [found EXCEPT !.ok = TRUE].ok = TRUE /\ [found EXCEPT !.ok = TRUE].mgmt = found.mgmt
          /\ [found EXCEPT !.ok = TRUE].log = found.log
      BY <3>1
    <3> DEFINE r == [found EXCEPT !.ok = TRUE]
    <3> HIDE DEF r
    <3>5. r = [ok |-> TRUE, mgmt |-> found.mgmt, log |-> found.log]
      BY <3>2, <3>3, <3>4 DEF r
    <3> QED BY <3>5 DEF r
  <2> QED BY <1>3, <2>1, <2>7, <2>8 DEF QuietInv
<1> QED BY <1>4, <1>5

\* Each candidate is read as it is, and none is lost.
LEMMA ScanQuietStep ==
  ASSUME Inv, OneNode, QuietInv, quiet, Visit \/ ReadPort \/ ReadInterface \/ ReadSerial
  PROVE  ScanQuiet'
<1>1. pc = "scan" /\ ScanQuiet /\ Behind /\ TypeOK /\ todo \subseteq Nodes
  BY DEF Visit, ReadPort, ReadInterface, ReadSerial, QuietInv, Inv, WorkInv, Behind
<1>2. tty' = tty /\ \A n : CandidateOf(n)' = CandidateOf(n)
  BY <1>1, BehindKeeps DEF Behind, worldVars
<1>3. \A n \in Nodes : tty[n] # None =>
        /\ tty[n].board \in Boards /\ tty[n].iface \in {IFACE_MGMT, IFACE_LOG, None}
        /\ tty_port_path(n) = Port[tty[n].board] /\ tty_interface(n) = tty[n].iface
        /\ tty_serial(n) = Serial[tty[n].board]
  BY <1>1, TtyIs DEF Ifaces, tty_port_path, tty_interface, tty_serial
<1>4. /\ cur # None => cur.dev \in Nodes /\ cur \in Entries /\ tty[cur.dev] # None /\ cur.read \in 0..2
      /\ \A c \in cands : tty[c.dev] # None /\ c = CandidateOf(c.dev)
      /\ \A n \in Nodes :
           tty[n] # None => n \in todo \/ (cur # None /\ cur.dev = n) \/ CandidateOf(n) \in cands
  BY <1>1 DEF ScanQuiet, Inv, WorkInv
<1>5. CASE Visit
  <2>1. PICK n \in todo :
          todo' = todo \ {n} /\ cur' = IF tty[n] = None THEN None ELSE [dev |-> n, read |-> 0]
    BY <1>5 DEF Visit
  <2>2. cur = None /\ cands' = cands
    BY <1>5 DEF Visit
  <2>3. [dev |-> n, read |-> 0] \in Entries
    BY <1>1 DEF Entries
  <2>4. [dev |-> n, read |-> 0] # None
    BY <2>3, TargetsAssumption
  <2>5. CASE tty[n] = None
    BY <1>1, <1>2, <1>4, <2>1, <2>2, <2>5 DEF ScanQuiet
  <2>6. CASE tty[n] # None
    <3>1. cur' # None /\ cur'.dev = n /\ cur'.read = 0 /\ cur' \in Entries
      BY <2>1, <2>3, <2>4, <2>6
    <3> QED BY <1>1, <1>2, <1>4, <2>1, <2>2, <2>6, <3>1 DEF ScanQuiet
  <2> QED BY <2>5, <2>6
<1>6. CASE ReadPort
  <2> DEFINE c == [dev |-> cur.dev, read |-> 1, port |-> tty_port_path(cur.dev)]
  <2>1. cur # None /\ cur' = c /\ todo' = todo /\ cands' = cands
    BY <1>6 DEF ReadPort
  <2>2. c \in Entries /\ c.port = Port[tty[cur.dev].board] /\ c.dev = cur.dev /\ c.read = 1
    BY <1>3, <1>4, <2>1 DEF Entries
  <2>3. c # None
    BY <2>2, TargetsAssumption
  <2> HIDE DEF c
  <2> QED BY <1>2, <1>4, <2>1, <2>2, <2>3 DEF ScanQuiet
<1>7. CASE ReadInterface
  <2> DEFINE c == [dev |-> cur.dev, read |-> 2, port |-> cur.port, iface |-> tty_interface(cur.dev)]
  <2>1. cur # None /\ cur' = c /\ todo' = todo /\ cands' = cands /\ cur.read = 1
    BY <1>7 DEF ReadInterface
  <2>2. cur.port = Port[tty[cur.dev].board]
    BY <1>1, <2>1 DEF ScanQuiet
  <2>3. /\ c \in Entries /\ c.port = Port[tty[cur.dev].board] /\ c.dev = cur.dev /\ c.read = 2
        /\ c.iface = tty[cur.dev].iface
    BY <1>3, <1>4, <2>1, <2>2 DEF Entries
  <2>4. c # None
    BY <2>3, TargetsAssumption
  <2> HIDE DEF c
  <2> QED BY <1>2, <1>4, <2>1, <2>3, <2>4 DEF ScanQuiet
<1>8. CASE ReadSerial
  <2>1. /\ cur # None /\ cur' = None /\ todo' = todo /\ cur.read = 2
        /\ cands' = cands \cup {[dev |-> cur.dev, port |-> cur.port, iface |-> cur.iface,
                                 serial |-> tty_serial(cur.dev)]}
    BY <1>8 DEF ReadSerial
  <2>2. cur.port = Port[tty[cur.dev].board] /\ cur.iface = tty[cur.dev].iface
    BY <1>1, <2>1 DEF ScanQuiet
  <2>3. cands' = cands \cup {CandidateOf(cur.dev)} /\ CandidateOf(cur.dev).dev = cur.dev
    BY <1>3, <1>4, <2>1, <2>2 DEF CandidateOf
  <2> QED BY <1>2, <1>4, <2>1, <2>3 DEF ScanQuiet
<1> QED BY <1>5, <1>6, <1>7, <1>8

\* At the end of the scan the matching candidates are the ttys of the boards that are named.
LEMMA MatchingIs ==
  ASSUME Inv, OneNode, QuietInv, quiet, Choose
  PROVE  /\ \A c \in Matching :
              \E b \in plugged : \E i \in Ifaces(b) :
                /\ Names(label, b) /\ c.port = Port[b] /\ c.iface = i /\ c.dev = NodeOf(b, i)
                /\ c = CandidateOf(c.dev)
         /\ \A b \in plugged : \A i \in Ifaces(b) :
              Names(label, b) =>
                /\ CandidateOf(NodeOf(b, i)) \in Matching
                /\ CandidateOf(NodeOf(b, i)).port = Port[b] /\ CandidateOf(NodeOf(b, i)).iface = i
                /\ CandidateOf(NodeOf(b, i)).dev = NodeOf(b, i) /\ NodeOf(b, i) # None
<1>1. pc = "scan" /\ todo = {} /\ cur = None /\ Settled /\ ScanQuiet /\ TypeOK /\ label \in Labels
  BY DEF Choose, QuietInv, Inv, WorkInv
<1>2. \A c \in cands : c.dev \in Nodes /\ tty[c.dev] # None /\ c = CandidateOf(c.dev)
  BY <1>1 DEF ScanQuiet, TypeOK
<1>3. \A n \in Nodes : tty[n] # None => CandidateOf(n) \in cands
  BY <1>1 DEF ScanQuiet
<1>4. \A n : /\ CandidateOf(n).dev = n /\ CandidateOf(n).port = Port[tty[n].board]
             /\ CandidateOf(n).iface = tty[n].iface /\ CandidateOf(n).serial = Serial[tty[n].board]
  BY DEF CandidateOf
<1>5. \A n : CandidateOf(n) \in Matching <=> CandidateOf(n) \in cands /\ Names(label, tty[n].board)
  BY <1>1, <1>4 DEF Matching, Names
<1>6. \A c \in Matching : c \in cands
  BY DEF Matching
<1>7. ASSUME NEW c \in Matching
      PROVE  \E b \in plugged : \E i \in Ifaces(b) :
               /\ Names(label, b) /\ c.port = Port[b] /\ c.iface = i /\ c.dev = NodeOf(b, i)
               /\ c = CandidateOf(c.dev)
  <2> DEFINE n == c.dev
  <2>1. n \in Nodes /\ tty[n] # None /\ c = CandidateOf(n)
    BY <1>2, <1>6
  <2>2. Names(label, tty[n].board)
    BY <1>5, <2>1
  <2>3. tty[n] = [board |-> tty[n].board, iface |-> tty[n].iface] /\ tty[n].iface \in Ifaces(tty[n].board)
    BY <1>1, <2>1, TtyIs
  <2>4. tty[n].board \in plugged
    BY <1>1, <2>1, SettledIs
  <2>5. NodeOf(tty[n].board, tty[n].iface) = n
    BY <1>1, <2>1, <2>3, NodeOfIs
  <2>6. c.port = Port[tty[n].board] /\ c.iface = tty[n].iface
    BY <1>4, <2>1
  <2> QED BY <2>1, <2>2, <2>3, <2>4, <2>5, <2>6
<1>8. ASSUME NEW b \in plugged, NEW i \in Ifaces(b), Names(label, b)
      PROVE  /\ CandidateOf(NodeOf(b, i)) \in Matching
             /\ CandidateOf(NodeOf(b, i)).port = Port[b] /\ CandidateOf(NodeOf(b, i)).iface = i
             /\ CandidateOf(NodeOf(b, i)).dev = NodeOf(b, i) /\ NodeOf(b, i) # None
  <2>1. NodeOf(b, i) \in Nodes /\ tty[NodeOf(b, i)] = [board |-> b, iface |-> i]
    BY <1>1, SettledIs
  <2>2. [board |-> b, iface |-> i] \in Ttys
    BY <1>1 DEF Ttys, TypeOK
  <2>3. tty[NodeOf(b, i)] # None /\ NodeOf(b, i) # None
    BY <2>1, <2>2, TargetsAssumption
  <2>4. tty[NodeOf(b, i)].board = b /\ tty[NodeOf(b, i)].iface = i
    BY <2>1
  <2> QED BY <1>3, <1>4, <1>5, <1>8, <2>1, <2>3, <2>4
<1> QED BY <1>7, <1>8

\* The choice is right: no board, one board, or several under one serial.
LEMMA ChooseQuiet == ASSUME Inv, OneNode, QuietInv, quiet, Choose PROVE QuietInv'
<1>1. Settled /\ Behind /\ pc' = "done" /\ TypeOK /\ label \in Labels
  BY DEF Choose, QuietInv, Inv, WorkInv, Behind
<1>2. Settled' /\ Expected' = Expected
  BY <1>1, BehindKeeps
<1> DEFINE named == {x \in plugged : Names(label, x)}
<1>3. SUFFICES found' = Expected
  BY <1>1, <1>2 DEF QuietInv
<1>4. plugged \subseteq Boards
  BY <1>1 DEF TypeOK
<1>5. \/ (Matching = {} \/ Ambiguous) /\ found' = Unresolved
      \/ /\ Matching # {} /\ ~Ambiguous
         /\ \E m \in FirstWith(IFACE_MGMT), l \in FirstWith(IFACE_LOG) :
              found' = IF m # None THEN [ok |-> TRUE, mgmt |-> m, log |-> l]
                       ELSE IF Cardinality(Matching) = 1
                       THEN [ok |-> TRUE, mgmt |-> (CHOOSE c \in Matching : TRUE).dev, log |-> None]
                       ELSE Unresolved
  BY DEF Choose
<1>6. CASE named = {}
  <2>1. Matching = {}
    BY <1>6, MatchingIs
  <2>2. found' = Unresolved
    BY <1>5, <2>1
  <2>3. Expected = Unresolved
    BY <1>1, <1>6, ExpectedIs
  <2> QED BY <2>2, <2>3
<1>7. ASSUME NEW b \in plugged, named = {b} PROVE found' = Expected
  <2>1. /\ Expected = IF Shape[b] = "dual"
                      THEN [ok |-> TRUE, mgmt |-> NodeOf(b, IFACE_MGMT), log |-> NodeOf(b, IFACE_LOG)]
                      ELSE [ok |-> TRUE, mgmt |-> NodeOf(b, None), log |-> None]
    BY <1>1, <1>7, ExpectedIs
  <2>2. \A c \in Matching : /\ c.port = Port[b] /\ c.iface \in Ifaces(b) /\ c.dev = NodeOf(b, c.iface)
                            /\ c = CandidateOf(c.dev)
    BY <1>7, MatchingIs
  <2>3. \A i \in Ifaces(b) :
          /\ CandidateOf(NodeOf(b, i)) \in Matching /\ CandidateOf(NodeOf(b, i)).iface = i
          /\ CandidateOf(NodeOf(b, i)).dev = NodeOf(b, i) /\ NodeOf(b, i) # None
    BY <1>7, MatchingIs
  <2>4. Matching # {} /\ ~Ambiguous
    BY <2>2, <2>3 DEF Ambiguous, Ifaces
  <2>5. \A i \in Ifaces(b) : FirstWith(i) = {NodeOf(b, i)}
    BY <2>2, <2>3 DEF FirstWith
  <2>6. \A i : i \notin Ifaces(b) => FirstWith(i) = {None}
    BY <2>2 DEF FirstWith
  <2>7. CASE Shape[b] = "dual"
    <3>1. Ifaces(b) = {IFACE_MGMT, IFACE_LOG}
      BY <2>7 DEF Ifaces
    <3>2. found' = [ok |-> TRUE, mgmt |-> NodeOf(b, IFACE_MGMT), log |-> NodeOf(b, IFACE_LOG)]
      BY <1>5, <2>3, <2>4, <2>5, <3>1
    <3> QED BY <2>1, <2>7, <3>2
  <2>8. CASE Shape[b] # "dual"
    <3>1. Ifaces(b) = {None} /\ IFACE_MGMT \notin Ifaces(b) /\ IFACE_LOG \notin Ifaces(b)
      BY <2>8, TargetsAssumption DEF Ifaces
    <3>2. Matching = {CandidateOf(NodeOf(b, None))}
      BY <2>2, <2>3, <3>1
    <3>3. Cardinality(Matching) = 1 /\ (CHOOSE c \in Matching : TRUE) = CandidateOf(NodeOf(b, None))
      BY <3>2, FS_Singleton
    <3>4. CandidateOf(NodeOf(b, None)).dev = NodeOf(b, None)
      BY <2>3, <3>1
    <3>5. found' = [ok |-> TRUE, mgmt |-> NodeOf(b, None), log |-> None]
      BY <1>5, <2>4, <2>6, <3>1, <3>3, <3>4
    <3> QED BY <2>1, <2>8, <3>5
  <2> QED BY <2>7, <2>8
<1>8. ASSUME NEW b \in plugged, NEW c \in plugged, b # c, Names(label, b), Names(label, c)
      PROVE  found' = Expected
  <2>1. label.kind = "serial"
    BY <1>1, <1>4, <1>8, TargetsAssumption DEF Names
  <2>2. PICK i \in Ifaces(b), j \in Ifaces(c) : TRUE
    BY DEF Ifaces
  <2>3. Ambiguous
    <3>1. /\ CandidateOf(NodeOf(b, i)) \in Matching /\ CandidateOf(NodeOf(b, i)).port = Port[b]
          /\ CandidateOf(NodeOf(c, j)) \in Matching /\ CandidateOf(NodeOf(c, j)).port = Port[c]
      BY <1>8, MatchingIs
    <3>2. Port[b] # None /\ Port[c] # None /\ Port[b] # Port[c]
      BY <1>4, <1>8, TargetsAssumption
    <3> QED BY <2>1, <3>1, <3>2 DEF Ambiguous
  <2>4. \A x : named # {x}
    BY <1>8
  <2>5. Expected = Unresolved
    BY <1>1, <2>4, ExpectedIs
  <2> QED BY <1>5, <2>3, <2>5
<1> QED BY <1>6, <1>7, <1>8

LEMMA QuietStep == ASSUME Inv, OneNode, QuietInv, [Next]_vars PROVE QuietInv'
<1>1. CASE ~quiet' \/ pc' = "idle"
  BY <1>1 DEF QuietInv
<1>2. CASE UNCHANGED vars
  <2>1. Settled' <=> Settled
    BY <1>2 DEF vars, worldVars, Settled, NodeOf
  <2>2. Expected' = Expected
    BY <1>2 DEF vars, worldVars, Expected, NodeOf, Names, Unresolved
  <2>3. (TreeQuiet' <=> TreeQuiet) /\ (ScanQuiet' <=> ScanQuiet)
    BY <1>2 DEF vars, worldVars, TreeQuiet, TreeHas, Wanted, ScanQuiet, CandidateOf
  <2> QED BY <1>2, <2>1, <2>2, <2>3 DEF QuietInv, vars
<1>3. ASSUME NEW l \in Labels, Begin(l) PROVE QuietInv'
  BY <1>3, BeginQuiet
<1>4. CASE quiet' /\ (FollowLink \/ CheckLink)
  <2>1. quiet /\ pc = "tree" /\ pc' = "tree" /\ Behind
    BY <1>4 DEF FollowLink, CheckLink, Behind
  <2>2. Settled'
    BY <2>1, BehindKeeps DEF QuietInv
  <2> QED BY <1>4, <2>1, <2>2, TreeQuietStep DEF QuietInv
<1>5. CASE quiet' /\ TreeDone
  BY <1>5, TreeDoneQuiet DEF TreeDone
<1>6. CASE quiet' /\ (Visit \/ ReadPort \/ ReadInterface \/ ReadSerial)
  <2>1. quiet /\ pc = "scan" /\ pc' = "scan" /\ Behind
    BY <1>6 DEF Visit, ReadPort, ReadInterface, ReadSerial, Behind
  <2>2. Settled'
    BY <2>1, BehindKeeps DEF QuietInv
  <2> QED BY <1>6, <2>1, <2>2, ScanQuietStep DEF QuietInv
<1>7. CASE quiet' /\ Choose
  BY <1>7, ChooseQuiet DEF Choose
<1>8. CASE \/ \E b \in Boards : Plug(b)
           \/ \E b \in Boards, i \in {IFACE_MGMT, IFACE_LOG, None}, n \in Nodes : Appear(b, i, n)
           \/ \E n \in Nodes : Vanish(n)
           \/ \E l \in LinkNames : Follow(l)
  BY <1>1, <1>8 DEF Plug, Appear, Vanish, Follow
<1>9. quiet' \in BOOLEAN
  BY Step DEF Inv, TypeOK
<1> QED BY <1>1, <1>2, <1>3, <1>4, <1>5, <1>6, <1>7, <1>8, <1>9 DEF Next

-----------------------------------------------------------------------------

(* Resolution is type-correct: in particular the scan looks at each name   *)
(* once and has one candidate for it (scan_ttys).                          *)
THEOREM TargetsTypeOK == Spec => []TypeOK
<1>1. Inv => TypeOK
  BY DEF Inv
<1> QED BY <1>1, InitInv, Step, PTL DEF Spec

(* However ttys come and go between the reads of resolve, and whatever     *)
(* udev's links say, the nodes it returns belonged to a board with that    *)
(* label while it was at work (from_udev_tree, resolve_usb_serial).        *)
THEOREM NamedBoardTheorem == Spec => []OnlyTheNamedBoards
<1>1. Inv => OnlyTheNamedBoards
  BY DEF Inv, SeenInv, Had, OnlyTheNamedBoards
<1> QED BY <1>1, InitInv, Step, PTL DEF Spec

(* On a bus where no tty, link or plug moves while resolve is at work, a   *)
(* label leads to the nodes of its one board, by the udev tree and by the  *)
(* scan alike, and to an error if no board or several carry it             *)
(* (from_udev_tree, scan_ttys, resolve_usb_serial): for any boards, of     *)
(* either shape, in any order in which the directory is read.              *)
THEOREM SettledTheorem == Spec => []SettledMeansRight
<1>1. Init => OneNode /\ QuietInv
  BY DEF Init, OneNode, QuietInv
<1>2. QuietInv => SettledMeansRight
  BY DEF QuietInv, SettledMeansRight
<1> QED BY <1>1, <1>2, InitInv, Step, OneNodeStep, QuietStep, PTL DEF Spec

\* The least-number principle, stated for sets; and the last number of a bounded set.
LEMMA Smallest ==
  ASSUME NEW T, T \subseteq Nat, T # {}
  PROVE  \E n \in T : \A m \in T : n <= m
<1> DEFINE R == {ss \in Nat \X Nat : ss[1] < ss[2]}
<1>1. IsWellFoundedOn(R, Nat)
  BY NatLessThanWellFounded DEF OpToRel
<1> HIDE DEF R
<1>2. PICK n \in T : \A m \in T : ~(<<m, n>> \in R)
  BY <1>1, WFMin
<1>3. \A m \in T : <<m, n>> \in R <=> m < n
  BY DEF R
<1>4. \A m \in T : m \in Nat /\ n \in Nat /\ ~(m < n)
  BY <1>2, <1>3
<1>5. \A m \in T : n <= m
  BY <1>4
<1> QED BY <1>5

LEMMA Largest ==
  ASSUME NEW T, NEW max \in Nat, T \subseteq 0..max, T # {}
  PROVE  \E n \in T : \A m \in T : m <= n
<1> DEFINE U == {max - n : n \in T}
<1>1. U \subseteq Nat /\ U # {}
  <2>1. \A n \in T : n \in 0..max
    OBVIOUS
  <2>2. \A n \in T : max - n \in Nat /\ max - n \in U
    BY <2>1
  <2> QED BY <2>2
<1> HIDE DEF U
<1>2. PICK u \in U : \A v \in U : u <= v
  BY <1>1, Smallest
<1> USE DEF U
<1>3. PICK n \in T : u = max - n
  OBVIOUS
<1>4. ASSUME NEW m \in T PROVE m <= n
  <2>1. max - n <= max - m
    BY <1>2, <1>3
  <2> QED BY <2>1
<1> QED BY <1>4

\* Where split('.') cuts what is behind the hyphen at k, with both ends.
Cuts(s, k) == {a \in k..Len(s) + 1 : a = k \/ a = Len(s) + 1 \/ s[a] = "."}

\* What lies between two neighbouring cuts is a number.
Numbers(s, k) ==
  \A a, b \in Cuts(s, k) :
    a < b /\ (\A j \in a + 1..b - 1 : s[j] # ".") => Digits(SubSeq(s, a + 1, b - 1))

LEMMA DigitsBetween ==
  ASSUME NEW C, NEW s \in Seq(C), NEW a \in 0..Len(s), NEW b \in 1..Len(s) + 1, a < b
  PROVE  Digits(SubSeq(s, a + 1, b - 1)) <=> a + 1 < b /\ \A j \in a + 1..b - 1 : s[j] = "d"
<1> DEFINE p == SubSeq(s, a + 1, b - 1)
<1>1. Len(s) \in Nat
  OBVIOUS
<1>2. Len(p) = b - 1 - a /\ \A i \in 1..b - 1 - a : p[i] = s[a + i]
  BY <1>1
<1>3. p \in Seq(C) /\ (p = <<>> <=> Len(p) = 0)
  BY <1>1
<1> HIDE DEF p
<1>4. p # <<>> <=> a + 1 < b
  BY <1>1, <1>2, <1>3
<1>5. (\A i \in 1..Len(p) : p[i] = "d") <=> \A j \in a + 1..b - 1 : s[j] = "d"
  <2>1. ASSUME \A i \in 1..Len(p) : p[i] = "d", NEW j \in a + 1..b - 1 PROVE s[j] = "d"
    <3>1. j - a \in 1..b - 1 - a /\ a + (j - a) = j
      BY <1>1
    <3> QED BY <1>2, <2>1, <3>1
  <2>2. ASSUME \A j \in a + 1..b - 1 : s[j] = "d", NEW i \in 1..Len(p) PROVE p[i] = "d"
    <3>1. a + i \in a + 1..b - 1 /\ i \in 1..b - 1 - a
      BY <1>1, <1>2
    <3> QED BY <1>2, <2>2, <3>1
  <2> QED BY <2>1, <2>2
<1> QED BY <1>4, <1>5 DEF Digits, p

\* The cuts next to a position behind the hyphen.
LEMMA NextCut ==
  ASSUME NEW C, NEW s \in Seq(C), NEW k \in 1..Len(s), NEW i \in k..Len(s)
  PROVE  \E b \in Cuts(s, k) : i < b /\ \A j \in i + 1..b - 1 : s[j] # "."
<1> DEFINE T == {b \in Cuts(s, k) : i < b}
<1>1. Len(s) \in Nat /\ k \in Nat /\ i \in Nat /\ i < Len(s) + 1
  OBVIOUS
<1>2. Len(s) + 1 \in T /\ T \subseteq Nat
  BY <1>1 DEF Cuts
<1>3. PICK b \in T : \A m \in T : b <= m
  <2> HIDE DEF T
  <2> QED BY <1>2, Smallest
<1>4. b \in k..Len(s) + 1
  BY DEF Cuts
<1>5. ASSUME NEW j \in i + 1..b - 1, s[j] = "." PROVE FALSE
  <2>1. j \in k..Len(s) + 1 /\ i < j /\ ~(b <= j)
    BY <1>1, <1>4
  <2>2. j \in T
    BY <1>5, <2>1 DEF Cuts
  <2> QED BY <1>3, <2>1, <2>2
<1> QED BY <1>3, <1>5

LEMMA LastCut ==
  ASSUME NEW C, NEW s \in Seq(C), NEW k \in 1..Len(s), NEW i \in k + 1..Len(s)
  PROVE  \E a \in Cuts(s, k) : a < i /\ \A j \in a + 1..i - 1 : s[j] # "."
<1> DEFINE T == {a \in Cuts(s, k) : a < i}
<1>1. Len(s) \in Nat /\ k \in Nat /\ i \in Nat /\ k < i /\ i <= Len(s)
  OBVIOUS
<1>2. k \in T /\ T \subseteq 0..Len(s)
  BY <1>1 DEF Cuts
<1>3. PICK a \in T : \A m \in T : m <= a
  <2> HIDE DEF T
  <2> QED BY <1>1, <1>2, Largest
<1>4. a \in k..Len(s) + 1
  BY DEF Cuts
<1>5. ASSUME NEW j \in a + 1..i - 1, s[j] = "." PROVE FALSE
  <2>1. j \in k..Len(s) + 1 /\ j < i /\ ~(j <= a)
    BY <1>1, <1>4
  <2>2. j \in T
    BY <1>5, <2>1 DEF Cuts
  <2> QED BY <1>3, <2>1, <2>2
<1> QED BY <1>3, <1>5

\* What PortShape asks of each position.
InShape(s, k, i) ==
  \/ s[i] = "d"
  \/ /\ i = k \/ (i > k /\ s[i] = ".")
     /\ i > 1 /\ i < Len(s) /\ s[i - 1] = "d" /\ s[i + 1] = "d"

\* With a number on each side of every cut, the string has the shape.
LEMMA PartsMakeShape ==
  ASSUME NEW C, NEW s \in Seq(C), NEW k \in 1..Len(s),
         Digits(SubSeq(s, 1, k - 1)), k < Len(s), Numbers(s, k)
  PROVE  \A i \in 1..Len(s) : InShape(s, k, i)
<1> DEFINE N == Len(s)
<1>1. N \in Nat /\ k \in Nat /\ 0 \in 0..N /\ k \in 1..N + 1
  OBVIOUS
<1>2. 1 < k /\ \A j \in 1..k - 1 : s[j] = "d"
  <2>1. Digits(SubSeq(s, 0 + 1, k - 1))
    OBVIOUS
  <2>2. 0 + 1 < k /\ \A j \in 0 + 1..k - 1 : s[j] = "d"
    BY <1>1, <2>1, DigitsBetween
  <2> QED BY <2>2
<1>3. ASSUME NEW a \in Cuts(s, k), NEW b \in Cuts(s, k), a < b, \A j \in a + 1..b - 1 : s[j] # "."
      PROVE  a + 1 < b /\ \A j \in a + 1..b - 1 : s[j] = "d"
  <2>1. Digits(SubSeq(s, a + 1, b - 1))
    BY <1>3 DEF Numbers
  <2>2. a \in 0..N /\ b \in 1..N + 1
    BY <1>1, <1>3 DEF Cuts
  <2> QED BY <1>3, <2>1, <2>2, DigitsBetween
\* Behind a cut there is a digit, and in front of one.
<1>4. ASSUME NEW a \in Cuts(s, k), a <= N PROVE a < N /\ s[a + 1] = "d"
  <2>1. a \in k..N
    BY <1>1, <1>4 DEF Cuts
  <2>2. PICK b \in Cuts(s, k) : a < b /\ \A j \in a + 1..b - 1 : s[j] # "."
    BY <2>1, NextCut
  <2>3. a + 1 < b /\ \A j \in a + 1..b - 1 : s[j] = "d"
    BY <1>3, <2>2
  <2>4. a \in Nat /\ b \in Nat /\ b <= N + 1
    BY <1>1, <2>1 DEF Cuts
  <2>5. a < N /\ a + 1 \in a + 1..b - 1
    BY <1>1, <2>3, <2>4
  <2> QED BY <2>3, <2>5
<1>5. ASSUME NEW b \in Cuts(s, k), b > k, b <= N PROVE s[b - 1] = "d"
  <2>1. b \in k + 1..N
    BY <1>1, <1>5 DEF Cuts
  <2>2. PICK a \in Cuts(s, k) : a < b /\ \A j \in a + 1..b - 1 : s[j] # "."
    BY <2>1, LastCut
  <2>3. a + 1 < b /\ \A j \in a + 1..b - 1 : s[j] = "d"
    BY <1>3, <2>2
  <2>4. a \in Nat /\ b \in Nat
    BY <1>1, <2>1 DEF Cuts
  <2>5. b - 1 \in a + 1..b - 1
    BY <2>3, <2>4
  <2> QED BY <2>3, <2>5
<1> SUFFICES ASSUME NEW i \in 1..N PROVE InShape(s, k, i)
  OBVIOUS
<1>6. CASE i < k
  BY <1>1, <1>2, <1>6 DEF InShape
<1>7. CASE i = k
  <2>1. k \in Cuts(s, k) /\ k <= N
    BY <1>1 DEF Cuts
  <2>2. k < N /\ s[k + 1] = "d"
    BY <1>4, <2>1
  <2>3. s[k - 1] = "d"
    BY <1>1, <1>2
  <2> QED BY <1>2, <1>7, <2>2, <2>3 DEF InShape
<1>8. CASE i > k /\ s[i] = "."
  <2>1. i \in Cuts(s, k) /\ i <= N
    BY <1>1, <1>8 DEF Cuts
  <2>2. i < N /\ s[i + 1] = "d" /\ s[i - 1] = "d"
    BY <1>4, <1>5, <1>8, <2>1
  <2>3. i > 1
    BY <1>1, <1>8
  <2> QED BY <1>8, <2>2, <2>3 DEF InShape
<1>9. CASE i > k /\ s[i] # "."
  <2>1. i \in k..N /\ i \in k + 1..N
    BY <1>1, <1>9
  <2>2. PICK a \in Cuts(s, k) : a < i /\ \A j \in a + 1..i - 1 : s[j] # "."
    BY <2>1, LastCut
  <2>3. PICK b \in Cuts(s, k) : i < b /\ \A j \in i + 1..b - 1 : s[j] # "."
    BY <2>1, NextCut
  <2>4. a \in Nat /\ b \in Nat /\ a < b /\ i \in a + 1..b - 1
    BY <1>1, <2>2, <2>3 DEF Cuts
  <2>5. \A j \in a + 1..b - 1 : j = i \/ j \in a + 1..i - 1 \/ j \in i + 1..b - 1
    BY <1>1, <2>4
  <2>6. \A j \in a + 1..b - 1 : s[j] # "."
    BY <1>9, <2>2, <2>3, <2>5
  <2>7. s[i] = "d"
    BY <1>3, <2>4, <2>6
  <2> QED BY <2>7 DEF InShape
<1> QED BY <1>1, <1>6, <1>7, <1>8, <1>9

\* The other way round: what has the shape is taken apart into numbers.
LEMMA ShapeMakesParts ==
  ASSUME NEW C, NEW s \in Seq(C), NEW k \in 1..Len(s), s[k] = "-",
         \A i \in 1..Len(s) : InShape(s, k, i)
  PROVE  /\ \A j \in 1..k - 1 : s[j] # "-"
         /\ Digits(SubSeq(s, 1, k - 1)) /\ k < Len(s) /\ Numbers(s, k)
<1> DEFINE N == Len(s)
<1>1. N \in Nat /\ k \in Nat /\ 0 \in 0..N /\ k \in 1..N + 1
  OBVIOUS
<1>2. \A j \in 1..k - 1 : s[j] = "d"
  <2>1. \A j \in 1..k - 1 : j \in 1..N /\ j # k /\ ~(j > k)
    BY <1>1
  <2> QED BY <2>1 DEF InShape
<1>3. 1 < k /\ k < N /\ s[k + 1] = "d"
  BY DEF InShape
<1>4. Digits(SubSeq(s, 1, k - 1))
  <2>1. 0 + 1 < k /\ \A j \in 0 + 1..k - 1 : s[j] = "d"
    BY <1>2, <1>3
  <2>2. Digits(SubSeq(s, 0 + 1, k - 1))
    BY <1>1, <2>1, DigitsBetween
  <2> QED BY <2>2
<1>5. ASSUME NEW a \in Cuts(s, k), NEW b \in Cuts(s, k), a < b, \A j \in a + 1..b - 1 : s[j] # "."
      PROVE  Digits(SubSeq(s, a + 1, b - 1))
  <2>1. a \in k..N /\ b \in k + 1..N + 1
    BY <1>1, <1>5 DEF Cuts
  <2>2. a \in Nat /\ b \in Nat /\ a \in 1..N /\ a \in 0..N /\ b \in 1..N + 1
    BY <1>1, <2>1
  <2>3. a < N /\ s[a + 1] = "d"
    <3>1. a = k \/ s[a] = "."
      BY <1>1, <2>1 DEF Cuts
    <3>2. InShape(s, k, a) /\ s[a] # "d"
      BY <2>2, <3>1
    <3> QED BY <3>2 DEF InShape
  <2>4. a + 1 # b
    <3> SUFFICES ASSUME b = a + 1 PROVE FALSE
      OBVIOUS
    <3>1. b \in 1..N /\ b # k /\ b # N + 1
      BY <1>1, <2>1, <2>2, <2>3
    <3>2. s[b] = "."
      BY <3>1 DEF Cuts
    <3> QED BY <2>3, <3>2
  <2>5. ASSUME NEW j \in a + 1..b - 1 PROVE s[j] = "d"
    <3>1. j \in 1..N /\ j # k
      BY <1>1, <2>1
    <3>2. InShape(s, k, j) /\ s[j] # "."
      BY <1>5, <3>1
    <3> QED BY <3>1, <3>2 DEF InShape
  <2>6. a + 1 < b
    BY <1>5, <2>2, <2>4
  <2> QED BY <1>5, <2>2, <2>5, <2>6, DigitsBetween
<1> QED BY <1>2, <1>3, <1>4, <1>5 DEF Numbers

(* A selector is taken for a port path exactly if it has the shape of one  *)
(* (is_port_path), for sequences of characters of any length and alphabet. *)
THEOREM SelectorTheorem ==
  /\ \A C : \A s \in Seq(C) : is_port_path(s) <=> PortShape(s)
  /\ Spec => []SelectorsByShape
<1>1. ASSUME NEW C, NEW s \in Seq(C) PROVE is_port_path(s) <=> PortShape(s)
  <2>1. ASSUME NEW k \in 1..Len(s)
        PROVE  (\A a, b \in k..Len(s) + 1 :
                  /\ a < b /\ (a = k \/ s[a] = ".") /\ (b = Len(s) + 1 \/ s[b] = ".")
                  /\ \A j \in a + 1..b - 1 : s[j] # "."
                  => Digits(SubSeq(s, a + 1, b - 1))) <=> Numbers(s, k)
    <3>1. Len(s) \in Nat /\ k \in Nat
      OBVIOUS
    <3>2. \A a, b \in k..Len(s) + 1 : a < b => a # Len(s) + 1 /\ b # k
      BY <3>1
    <3> QED BY <3>2 DEF Numbers, Cuts
  <2>2. is_port_path(s) <=> \E k \in 1..Len(s) :
          /\ s[k] = "-" /\ \A j \in 1..k - 1 : s[j] # "-"
          /\ Digits(SubSeq(s, 1, k - 1)) /\ k < Len(s) /\ Numbers(s, k)
    BY <2>1 DEF is_port_path
  <2>3. PortShape(s) <=> \E k \in 1..Len(s) : s[k] = "-" /\ \A i \in 1..Len(s) : InShape(s, k, i)
    BY DEF PortShape, InShape
  <2>4. ASSUME is_port_path(s) PROVE PortShape(s)
    BY <2>2, <2>3, <2>4, PartsMakeShape
  <2>5. ASSUME PortShape(s) PROVE is_port_path(s)
    BY <2>2, <2>3, <2>5, ShapeMakesParts
  <2> QED BY <2>4, <2>5
<1>2. SelectorsByShape
  BY <1>1, TargetsAssumption DEF SelectorsByShape
<1>3. Spec => []SelectorsByShape
  BY <1>2, PTL
<1> QED BY <1>1, <1>3
=============================================================================
