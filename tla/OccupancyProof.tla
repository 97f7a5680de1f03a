--------------------------- MODULE OccupancyProof ---------------------------
(***************************************************************************)
(* Exclusive occupancy for any number of services, boards and nodes, as    *)
(* long as a board keeps its device node across a reset and no label goes  *)
(* through a symlink: the two cases the proof needs are the two in which   *)
(* the claim is made on a name that can come to mean something else.       *)
(***************************************************************************)
EXTENDS Occupancy, TLAPS

\* Nodes are stable, and every label names a board's port or a node.
Settled == ~Renumbers /\ \A s \in Services : Label[s].kind # "link"

Claimed == {"claimed", "open", "reopening"}

BoardsAtHome == \A b \in Boards : at[b] \in {Home[b], NoNode}

(* The proxy opens a node, and once it has claimed a device the claim is   *)
(* on the very node it opens.                                              *)
ClaimIsOnTheName ==
  \A s \in Services :
    /\ proxy[s] \in Claimed \cup {"resolved"} => mgmt[s] \in Nodes
    /\ proxy[s] \in Claimed => key[s] = mgmt[s]

\* A board reached is a board claimed.
SessionIsClaimed ==
  \A s \in Services : session[s] # NoBoard =>
    proxy[s] \in Claimed /\ key[s] = Home[session[s]]

ClaimsExclude ==
  \A s, t \in Services : key[s] = key[t] /\ key[s] # NoNode => s = t

\* The inductive invariant.
OccInv ==
  TypeOK /\ BoardsAtHome /\ ClaimIsOnTheName /\ SessionIsClaimed /\ ClaimsExclude

(* What a node leads to: itself, while a board is there (resolve.rs,       *)
(* lock_key on a device path).                                             *)
LEMMA CanonicalOfNode ==
  ASSUME OccupancyAssumption, NEW n \in Nodes
  PROVE  Canonical(n) \in {n, NoNode}
BY DEF OccupancyAssumption, Names, Canonical

(* lock_key of a node path is that path, whether or not it exists now.     *)
LEMMA LockKeyOfNode ==
  ASSUME OccupancyAssumption, NEW s \in Services, mgmt[s] \in Nodes
  PROVE  LockKey(s) = mgmt[s]
BY CanonicalOfNode DEF LockKey

(* resolve gives a proxy a device node, never a link, under Settled.       *)
LEMMA NamedIsNode ==
  ASSUME OccupancyAssumption, Settled, TypeOK, NEW s \in Services, Named(s) # NoNode
  PROVE  Named(s) \in Nodes
<1>1. Label[s] \in Labels
  BY DEF OccupancyAssumption
<1>2. CASE Label[s] \in [kind : {"usb", "link"}, board : Boards]
  <2>1. Label[s].kind = "usb" /\ Label[s].board \in Boards
    BY <1>2 DEF Settled
  <2>2. Named(s) = at[Label[s].board]
    BY <2>1 DEF Named
  <2> QED BY <2>1, <2>2 DEF TypeOK
<1>3. CASE Label[s] \in [kind : {"node"}, node : Nodes]
  BY <1>3 DEF Named
<1> QED BY <1>1, <1>2, <1>3 DEF Labels

(* The types, for every labelling and every renumbering.                   *)
LEMMA CanonicalType ==
  ASSUME OccupancyAssumption, TypeOK, NEW n
  PROVE  Canonical(n) \in Nodes \cup {NoNode}
<1>1. CASE n \in Links /\ \E b \in Boards : LinkOf[b] = n
  <2>1. (CHOOSE b \in Boards : LinkOf[b] = n) \in Boards
    BY <1>1
  <2> QED BY <1>1, <2>1 DEF Canonical, TypeOK
<1>2. CASE ~(n \in Links /\ \E b \in Boards : LinkOf[b] = n)
  BY <1>2 DEF Canonical, TypeOK
<1> QED BY <1>1, <1>2

\* resolve yields a path the lock and open can be asked about.
LEMMA NamedType ==
  ASSUME OccupancyAssumption, TypeOK, NEW s \in Services
  PROVE  Named(s) \in Names \cup {NoNode}
<1>1. Label[s] \in Labels
  BY DEF OccupancyAssumption
<1>2. CASE Label[s] \in [kind : {"usb", "link"}, board : Boards]
  <2>1. Label[s].kind \in {"usb", "link"} /\ Label[s].board \in Boards
    BY <1>2
  <2>2. Named(s) \in {at[Label[s].board], LinkOf[Label[s].board]}
    BY <2>1 DEF Named
  <2> QED BY <2>1, <2>2 DEF TypeOK, OccupancyAssumption, Names
<1>3. CASE Label[s] \in [kind : {"node"}, node : Nodes]
  BY <1>3 DEF Named, Names
<1> QED BY <1>1, <1>2, <1>3 DEF Labels

\* Every step keeps the variables of a service in range.
LEMMA TypeStep ==
  ASSUME OccupancyAssumption, TypeOK, [Next]_vars
  PROVE  TypeOK'
<1>1. ASSUME NEW s \in Services,
             AcquireLabel(s) \/ Spawn(s) \/ CreateExits(s) \/ Started(s)
      PROVE  TypeOK'
  BY <1>1 DEF TypeOK, AcquireLabel, Spawn, CreateExits, Started, Stages
<1>2. ASSUME NEW s \in Services, Resolve(s) PROVE TypeOK'
  BY <1>2, NamedType DEF TypeOK, Resolve, Stages
<1>3. ASSUME NEW s \in Services, ClaimDevice(s) PROVE TypeOK'
  <2>1. LockKey(s) \in Names \cup {NoNode}
    BY CanonicalType DEF LockKey, TypeOK, Names
  <2> QED BY <1>3, <2>1 DEF TypeOK, ClaimDevice, Stages
<1>4. ASSUME NEW s \in Services, Connect(s) PROVE TypeOK'
  BY <1>4 DEF TypeOK, Connect, Stages
<1>5. ASSUME NEW s \in Services, Disconnect(s) \/ Dies(s) PROVE TypeOK'
  BY <1>5 DEF TypeOK, Disconnect, Dies, Stages
<1>6. ASSUME NEW b \in Boards, NEW n \in Nodes, Returns(b, n) PROVE TypeOK'
  BY <1>6 DEF TypeOK, Returns
<1>7. ASSUME NEW b \in Boards, Leaves(b) PROVE TypeOK'
  BY <1>7 DEF TypeOK, Leaves
<1>8. CASE UNCHANGED vars
  BY <1>8 DEF vars, TypeOK
<1> QED BY <1>1, <1>2, <1>3, <1>4, <1>5, <1>6, <1>7, <1>8 DEF Next

(* Connecting reaches exactly the board whose home is the claimed node.    *)
LEMMA ConnectReachesClaim ==
  ASSUME OccupancyAssumption, OccInv, NEW s \in Services, Connect(s)
  PROVE  \E b \in Boards : /\ Home[b] = key[s]
                           /\ session' = [session EXCEPT ![s] = b]
                           /\ port' = [port EXCEPT ![s] = at[b]]
                           /\ at[b] \in Nodes
                           /\ \A t \in Services : port[t] # at[b]
<1>1. mgmt[s] \in Nodes /\ key[s] = mgmt[s]
  BY DEF Connect, OccInv, ClaimIsOnTheName, Claimed
<1>2. PICK b \in Boards : /\ Canonical(mgmt[s]) = at[b] /\ at[b] # NoNode
                          /\ \A t \in Services : port[t] # at[b]
                          /\ port' = [port EXCEPT ![s] = at[b]]
                          /\ session' = [session EXCEPT ![s] = b]
  BY DEF Connect
<1>3. at[b] = mgmt[s] /\ at[b] = Home[b] /\ at[b] \in Nodes
  BY <1>1, <1>2, CanonicalOfNode DEF OccInv, BoardsAtHome, TypeOK
<1> QED BY <1>1, <1>2, <1>3

\* Before any service has claimed anything the invariant is vacuous.
LEMMA InitOccInv == ASSUME OccupancyAssumption, Init PROVE OccInv
BY DEF OccupancyAssumption, Names, Init, OccInv, TypeOK, BoardsAtHome, ClaimIsOnTheName,
       SessionIsClaimed, ClaimsExclude, Stages, Claimed

\* Claims stay exclusive, and an open port stays the claimed one, over every step.
LEMMA StepOccInv ==
  ASSUME OccupancyAssumption, Settled, OccInv, [Next]_vars
  PROVE  OccInv'
<1> USE DEF OccInv
<1>0. TypeOK'
  BY TypeStep
<1>1. ASSUME NEW s \in Services,
             AcquireLabel(s) \/ Spawn(s) \/ CreateExits(s) \/ Started(s)
      PROVE  OccInv'
  <2>1. ClaimIsOnTheName' /\ SessionIsClaimed'
    BY <1>1 DEF TypeOK, ClaimIsOnTheName, SessionIsClaimed, Claimed,
                AcquireLabel, Spawn, CreateExits, Started
  <2>2. BoardsAtHome' /\ ClaimsExclude'
    BY <1>1 DEF BoardsAtHome, ClaimsExclude, AcquireLabel, Spawn, CreateExits, Started
  <2> QED BY <1>0, <2>1, <2>2
<1>2. ASSUME NEW s \in Services, Resolve(s) PROVE OccInv'
  <2>1. Named(s) \in Nodes
    BY <1>2, NamedIsNode DEF Resolve
  <2>2. ClaimIsOnTheName' /\ SessionIsClaimed'
    BY <1>2, <2>1 DEF TypeOK, ClaimIsOnTheName, SessionIsClaimed, Claimed, Resolve
  <2>3. BoardsAtHome' /\ ClaimsExclude'
    BY <1>2 DEF BoardsAtHome, ClaimsExclude, Resolve
  <2> QED BY <1>0, <2>2, <2>3
<1>3. ASSUME NEW s \in Services, ClaimDevice(s) PROVE OccInv'
  <2>1. mgmt[s] \in Nodes /\ LockKey(s) = mgmt[s]
    BY <1>3, LockKeyOfNode DEF ClaimDevice, ClaimIsOnTheName
  <2>2. ClaimIsOnTheName' /\ SessionIsClaimed'
    BY <1>3, <2>1 DEF TypeOK, ClaimIsOnTheName, SessionIsClaimed, Claimed, ClaimDevice
  <2>3. ClaimsExclude'
    BY <1>3, <2>1 DEF TypeOK, ClaimsExclude, ClaimDevice
  <2>4. BoardsAtHome'
    BY <1>3 DEF BoardsAtHome, ClaimDevice
  <2> QED BY <1>0, <2>2, <2>3, <2>4
<1>4. ASSUME NEW s \in Services, Connect(s) PROVE OccInv'
  <2>1. PICK b \in Boards : /\ Home[b] = key[s]
                            /\ session' = [session EXCEPT ![s] = b]
                            /\ port' = [port EXCEPT ![s] = at[b]]
                            /\ at[b] \in Nodes
    BY <1>4, ConnectReachesClaim
  <2>2. ClaimIsOnTheName' /\ SessionIsClaimed'
    BY <1>4, <2>1 DEF TypeOK, ClaimIsOnTheName, SessionIsClaimed, Claimed, Connect
  <2>3. BoardsAtHome' /\ ClaimsExclude'
    BY <1>4 DEF BoardsAtHome, ClaimsExclude, Connect
  <2> QED BY <1>0, <2>2, <2>3
<1>5. ASSUME NEW s \in Services, Disconnect(s) \/ Dies(s) PROVE OccInv'
  <2>1. ClaimIsOnTheName' /\ SessionIsClaimed'
    BY <1>5 DEF TypeOK, ClaimIsOnTheName, SessionIsClaimed, Claimed, Disconnect, Dies
  <2>2. BoardsAtHome' /\ ClaimsExclude'
    BY <1>5 DEF TypeOK, BoardsAtHome, ClaimsExclude, Disconnect, Dies
  <2> QED BY <1>0, <2>1, <2>2
<1>6. ASSUME NEW b \in Boards, NEW n \in Nodes, Returns(b, n) PROVE OccInv'
  <2>1. ClaimIsOnTheName' /\ SessionIsClaimed' /\ ClaimsExclude'
    BY <1>6 DEF ClaimIsOnTheName, SessionIsClaimed, ClaimsExclude, Claimed, Returns
  <2>2. BoardsAtHome'
    BY <1>6 DEF TypeOK, BoardsAtHome, Returns, Settled
  <2> QED BY <1>0, <2>1, <2>2
<1>7. ASSUME NEW b \in Boards, Leaves(b) PROVE OccInv'
  <2>1. ClaimIsOnTheName' /\ SessionIsClaimed' /\ ClaimsExclude'
    BY <1>7 DEF ClaimIsOnTheName, SessionIsClaimed, ClaimsExclude, Claimed, Leaves
  <2>2. BoardsAtHome'
    BY <1>7 DEF TypeOK, BoardsAtHome, Leaves
  <2> QED BY <1>0, <2>1, <2>2
<1>8. CASE UNCHANGED vars
  BY <1>0, <1>8 DEF vars, BoardsAtHome, ClaimIsOnTheName, SessionIsClaimed, ClaimsExclude
<1> QED BY <1>1, <1>2, <1>3, <1>4, <1>5, <1>6, <1>7, <1>8 DEF Next

-----------------------------------------------------------------------------
(* The stages, the two locks and the open port agree with each other at    *)
(* every point of every service's life.                                    *)
THEOREM OccupancyTypeCorrect == Spec => []TypeOK
<1>1. Init => TypeOK
  BY InitOccInv, OccupancyAssumption DEF OccInv
<1>2. TypeOK /\ [Next]_vars => TypeOK'
  BY TypeStep, OccupancyAssumption
<1> QED BY <1>1, <1>2, PTL DEF Spec

(* Two proxies never reach one board, whichever labels their services      *)
(* carry: the resolved-device lock is the authoritative claim (proxy.rs,   *)
(* "Claim the BOARD").                                                     *)
THEOREM ExclusionTheorem ==
  ASSUME Settled
  PROVE  Spec => []OneServicePerBoard
<1>1. Init => OccInv
  BY InitOccInv, OccupancyAssumption
<1>2. OccInv /\ [Next]_vars => OccInv'
  BY StepOccInv, OccupancyAssumption
<1>3. OccInv => OneServicePerBoard
  <2> SUFFICES ASSUME OccInv, NEW s \in Services, NEW t \in Services,
                      session[s] = session[t], session[s] # NoBoard
               PROVE  s = t
    BY DEF OneServicePerBoard
  <2>1. key[s] = Home[session[s]] /\ key[t] = key[s]
    BY DEF OccInv, SessionIsClaimed
  <2>2. key[s] # NoNode
    BY <2>1, OccupancyAssumption DEF OccInv, TypeOK, OccupancyAssumption, Names
  <2> QED BY <2>1, <2>2 DEF OccInv, ClaimsExclude
<1> QED BY <1>1, <1>2, <1>3, PTL DEF Spec

(* What one step does to one session: it is kept, ended, or opened on the  *)
(* board whose home the service has claimed.                               *)
LEMMA SessionStep ==
  ASSUME OccupancyAssumption, Settled, OccInv, [Next]_vars
  PROVE  \/ session' = session
         \/ \E s \in Services : session' = [session EXCEPT ![s] = NoBoard]
         \/ \E s \in Services, b \in Boards :
              Home[b] = key[s] /\ key[s] # NoNode /\ session' = [session EXCEPT ![s] = b]
<1>1. ASSUME NEW s \in Services, Connect(s)
      PROVE  \E b \in Boards :
               Home[b] = key[s] /\ key[s] # NoNode /\ session' = [session EXCEPT ![s] = b]
  BY <1>1, ConnectReachesClaim DEF OccupancyAssumption, Names
<1>2. ASSUME NEW s \in Services, Dies(s) PROVE session' = [session EXCEPT ![s] = NoBoard]
  BY <1>2 DEF Dies
<1>3. CASE /\ ~\E s \in Services : Connect(s)
           /\ ~\E s \in Services : Dies(s)
  <2>1. session' = session
    BY <1>3 DEF Next, vars, AcquireLabel, Spawn, CreateExits, Started, Resolve, ClaimDevice,
                Disconnect, Leaves, Returns
  <2> QED BY <2>1
<1> QED BY <1>1, <1>2, <1>3

(* A board that has a session is not claimed by anyone else, and a service *)
(* with a session claims only that board.                                  *)
LEMMA TakenIsFree ==
  ASSUME OccupancyAssumption, OccInv, NEW s \in Services, NEW b \in Boards,
         Home[b] = key[s], key[s] # NoNode
  PROVE  /\ session[s] \in {b, NoBoard}
         /\ \A t \in Services : session[t] = b => t = s
<1>1. session[s] \in {b, NoBoard}
  BY DEF OccInv, SessionIsClaimed, TypeOK, OccupancyAssumption
<1>2. ASSUME NEW t \in Services, session[t] = b PROVE t = s
  BY <1>2 DEF OccInv, SessionIsClaimed, ClaimsExclude, OccupancyAssumption
<1> QED BY <1>1, <1>2

(* The label lock, the resolved-device lock and the port together          *)
(* implement the one-service-one-MCU specification.                        *)
THEOREM OccupancyRefines ==
  ASSUME Settled
  PROVE  Spec => OneMcuSpec
<1>1. Init => OccInv
  BY InitOccInv, OccupancyAssumption
<1>2. OccInv /\ [Next]_vars => OccInv'
  BY StepOccInv, OccupancyAssumption
<1>3. Init => OM!Init
  BY DEF Init, OM!Init
<1>4. OccInv /\ [Next]_vars => [OM!Next]_session
  <2> SUFFICES ASSUME OccInv, [Next]_vars,
                      session' # session
               PROVE  OM!Next
    OBVIOUS
  <2>1. session \in [Services -> Boards \cup {NoBoard}]
    BY DEF OccInv, TypeOK
  <2>2. CASE \E s \in Services : session' = [session EXCEPT ![s] = NoBoard]
    BY <2>2 DEF OM!Next, OM!Release
  <2>3. ASSUME NEW s \in Services, NEW b \in Boards, Home[b] = key[s], key[s] # NoNode,
               session' = [session EXCEPT ![s] = b]
        PROVE  OM!Take(s, b)
    <3>1. session[s] = NoBoard
      BY <2>1, <2>3, TakenIsFree, OccupancyAssumption
    <3>2. \A t \in Services : session[t] # b
      BY <2>3, <3>1, TakenIsFree, OccupancyAssumption DEF OccupancyAssumption
    <3> QED BY <2>3, <3>1, <3>2 DEF OM!Take
  <2> QED BY <2>2, <2>3, SessionStep, OccupancyAssumption DEF OM!Next
<1> QED BY <1>1, <1>2, <1>3, <1>4, PTL DEF Spec, OneMcuSpec, OM!Spec

-----------------------------------------------------------------------------
(* The label lock *)

\* The proxy has the lock's description open, and only one service does.
LabelInv ==
  /\ \A s \in Services : proxy[s] # "none" => "proxy" \in fds[s]
  /\ \A s, t \in Services : LockName[s] = LockName[t] /\ fds[s] # {} /\ fds[t] # {} => s = t

LEMMA LabelStep == ASSUME TypeOK, LabelInv, [Next]_vars PROVE LabelInv'
<1>1. ASSUME NEW s \in Services, AcquireLabel(s) PROVE LabelInv'
  <2>1. \A t \in Services : fds[t] # {} => LockName[t] # LockName[s]
    BY <1>1 DEF AcquireLabel, LabelFree
  <2> QED BY <1>1, <2>1 DEF TypeOK, LabelInv, AcquireLabel
<1>2. ASSUME NEW s \in Services, Spawn(s) PROVE LabelInv'
  <2>1. /\ fds[s] # {} /\ fds' = [fds EXCEPT ![s] = {"create", "proxy"}]
        /\ proxy' = [proxy EXCEPT ![s] = "waiting"]
    BY <1>2 DEF Spawn
  <2> QED BY <2>1 DEF TypeOK, LabelInv
<1>3. ASSUME NEW s \in Services, CreateExits(s) PROVE LabelInv'
  <2>1. /\ fds[s] # {} /\ fds' = [fds EXCEPT ![s] = @ \ {"create"}] /\ proxy' = proxy
    BY <1>3 DEF CreateExits
  <2> QED BY <2>1 DEF TypeOK, LabelInv
<1>4. ASSUME NEW s \in Services, Dies(s) PROVE LabelInv'
  <2>1. /\ fds[s] # {} /\ fds' = [fds EXCEPT ![s] = @ \ {"proxy"}]
        /\ proxy' = [proxy EXCEPT ![s] = "none"]
    BY <1>4 DEF Dies, LabelInv
  <2> QED BY <2>1 DEF TypeOK, LabelInv
<1>5. ASSUME NEW s \in Services,
             \/ Started(s) \/ Resolve(s) \/ ClaimDevice(s) \/ Connect(s) \/ Disconnect(s)
      PROVE  LabelInv'
  <2>1. fds' = fds /\ \A t \in Services : proxy'[t] # "none" => proxy[t] # "none"
    BY <1>5 DEF TypeOK, Started, Resolve, ClaimDevice, Connect, Disconnect
  <2> QED BY <2>1 DEF LabelInv
<1>6. CASE fds' = fds /\ proxy' = proxy
  BY <1>6 DEF LabelInv
<1> QED BY <1>1, <1>2, <1>3, <1>4, <1>5, <1>6 DEF Next, Leaves, Returns, vars

(* However many services carry one label, and however their creates and    *)
(* proxies overlap, one proxy of the label lives, and while it does no     *)
(* create of that label holds the lock (spawn clears FD_CLOEXEC).          *)
THEOREM LabelTheorem == Spec => []OneProxyPerLabel
<1>1. Init => TypeOK /\ LabelInv
  BY InitOccInv, OccupancyAssumption DEF OccInv, Init, LabelInv
<1>2. TypeOK /\ LabelInv /\ [Next]_vars => (TypeOK /\ LabelInv)'
  BY TypeStep, LabelStep, OccupancyAssumption
<1>3. LabelInv => OneProxyPerLabel
  BY DEF LabelInv, OneProxyPerLabel
<1> QED BY <1>1, <1>2, <1>3, PTL DEF Spec
=============================================================================
