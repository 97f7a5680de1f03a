------------------------------ MODULE Occupancy ------------------------------
(***************************************************************************)
(* Who may work on which board: the label lock create takes and the proxy  *)
(* inherits (lock.rs acquire, proxy.rs spawn), the resolution of the label *)
(* to a device node (resolve.rs), the lock on the resolved device          *)
(* (lock.rs acquire_resolved, resolve.rs lock_key), and the opens of that  *)
(* device over the life of a deploy (flash.rs connect, reconnect).  Boards *)
(* come and go on the bus, and the kernel names the device node they get.  *)
(***************************************************************************)
CONSTANTS
  Services, Boards, NoBoard,
  Nodes, NoNode,   \* device nodes (/dev/ttyACM*)
  Links,           \* udev symlinks (/dev/runtt/<tag>-mgmt), one name per board
  LinkOf,          \* the symlink naming each board
  Label,           \* the placement label of each service, see Labels
  LockName,        \* the occupancy file each service's label is sanitised to
  Home,            \* the node each board has at the start
  Renumbers        \* a board that re-enumerates may get another node

(* usb: names a board by its port or serial, and resolves to a node;       *)
(* link and node are tty: labels, a symlink to the board and a plain node. *)
Labels == [kind : {"usb", "link"}, board : Boards] \cup [kind : {"node"}, node : Nodes]

Names == Nodes \cup Links

ASSUME OccupancyAssumption ==
  /\ NoBoard \notin Boards /\ NoNode \notin Names
  /\ Nodes \cap Links = {}
  /\ LinkOf \in [Boards -> Links]
  /\ Label \in [Services -> Labels]
  /\ Home \in [Boards -> Nodes]
  /\ \A b, c \in Boards : Home[b] = Home[c] => b = c
  /\ Renumbers \in BOOLEAN

VARIABLES
  at,      \* the node of each board, NoNode while it is off the bus
  fds,     \* the processes of a service holding its label lock's description
  proxy,   \* where the service's proxy is
  mgmt,    \* Resolved::Serial.mgmt: the name the proxy opens
  key,     \* the resolved-device lock the proxy holds
  port,    \* the node the proxy has open (serialport flocks it)
  session  \* history: the board this proxy has been talking to

vars == <<at, fds, proxy, mgmt, key, port, session>>

Stages == {"none", "waiting", "started", "resolved", "claimed", "open", "reopening"}

TypeOK ==
  /\ at \in [Boards -> Nodes \cup {NoNode}]
  /\ fds \in [Services -> SUBSET {"create", "proxy"}]
  /\ proxy \in [Services -> Stages]
  /\ mgmt \in [Services -> Names \cup {NoNode}]
  /\ key \in [Services -> Names \cup {NoNode}]
  /\ port \in [Services -> Nodes \cup {NoNode}]
  /\ session \in [Services -> Boards \cup {NoBoard}]
  /\ \A s \in Services : proxy[s] = "open" <=> port[s] # NoNode

Init ==
  /\ at = Home
  /\ fds = [s \in Services |-> {}]
  /\ proxy = [s \in Services |-> "none"]
  /\ mgmt = [s \in Services |-> NoNode]
  /\ key = [s \in Services |-> NoNode]
  /\ port = [s \in Services |-> NoNode]
  /\ session = [s \in Services |-> NoBoard]

-----------------------------------------------------------------------------
(* create *)

(* acquire: the label lock belongs to an open file description, so it is   *)
(* free once no process of the claiming service has it open.               *)
LabelFree(s) == \A t \in Services : fds[t] # {} => LockName[t] # LockName[s]

AcquireLabel(s) ==
  /\ fds[s] = {} /\ proxy[s] = "none" /\ LabelFree(s)
  /\ fds' = [fds EXCEPT ![s] = {"create"}]
  /\ UNCHANGED <<at, proxy, mgmt, key, port, session>>

\* Mutant: the descriptor is closed on exec.
SpawnClosesOnExec(s) ==
  /\ fds[s] = {"create"} /\ proxy[s] = "none"
  /\ proxy' = [proxy EXCEPT ![s] = "waiting"]
  /\ UNCHANGED <<at, fds, mgmt, key, port, session>>

\* spawn: FD_CLOEXEC was cleared, so the proxy inherits the descriptor.
Spawn(s) ==
  /\ fds[s] = {"create"} /\ proxy[s] = "none"
  /\ fds' = [fds EXCEPT ![s] = {"create", "proxy"}]
  /\ proxy' = [proxy EXCEPT ![s] = "waiting"]
  /\ UNCHANGED <<at, mgmt, key, port, session>>

\* create returns, having spawned or not.
CreateExits(s) ==
  /\ "create" \in fds[s]
  /\ fds' = [fds EXCEPT ![s] = @ \ {"create"}]
  /\ UNCHANGED <<at, proxy, mgmt, key, port, session>>

-----------------------------------------------------------------------------
(* The proxy *)

\* SIGUSR1 from start.
Started(s) ==
  /\ proxy[s] = "waiting"
  /\ proxy' = [proxy EXCEPT ![s] = "started"]
  /\ UNCHANGED <<at, fds, mgmt, key, port, session>>

\* The node a name leads to now; NoNode when nothing is there.
Canonical(n) ==
  IF n \in Links
  THEN IF \E b \in Boards : LinkOf[b] = n
       THEN at[CHOOSE b \in Boards : LinkOf[b] = n] ELSE NoNode
  ELSE IF \E b \in Boards : at[b] = n THEN n ELSE NoNode

\* resolve: a usb label is looked up in sysfs, a tty label is taken literally.
Named(s) ==
  CASE Label[s].kind = "usb"  -> at[Label[s].board]
    [] Label[s].kind = "link" -> LinkOf[Label[s].board]
    [] Label[s].kind = "node" -> Label[s].node

Resolve(s) ==
  /\ proxy[s] = "started"
  /\ Named(s) # NoNode /\ Canonical(Named(s)) # NoNode
  /\ mgmt' = [mgmt EXCEPT ![s] = Named(s)]
  /\ proxy' = [proxy EXCEPT ![s] = "resolved"]
  /\ UNCHANGED <<at, fds, key, port, session>>

\* lock_key: the canonical path, or the unresolved one if that fails.
LockKey(s) == IF Canonical(mgmt[s]) # NoNode THEN Canonical(mgmt[s]) ELSE mgmt[s]

\* Mutant: the label lock is taken to be enough.
ClaimNothing(s) ==
  /\ proxy[s] = "resolved"
  /\ proxy' = [proxy EXCEPT ![s] = "claimed"]
  /\ UNCHANGED <<at, fds, mgmt, key, port, session>>

\* acquire_resolved; a board already claimed ends the proxy (Dies).
ClaimDevice(s) ==
  /\ proxy[s] = "resolved"
  /\ \A t \in Services : key[t] # LockKey(s)
  /\ key' = [key EXCEPT ![s] = LockKey(s)]
  /\ proxy' = [proxy EXCEPT ![s] = "claimed"]
  /\ UNCHANGED <<at, fds, mgmt, port, session>>

\* connect: the name is opened again each time, and the port must be free.
Connect(s) ==
  /\ proxy[s] \in {"claimed", "reopening"}
  /\ \E b \in Boards :
       /\ Canonical(mgmt[s]) = at[b] /\ at[b] # NoNode
       /\ \A t \in Services : port[t] # at[b]
       /\ port' = [port EXCEPT ![s] = at[b]]
       /\ session' = [session EXCEPT ![s] = b]
  /\ proxy' = [proxy EXCEPT ![s] = "open"]
  /\ UNCHANGED <<at, fds, mgmt, key>>

\* drop(c) before reconnect.
Disconnect(s) ==
  /\ proxy[s] = "open"
  /\ proxy' = [proxy EXCEPT ![s] = "reopening"]
  /\ port' = [port EXCEPT ![s] = NoNode]
  /\ UNCHANGED <<at, fds, mgmt, key, session>>

(* The proxy ends, however: an error, a signal, SpawnGuard.  The kernel    *)
(* closes its descriptors.                                                 *)
Dies(s) ==
  /\ proxy[s] # "none"
  /\ proxy' = [proxy EXCEPT ![s] = "none"]
  /\ fds' = [fds EXCEPT ![s] = @ \ {"proxy"}]
  /\ mgmt' = [mgmt EXCEPT ![s] = NoNode]
  /\ key' = [key EXCEPT ![s] = NoNode]
  /\ port' = [port EXCEPT ![s] = NoNode]
  /\ session' = [session EXCEPT ![s] = NoBoard]
  /\ UNCHANGED at

-----------------------------------------------------------------------------
(* The bus *)

\* A board resets or is unplugged: its node goes away.
Leaves(b) ==
  /\ at[b] # NoNode
  /\ at' = [at EXCEPT ![b] = NoNode]
  /\ UNCHANGED <<fds, proxy, mgmt, key, port, session>>

(* It comes back on a node no other board has and no process still holds   *)
(* open; on its own one unless nodes are renumbered.                       *)
Returns(b, n) ==
  /\ at[b] = NoNode
  /\ \A c \in Boards : at[c] # n
  /\ \A s \in Services : port[s] # n
  /\ Renumbers \/ n = Home[b]
  /\ at' = [at EXCEPT ![b] = n]
  /\ UNCHANGED <<fds, proxy, mgmt, key, port, session>>

Next ==
  \/ \E s \in Services :
       \/ AcquireLabel(s) \/ Spawn(s) \/ CreateExits(s) \/ Started(s) \/ Resolve(s)
       \/ ClaimDevice(s) \/ Connect(s) \/ Disconnect(s) \/ Dies(s)
  \/ \E b \in Boards : Leaves(b)
  \/ \E b \in Boards, n \in Nodes : Returns(b, n)

Spec == Init /\ [][Next]_vars

-----------------------------------------------------------------------------
(* Properties *)

(* Two runtimes never flash one MCU: from the moment a proxy first reaches *)
(* a board until it ends, no other proxy reaches that board.               *)
OneServicePerBoard ==
  \A s, t \in Services : session[s] = session[t] /\ session[s] # NoBoard => s = t

(* A label has one proxy.  While it lives no other create of the label     *)
(* gets past the lock, although the create that took it has returned: the  *)
(* lock is the one the proxy inherited.                                    *)
OneProxyPerLabel ==
  \A s, t \in Services :
    LockName[s] = LockName[t] /\ proxy[s] # "none" /\ (fds[t] # {} \/ proxy[t] # "none") => s = t

OM == INSTANCE OneMcu WITH using <- session

(* The two locks together implement exclusive occupancy.                   *)
OneMcuSpec == OM!Spec
=============================================================================
