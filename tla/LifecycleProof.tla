--------------------------- MODULE LifecycleProof ---------------------------
(***************************************************************************)
(* The occupancy lock, the state file and the verbs, for any number of     *)
(* verb processes, PIDs and creates.                                       *)
(***************************************************************************)
EXTENDS Lifecycle, TLAPS

(* What a call of Send leaves well-typed.                                  *)
LEMMA SendTypes ==
  ASSUME TypeOK, NEW p, NEW s \in AllSignals, Send(p, s)
  PROVE  /\ pend' \in [Pids -> SUBSET AllSignals] /\ sent' \in [Pids -> SUBSET AllSignals]
         /\ \A q \in Pids : pend[q] \subseteq pend'[q]
         /\ \A q \in Pids : pend'[q] # pend[q] => q = p /\ proc[p] \notin {"free", "zombie"}
         /\ UNCHANGED <<proc, reg, code>>
BY DEF TypeOK, Send

\* The part of TypeOK about the verbs.
CallsOK ==
  /\ call \in [Callers -> Call]
  /\ \A c \in Callers : call[c].at \in {"idle", "create_spawn"} <=> call[c].st = NoFile
  /\ \A c \in Callers : call[c].at \in KillSteps => call[c].arg \in Signals

(* The call records stay well-formed.                                      *)
LEMMA CallTypes ==
  ASSUME LifecycleAssumption, TypeOK, [Next]_vars
  PROVE CallsOK'
<1> USE DEF CallsOK, KillSteps
<1>a. Idle \in Call /\ Idle.st = NoFile /\ Idle.at = "idle"
  BY DEF Idle, Call, Places, File
<1>1. ASSUME NEW c \in Callers, Return(c) PROVE CallsOK'
  BY <1>1, <1>a DEF Return, TypeOK
<1>2. ASSUME NEW c \in Callers, NEW step \in Places,
             Goto(c, step),
             step \in {"idle", "create_spawn"} <=> call[c].at \in {"idle", "create_spawn"},
             step \in KillSteps <=> call[c].at \in KillSteps
      PROVE CallsOK'
  BY <1>2 DEF Goto, TypeOK, Call
<1>3. ASSUME NEW c \in Callers, NEW r \in Call,
             call' = [call EXCEPT ![c] = r],
             r.at \in {"idle", "create_spawn"} <=> r.st = NoFile,
             r.at \in KillSteps => r.arg \in Signals
      PROVE CallsOK'
  BY <1>3 DEF TypeOK
<1>4. CASE UNCHANGED call
  BY <1>4 DEF TypeOK
<1>5. ASSUME NEW c \in Callers, Verb(c) PROVE CallsOK'
  <2>1. CASE CreateSpawn(c)
    <3>1. CASE Return(c)
      BY <1>1, <3>1
    <3>2. ASSUME NEW p \in Pids,
                 call' = [call EXCEPT ![c].at = "create_write",
                                      ![c].st = [status |-> "created", pid |-> p]]
          PROVE CallsOK'
      <4>1. [status |-> "created", pid |-> p] \in File \ {NoFile}
        BY DEF File, NoFile
      <4> QED BY <3>2, <4>1, ZenonT(30) DEF TypeOK, Call, Places
    <3> QED BY <2>1, <3>1, <3>2 DEF CreateSpawn
  <2>2. CASE \/ CreateWrite(c) \/ StartSignal(c) \/ KillProbe(c) \/ KillSignal(c)
             \/ DeleteProbe(c) \/ DeleteKill(c) \/ DeleteWait(c)
    BY <2>2, <1>1, <1>2 DEF CreateWrite, StartSignal, KillProbe, KillSignal, DeleteProbe,
                            DeleteKill, DeleteWait, At, Places
  <2>3. CASE CreatePidFile(c) \/ StartWrite(c) \/ KillWrite(c) \/ DeleteRemove(c)
    BY <2>3, <1>1 DEF CreatePidFile, StartWrite, KillWrite, DeleteRemove
  <2> QED BY <1>5, <2>1, <2>2, <2>3 DEF Verb
<1>6. ASSUME NEW c \in Callers, Engine(c) PROVE CallsOK'
  <2>1. CASE CreateLock(c)
    BY <2>1, <1>2 DEF CreateLock, At, Places
  <2>2. CASE VerbKilled(c)
    BY <2>2, <1>1 DEF VerbKilled
  <2>3. CASE StartRead(c)
    <3>1. file # NoFile
      BY <2>3 DEF StartRead, NoFile
    <3>2. [at |-> "start_signal", st |-> file, arg |-> "none"] \in Call
      BY DEF Call, Places, TypeOK
    <3> QED BY <2>3, <1>3, <3>1, <3>2 DEF StartRead
  <2>4. ASSUME NEW s \in Signals, KillRead(c, s) PROVE CallsOK'
    <3>1. [at |-> "kill_probe", st |-> file, arg |-> s] \in Call
      BY DEF Call, Places, TypeOK, LifecycleAssumption
    <3> QED BY <2>4, <1>3, <3>1 DEF KillRead
  <2>5. ASSUME NEW a \in {"force", "none"}, DeleteRead(c, a) PROVE CallsOK'
    <3>1. [at |-> "delete_probe", st |-> file, arg |-> a] \in Call
      BY DEF Call, Places, TypeOK
    <3> QED BY <2>5, <1>3, <3>1 DEF DeleteRead
  <2> QED BY <1>6, <2>1, <2>2, <2>3, <2>4, <2>5 DEF Engine
<1>7. ASSUME NEW p \in Pids,
             Proxy(p) \/ Kernel(p) \/ DeviceLost(p) \/ Reused(p) \/ OtherEnds(p)
      PROVE  UNCHANGED call
  BY <1>7 DEF Proxy, Kernel, DeviceLost, Reused, OtherEnds, Install, Swap, Pause, Deployed,
              DeployFailed, ResidentStops, Advance, Ends, Deliver, DefaultAction, Reap
<1> QED BY <1>4, <1>5, <1>6, <1>7 DEF Next, vars

(* The proxy, the kernel and the shim: what they do to the processes.      *)
LEMMA ProcessTypes ==
  ASSUME TypeOK, NEW p \in Pids,
         Proxy(p) \/ Kernel(p) \/ DeviceLost(p) \/ Reused(p) \/ OtherEnds(p)
  PROVE  /\ proc' \in [Pids -> Procs] /\ pend' \in [Pids -> SUBSET AllSignals]
         /\ reg' \in [Pids -> Handled \cup {"none"}]
         /\ code' \in [Pids -> {"none", "0", "1", "killed"}]
         /\ sent' \in [Pids -> SUBSET AllSignals]
         /\ \A q \in Pids : proc'[q] \in {"free", "zombie"} => pend'[q] = {}
         /\ UNCHANGED <<file, call, creates>>
<1> USE DEF TypeOK, Procs, Phases
<1>1. CASE \E status \in {"0", "1", "killed"} : Ends(p, status)
  BY <1>1 DEF Ends
<1>2. CASE Install(p) \/ Pause(p) \/ Deployed(p)
  BY <1>2 DEF Install, Pause, Deployed, Advance
<1>3. CASE Swap(p)
  BY <1>1, <1>3 DEF Swap, Advance
<1>4. CASE DeployFailed(p) \/ ResidentStops(p) \/ DeviceLost(p)
  BY <1>1, <1>4 DEF DeployFailed, ResidentStops, DeviceLost
<1>5. ASSUME NEW s \in AllSignals, Deliver(p, s)
      PROVE  /\ proc' \in [Pids -> Procs] /\ pend' \in [Pids -> SUBSET AllSignals]
             /\ reg' \in [Pids -> Handled \cup {"none"}] /\ UNCHANGED <<code, sent>>
             /\ \A q \in Pids : proc'[q] \in {"free", "zombie"} => pend'[q] = {}
             /\ UNCHANGED <<file, call, creates>>
  BY <1>5 DEF Deliver, Live
<1>6. ASSUME NEW s \in AllSignals, DefaultAction(p, s), s = "CONT"
      PROVE  /\ pend' \in [Pids -> SUBSET AllSignals] /\ UNCHANGED <<proc, reg, code, sent>>
             /\ \A q \in Pids : proc'[q] \in {"free", "zombie"} => pend'[q] = {}
             /\ UNCHANGED <<file, call, creates>>
  BY <1>6 DEF DefaultAction
<1>7. ASSUME NEW s \in AllSignals, DefaultAction(p, s), s # "CONT"
      PROVE  Ends(p, "killed")
  BY <1>7 DEF DefaultAction
<1>8. CASE Reap(p) \/ Reused(p) \/ OtherEnds(p)
  BY <1>8 DEF Reap, Reused, OtherEnds
<1>9. CASE Kernel(p)
  BY <1>1, <1>5, <1>6, <1>7, <1>8, <1>9 DEF Kernel
<1> QED BY <1>2, <1>3, <1>4, <1>8, <1>9 DEF Proxy

\* A verb leaves the processes well-typed: it spawns one or signals one.
LEMMA VerbTypes ==
  ASSUME LifecycleAssumption, TypeOK, NEW c \in Callers, Verb(c)
  PROVE  /\ file' \in File
         /\ proc' \in [Pids -> Procs] /\ pend' \in [Pids -> SUBSET AllSignals]
         /\ sent' \in [Pids -> SUBSET AllSignals]
         /\ \A q \in Pids : proc'[q] \in {"free", "zombie"} => pend'[q] = {}
         /\ UNCHANGED <<reg, code, creates>>
<1> USE DEF procVars
<1>a. call[c] \in Call /\ call[c].st \in File /\ (call[c].arg \in AllSignals \cup {"none", "force"})
  BY DEF TypeOK, Call
<1>b. \A status \in {"running", "stopped"} :
        call[c].st # NoFile => [call[c].st EXCEPT !.status = status] \in File
  BY <1>a DEF File
<1>1. CASE CreateSpawn(c)
  BY <1>1 DEF CreateSpawn, TypeOK, Procs, Phases
<1>2. CASE \E s \in AllSignals, q \in Pids : Send(q, s)
  <2>1. PICK s \in AllSignals, q \in Pids : Send(q, s)
    BY <1>2
  <2>2. proc' \in [Pids -> Procs]
    BY <2>1, SendTypes DEF TypeOK
  <2>3. \A r \in Pids : proc'[r] \in {"free", "zombie"} => pend'[r] = {}
    BY <2>1, SendTypes DEF TypeOK
  <2>4. file' \in File /\ UNCHANGED creates
    BY <1>a, <1>b, <2>1
    DEF Verb, CreateSpawn, CreateWrite, CreatePidFile, StartSignal, StartWrite, KillProbe,
        KillSignal, KillWrite, DeleteProbe, DeleteKill, DeleteWait, DeleteRemove, TypeOK,
        At, File
  <2> QED BY <2>1, <2>2, <2>3, <2>4, SendTypes
<1>3. CASE UNCHANGED procVars
  <2>1. file' \in File /\ UNCHANGED creates
    BY <1>a, <1>b
    DEF Verb, CreateSpawn, CreateWrite, CreatePidFile, StartSignal, StartWrite, KillProbe,
        KillSignal, KillWrite, DeleteProbe, DeleteKill, DeleteWait, DeleteRemove, TypeOK,
        At, File
  <2> QED BY <1>3, <2>1 DEF TypeOK
<1>4. /\ call[c].at \notin {"idle", "create_spawn"} => call[c].st.pid \in Pids
      /\ call[c].at = "kill_signal" => call[c].arg \in AllSignals
  BY <1>a DEF TypeOK, File, KillSteps, LifecycleAssumption
<1>5. ASSUME ~CreateSpawn(c)
      PROVE  UNCHANGED procVars \/ \E s \in AllSignals, q \in Pids : Send(q, s)
  BY <1>4, <1>5, <1>a
  DEF Verb, CreateWrite, CreatePidFile, StartSignal, StartWrite, KillProbe,
      KillSignal, KillWrite, DeleteProbe, DeleteKill, DeleteWait, DeleteRemove, At, AllSignals
<1> QED BY <1>1, <1>2, <1>3, <1>5

\* No container yet: no file, no process, every caller idle.
LEMMA InitTypes == ASSUME LifecycleAssumption, Init PROVE TypeOK
BY DEF LifecycleAssumption, Init, TypeOK, Procs, Phases, File, NoFile, Idle, Call, Places,
       KillSteps, Handled

\* Every step of an engine, a proxy or the kernel keeps the types.
LEMMA TypeStep ==
  ASSUME LifecycleAssumption, TypeOK, [Next]_vars
  PROVE  TypeOK'
<1>1. CallsOK'
  BY CallTypes
<1>2. ASSUME NEW c \in Callers, Verb(c) PROVE TypeOK'
  BY <1>1, <1>2, VerbTypes DEF TypeOK, CallsOK
<1>3. ASSUME NEW c \in Callers, Engine(c) PROVE TypeOK'
  <2>1. UNCHANGED <<file, procVars>> /\ creates' \in Nat
    BY <1>3 DEF Engine, CreateLock, StartRead, KillRead, DeleteRead, VerbKilled, TypeOK
  <2> QED BY <1>1, <2>1 DEF TypeOK, CallsOK, procVars
<1>4. ASSUME NEW p \in Pids,
             Proxy(p) \/ Kernel(p) \/ DeviceLost(p) \/ Reused(p) \/ OtherEnds(p)
      PROVE  TypeOK'
  BY <1>1, <1>4, ProcessTypes DEF TypeOK, CallsOK
<1>5. CASE UNCHANGED vars
  BY <1>5 DEF TypeOK, vars
<1> QED BY <1>2, <1>3, <1>4, <1>5 DEF Next

(* Every record of the verbs, the state file and the process table stays   *)
(* well-formed, and no signal waits on a PID nobody has.                   *)
THEOREM LifecycleTypeCorrect == Spec => []TypeOK
<1>1. Init => TypeOK
  BY InitTypes, LifecycleAssumption
<1>2. TypeOK /\ [Next]_vars => TypeOK'
  BY TypeStep, LifecycleAssumption
<1> QED BY <1>1, <1>2, PTL DEF Spec
-----------------------------------------------------------------------------
(* The occupancy lock *)

Spawned == {"create_write", "create_pidfile"}
Creating == Spawned \cup {"create_spawn"}

\* At most one create is past the lock, and it owns the only proxy there is.
LockInv ==
  /\ OneProxy
  /\ \A c, d \in Callers : call[c].at \in Creating /\ call[d].at \in Creating => c = d
  /\ \A c \in Callers : call[c].at = "create_spawn" => \A p \in Pids : ~Live(p)
  /\ \A c \in Callers, p \in Pids : call[c].at \in Spawned /\ Live(p) => call[c].st.pid = p

\* Only create brings a proxy to life.
LEMMA OnlyCreateSpawns ==
  ASSUME TypeOK, [Next]_vars, \A c \in Callers : ~CreateSpawn(c)
  PROVE  \A p \in Pids : Live(p)' => Live(p)
<1>1. ASSUME NEW c \in Callers, Verb(c) \/ Engine(c) PROVE UNCHANGED proc
  BY <1>1
  DEF Verb, CreateWrite, CreatePidFile, StartSignal, StartWrite, KillProbe, KillSignal,
      KillWrite, DeleteProbe, DeleteKill, DeleteWait, DeleteRemove, Send, procVars,
      Engine, CreateLock, StartRead, KillRead, DeleteRead, VerbKilled
<1>2. ASSUME NEW p \in Pids, Proxy(p) \/ DeviceLost(p)
      PROVE  \A q \in Pids : Live(q)' => Live(q)
  BY <1>2 DEF Proxy, Install, Swap, Pause, Deployed, DeployFailed, ResidentStops, DeviceLost,
              Advance, Ends, Live, Phases, TypeOK
<1>3. ASSUME NEW p \in Pids, Kernel(p) \/ Reused(p) \/ OtherEnds(p)
      PROVE  \A q \in Pids : Live(q)' => Live(q)
  BY <1>3 DEF Kernel, Deliver, DefaultAction, Reap, Reused, OtherEnds, Ends, Live, Phases,
              TypeOK
<1> QED BY <1>1, <1>2, <1>3 DEF Next, vars, Live

\* The create steps follow one another.
LEMMA CreateSteps ==
  ASSUME TypeOK, [Next]_vars, NEW c \in Callers, \A d \in Callers : ~CreateSpawn(d)
  PROVE  /\ call'[c].at = "create_spawn" => call[c].at = "create_spawn" \/ CreateLock(c)
         /\ call'[c].at \in Spawned => call[c].at \in Spawned /\ call'[c].st = call[c].st
<1>1. ASSUME NEW d \in Callers, Verb(d) \/ Engine(d)
      PROVE  /\ call'[c].at = "create_spawn" => call[c].at = "create_spawn" \/ CreateLock(c)
             /\ call'[c].at \in Spawned => call[c].at \in Spawned /\ call'[c].st = call[c].st
  <2>1. CASE Return(d)
    BY <2>1 DEF Return, Idle, Spawned, TypeOK
  <2>2. CASE CreateLock(d)
    BY <2>2 DEF CreateLock, Goto, Spawned, TypeOK, Call
  <2>3. CASE CreateWrite(d) /\ ~Return(d)
    BY <2>3 DEF CreateWrite, Goto, At, Spawned, TypeOK, Call
  <2>4. CASE \E step \in Places \ Creating : Goto(d, step)
    BY <2>4 DEF Goto, Spawned, Creating, TypeOK, Call
  <2>5. CASE \E r \in Call : r.at \notin Creating /\ call' = [call EXCEPT ![d] = r]
    BY <2>5 DEF Spawned, Creating, TypeOK
  <2>6. CASE Verb(d) /\ ~Return(d) /\ ~CreateWrite(d)
    BY <1>1, <2>4, <2>6
    DEF Verb, CreatePidFile, StartSignal, StartWrite, KillProbe, KillSignal, KillWrite,
        DeleteProbe, DeleteKill, DeleteWait, DeleteRemove, Places, KillSteps, Creating, Spawned
  <2>7. CASE Engine(d) /\ ~CreateLock(d) /\ ~Return(d)
    <3>1. \E s \in File, a \in AllSignals \cup {"none", "force"},
             k \in {"start_signal", "kill_probe", "delete_probe"} :
            call' = [call EXCEPT ![d] = [at |-> k, st |-> s, arg |-> a]]
      BY <2>7, LifecycleAssumption
      DEF Engine, StartRead, KillRead, DeleteRead, VerbKilled, TypeOK, LifecycleAssumption
    <3> QED BY <3>1 DEF Spawned, TypeOK
  <2> QED BY <1>1, <2>1, <2>2, <2>3, <2>6, <2>7
<1>2. CASE UNCHANGED call
  BY <1>2
<1>3. ASSUME NEW p \in Pids,
             Proxy(p) \/ Kernel(p) \/ DeviceLost(p) \/ Reused(p) \/ OtherEnds(p)
      PROVE  UNCHANGED call
  BY <1>3, ProcessTypes
<1> QED BY <1>1, <1>2, <1>3 DEF Next, vars

\* The label lock passes from create to its proxy and from no one else.
LEMMA LockStep ==
  ASSUME TypeOK, LockInv, [Next]_vars
  PROVE  LockInv'
<1> USE DEF LockInv
<1>1. ASSUME NEW c \in Callers, CreateSpawn(c) PROVE LockInv'
  <2>1. CASE Return(c) /\ UNCHANGED procVars
    BY <2>1 DEF Return, Idle, procVars, OneProxy, Live, Creating, Spawned, TypeOK
  <2>2. ASSUME NEW p \in Pids, proc' = [proc EXCEPT ![p] = "boot"],
               call' = [call EXCEPT ![c].at = "create_write",
                                    ![c].st = [status |-> "created", pid |-> p]]
        PROVE  LockInv'
    <3>1. \A q \in Pids : Live(q)' <=> q = p
      BY <1>1, <2>2 DEF CreateSpawn, At, Live, Phases, TypeOK
    <3>2. \A d \in Callers : call'[d].at \in Creating => d = c
      BY <1>1, <2>2 DEF CreateSpawn, At, Creating, TypeOK
    <3>3. call'[c].at = "create_write" /\ call'[c].st.pid = p
      BY <2>2 DEF TypeOK, Call
    <3> QED BY <3>1, <3>2, <3>3 DEF OneProxy, Creating, Spawned
  <2> QED BY <1>1, <2>1, <2>2 DEF CreateSpawn
<1>2. CASE \A c \in Callers : ~CreateSpawn(c)
  <2>1. \A p \in Pids : Live(p)' => Live(p)
    BY <1>2, OnlyCreateSpawns
  <2>2. \A c \in Callers :
          /\ call'[c].at = "create_spawn" => call[c].at = "create_spawn" \/ CreateLock(c)
          /\ call'[c].at \in Spawned => call[c].at \in Spawned /\ call'[c].st = call[c].st
    BY <1>2, CreateSteps
  <2>3. ASSUME NEW c \in Callers, CreateLock(c)
        PROVE  /\ \A p \in Pids : ~Live(p)
               /\ \A d \in Callers : call'[d].at \in Creating => d = c
    BY <2>3 DEF CreateLock, LockFree, Goto, Creating, Spawned, TypeOK
  <2> QED BY <2>1, <2>2, <2>3 DEF OneProxy, Creating
<1> QED BY <1>1, <1>2

(* No two proxies of a container live at once, whatever the engine calls,  *)
(* whichever verbs are killed half way and however PIDs are reused.        *)
THEOREM OneProxyTheorem == Spec => []OneProxy
<1>1. Init => TypeOK /\ LockInv
  <2>1. Init => LockInv
    BY DEF Init, LockInv, OneProxy, Live, Phases, Idle, Creating, Spawned
  <2> QED BY <2>1, InitTypes, LifecycleAssumption
<1>2. TypeOK /\ LockInv /\ [Next]_vars => (TypeOK /\ LockInv)'
  BY TypeStep, LockStep, LifecycleAssumption
<1>3. LockInv => OneProxy
  BY DEF LockInv
<1> QED BY <1>1, <1>2, <1>3, PTL DEF Spec
-----------------------------------------------------------------------------
(* The state file, under an orderly engine *)

\* Nobody else is about while create has not yet written the state file.
CreateAlone ==
  \A c \in Callers : call[c].at \in {"create_spawn", "create_write"} =>
    file = NoFile /\ \A d \in Callers : d # c => call[d].at = "idle"

\* Every copy of the state, on disk or in a verb, names the proxy that lives.
OnePidKnown ==
  \A p \in Pids : Live(p) =>
    /\ file # NoFile => file.pid = p
    /\ \A c \in Callers : call[c].st # NoFile => call[c].st.pid = p

\* The proxy is known to the file until it is killed.
KnownOrKilled ==
  \A p \in Pids : Live(p) =>
    \/ "KILL" \in pend[p]
    \/ file.pid = p
    \/ \E c \in Callers : call[c].at = "create_write" /\ call[c].st.pid = p

\* delete removes the file of a proxy it has killed, and has seen die if it could.
DeleteInv ==
  \A c \in Callers, p \in Pids : Live(p) =>
    /\ call[c].at \in {"delete_wait", "delete_remove"} => "KILL" \in pend[p]
    /\ call[c].at = "delete_remove" => ~PromptKill

OrderInv == LockInv /\ CreateAlone /\ OnePidKnown /\ KnownOrKilled /\ DeleteInv

\* A KILL stays pending for as long as its process lives.
LEMMA KillStays ==
  ASSUME TypeOK, [Next]_vars, NEW p \in Pids, Live(p), Live(p)', "KILL" \in pend[p]
  PROVE  "KILL" \in pend'[p]
<1>1. ASSUME NEW c \in Callers, Verb(c) \/ Engine(c) PROVE pend[p] \subseteq pend'[p]
  BY <1>1, SMTT(20)
  DEF Verb, CreateSpawn, CreateWrite, CreatePidFile, StartSignal, StartWrite, KillProbe,
      KillSignal, KillWrite, DeleteProbe, DeleteKill, DeleteWait, DeleteRemove, Send,
      procVars, Engine, CreateLock, StartRead, KillRead, DeleteRead, VerbKilled, TypeOK
<1>2. ASSUME NEW q \in Pids, Proxy(q) \/ DeviceLost(q) PROVE "KILL" \in pend'[p]
  BY <1>2 DEF Proxy, Install, Swap, Pause, Deployed, DeployFailed, ResidentStops, DeviceLost,
              Advance, Ends, Live, Phases, TypeOK
<1>3. ASSUME NEW q \in Pids, Kernel(q) \/ Reused(q) \/ OtherEnds(q)
      PROVE  "KILL" \in pend'[p]
  BY <1>3 DEF Kernel, Deliver, DefaultAction, Reap, Reused, OtherEnds, Ends, Live, Phases,
              Handled, TypeOK
<1> QED BY <1>1, <1>2, <1>3 DEF Next, vars

(* Steps that leave the file and the verbs alone keep the order.           *)
LEMMA QuietStep ==
  ASSUME TypeOK, OrderInv, [Next]_vars, UNCHANGED <<file, call>>,
         \A c \in Callers : ~CreateSpawn(c)
  PROVE  OrderInv'
<1>1. LockInv'
  BY LockStep DEF OrderInv
<1>2. \A p \in Pids : Live(p)' => Live(p)
  BY OnlyCreateSpawns
<1>3. \A p \in Pids : Live(p)' /\ "KILL" \in pend[p] => "KILL" \in pend'[p]
  BY <1>2, KillStays
<1>4. CreateAlone' /\ OnePidKnown'
  BY <1>2 DEF OrderInv, CreateAlone, OnePidKnown
<1>5. KnownOrKilled' /\ DeleteInv'
  BY <1>2, <1>3 DEF OrderInv, KnownOrKilled, DeleteInv
<1> QED BY <1>1, <1>4, <1>5 DEF OrderInv

(* A verb whose step is not one of create's: it re-reads the file, moves   *)
(* on, returns, or writes back the copy it has.                            *)
LEMMA VerbStep ==
  ASSUME TypeOK, OrderInv, [Next]_vars, NEW c \in Callers,
         \A d \in Callers : ~CreateSpawn(d),
         call[c].at \notin {"create_spawn", "create_write"},
         call[c].at = "idle" => file # NoFile,
         \A d \in Callers : d # c => call'[d] = call[d],
         call'[c].at \notin {"create_spawn", "create_write"},
         call'[c].st \in {NoFile, call[c].st, file},
         \/ file' = file
         \/ file' # NoFile /\ call[c].st # NoFile /\ file'.pid = call[c].st.pid
         \/ file' = NoFile /\ call[c].at = "delete_remove",
         \A p \in Pids : Live(p)' =>
           /\ call'[c].at \in {"delete_wait", "delete_remove"} => "KILL" \in pend'[p]
           /\ call'[c].at = "delete_remove" => ~PromptKill
  PROVE  OrderInv'
<1>1. LockInv'
  BY LockStep DEF OrderInv
<1>2. \A p \in Pids : Live(p)' => Live(p)
  BY OnlyCreateSpawns
<1>3. \A p \in Pids : Live(p)' /\ "KILL" \in pend[p] => "KILL" \in pend'[p]
  BY <1>2, KillStays
<1>4. CreateAlone'
  <2> SUFFICES ASSUME NEW d \in Callers, call'[d].at \in {"create_spawn", "create_write"}
               PROVE  FALSE
    BY DEF CreateAlone
  <2>1. d # c /\ call[d].at \in {"create_spawn", "create_write"}
    OBVIOUS
  <2> QED BY <2>1 DEF OrderInv, CreateAlone
<1>5. OnePidKnown'
  <2> SUFFICES ASSUME NEW p \in Pids, Live(p)'
               PROVE  /\ file' # NoFile => file'.pid = p
                      /\ \A d \in Callers : call'[d].st # NoFile => call'[d].st.pid = p
    BY DEF OnePidKnown
  <2> QED BY <1>2 DEF OrderInv, OnePidKnown
<1>6. KnownOrKilled'
  <2> SUFFICES ASSUME NEW p \in Pids, Live(p)'
               PROVE  "KILL" \in pend'[p] \/ file'.pid = p
    BY DEF KnownOrKilled
  <2>1. ~\E d \in Callers : call[d].at = "create_write"
    BY DEF OrderInv, CreateAlone
  <2>2. "KILL" \in pend[p] \/ file.pid = p
    BY <1>2, <2>1 DEF OrderInv, KnownOrKilled
  <2>3. call[c].st # NoFile => call[c].st.pid = p
    BY <1>2 DEF OrderInv, OnePidKnown
  <2>4. call[c].at = "delete_remove" => "KILL" \in pend[p]
    BY <1>2 DEF OrderInv, DeleteInv
  <2> QED BY <1>3, <2>2, <2>3, <2>4
<1>7. DeleteInv'
  <2> SUFFICES ASSUME NEW d \in Callers, NEW p \in Pids, Live(p)'
               PROVE  /\ call'[d].at \in {"delete_wait", "delete_remove"} => "KILL" \in pend'[p]
                      /\ call'[d].at = "delete_remove" => ~PromptKill
    BY DEF DeleteInv
  <2>1. CASE d = c
    BY <2>1
  <2>2. CASE d # c
    BY <1>2, <1>3, <2>2 DEF OrderInv, DeleteInv
  <2> QED BY <2>1, <2>2
<1> QED BY <1>1, <1>4, <1>5, <1>6, <1>7 DEF OrderInv

(* The steps of create.                                                    *)
LEMMA CreateStep ==
  ASSUME LifecycleAssumption, TypeOK, OrderInv, Orderly, [Next]_vars, NEW c \in Callers,
         CreateLock(c) \/ CreateSpawn(c) \/ CreateWrite(c)
  PROVE  OrderInv'
<1>1. LockInv'
  BY LockStep DEF OrderInv
<1>2. CASE CreateLock(c)
  <2>1. \A p \in Pids : ~Live(p)'
    BY <1>2 DEF CreateLock, LockFree, procVars, Live
  <2>2. CreateAlone'
    BY <1>2 DEF CreateLock, Goto, At, CreateAlone, TypeOK
  <2> QED BY <1>1, <2>1, <2>2 DEF OrderInv, OnePidKnown, KnownOrKilled, DeleteInv
<1>a. ASSUME CreateSpawn(c) \/ CreateWrite(c)
      PROVE  file = NoFile /\ \A d \in Callers : d # c => call[d].at = "idle" /\ call[d].st = NoFile
  BY <1>a DEF CreateSpawn, CreateWrite, At, OrderInv, CreateAlone, TypeOK
<1>3. CASE CreateSpawn(c) /\ Return(c) /\ UNCHANGED procVars
  <2>1. \A p \in Pids : ~Live(p)'
    BY <1>3 DEF CreateSpawn, At, procVars, Live, OrderInv, LockInv
  <2>2. \A d \in Callers : call'[d].at = "idle"
    BY <1>a, <1>3 DEF Return, Idle, TypeOK
  <2> QED BY <1>1, <2>1, <2>2 DEF OrderInv, CreateAlone, OnePidKnown, KnownOrKilled, DeleteInv
<1>4. ASSUME NEW p \in Pids, CreateSpawn(c), proc' = [proc EXCEPT ![p] = "boot"],
             call' = [call EXCEPT ![c].at = "create_write",
                                  ![c].st = [status |-> "created", pid |-> p]]
      PROVE  OrderInv'
  <2>1. \A q \in Pids : Live(q)' => q = p
    BY <1>4 DEF CreateSpawn, At, Live, Phases, TypeOK, OrderInv, LockInv
  <2>2. /\ call'[c].at = "create_write" /\ call'[c].st.pid = p
        /\ \A d \in Callers : d # c => call'[d].at = "idle" /\ call'[d].st = NoFile
        /\ file' = NoFile
    BY <1>a, <1>4, ZenonT(30) DEF TypeOK, Call, CreateSpawn
  <2>3. CreateAlone'
    BY <2>2 DEF CreateAlone
  <2>4. OnePidKnown' /\ KnownOrKilled'
    BY <2>1, <2>2 DEF OnePidKnown, KnownOrKilled
  <2>5. DeleteInv'
    BY <2>2 DEF DeleteInv
  <2> QED BY <1>1, <2>3, <2>4, <2>5 DEF OrderInv
<1>5. CASE CreateWrite(c)
  <2>0. /\ call[c].st # NoFile
        /\ \A p \in Pids : Live(p) => call[c].st.pid = p
    BY <1>5 DEF CreateWrite, At, TypeOK, OrderInv, LockInv, Spawned
  <2>1. CASE file' = call[c].st /\ Goto(c, "create_pidfile") /\ UNCHANGED procVars
    <3>1. /\ call'[c].at = "create_pidfile" /\ call'[c].st = call[c].st
          /\ \A d \in Callers : d # c => call'[d].at = "idle" /\ call'[d].st = NoFile
      BY <1>a, <1>5, <2>1 DEF Goto, TypeOK, Call
    <3>2. \A p \in Pids : Live(p)' => call[c].st.pid = p
      BY <2>0, <2>1 DEF procVars, Live
    <3>3. OnePidKnown' /\ KnownOrKilled'
      BY <2>1, <3>1, <3>2 DEF OnePidKnown, KnownOrKilled
    <3>4. CreateAlone' /\ DeleteInv'
      BY <3>1 DEF CreateAlone, DeleteInv
    <3> QED BY <1>1, <3>3, <3>4 DEF OrderInv
  <2>2. CASE Send(call[c].st.pid, "KILL") /\ Return(c) /\ UNCHANGED file
    <3>1. \A d \in Callers : call'[d].at = "idle" /\ call'[d].st = NoFile
      BY <1>a, <1>5, <2>2 DEF Return, Idle, TypeOK
    <3>2. \A p \in Pids : Live(p)' => "KILL" \in pend'[p]
      BY <2>0, <2>2 DEF Send, Live, Phases, TypeOK
    <3>3. file' = NoFile
      BY <1>a, <1>5, <2>2
    <3> QED BY <1>1, <3>1, <3>2, <3>3
            DEF OrderInv, CreateAlone, OnePidKnown, KnownOrKilled, DeleteInv
  <2> QED BY <1>5, <2>1, <2>2 DEF CreateWrite
<1> QED BY <1>2, <1>3, <1>4, <1>5 DEF CreateSpawn

(* The other verbs, one step each.                                         *)
LEMMA OtherVerbStep ==
  ASSUME LifecycleAssumption, TypeOK, OrderInv, ~VerbsDie, [Next]_vars, NEW c \in Callers,
         Verb(c) \/ Engine(c),
         \A d \in Callers : ~(CreateLock(d) \/ CreateSpawn(d) \/ CreateWrite(d))
  PROVE  OrderInv'
<1>a. \A p \in Pids : Live(p)' => Live(p)
  BY OnlyCreateSpawns
<1>b. \A p \in Pids : Live(p)' /\ "KILL" \in pend[p] => "KILL" \in pend'[p]
  BY <1>a, KillStays
<1>c. \A p \in Pids : Live(p) /\ call[c].st # NoFile => call[c].st.pid = p
  BY DEF OrderInv, OnePidKnown
<1>d. call[c] \in Call /\ call[c].st \in File
  BY DEF TypeOK, Call
<1>1. CASE CreatePidFile(c)
  <2>1. call[c].at = "create_pidfile" /\ call'[c] = Idle /\ file' = file
    BY <1>1 DEF CreatePidFile, At, Return, TypeOK
  <2>2. \A d \in Callers : d # c => call'[d] = call[d]
    BY <1>1 DEF CreatePidFile, Return, TypeOK
  <2> QED BY <2>1, <2>2, VerbStep DEF Idle
<1>2. CASE StartWrite(c) \/ KillWrite(c)
  <2>1. /\ call[c].at \in {"start_write", "kill_write"} /\ call'[c] = Idle
        /\ \A d \in Callers : d # c => call'[d] = call[d]
    BY <1>2 DEF StartWrite, KillWrite, At, Return, TypeOK
  <2>2. call[c].st # NoFile
    BY <2>1 DEF TypeOK
  <2>3. \A status \in {"running", "stopped"} :
          LET f == [call[c].st EXCEPT !.status = status] IN f # NoFile /\ f.pid = call[c].st.pid
    BY <1>d, <2>2 DEF File, NoFile
  <2>4. file' = file \/ (file' # NoFile /\ file'.pid = call[c].st.pid)
    BY <1>2, <2>3 DEF StartWrite, KillWrite
  <2> QED BY <2>1, <2>2, <2>4, VerbStep DEF Idle
<1>3. CASE DeleteRemove(c)
  <2>1. call[c].at = "delete_remove" /\ call'[c] = Idle /\ file' \in {NoFile, file}
    BY <1>3 DEF DeleteRemove, At, Return, TypeOK
  <2>2. \A d \in Callers : d # c => call'[d] = call[d]
    BY <1>3 DEF DeleteRemove, Return, TypeOK
  <2> QED BY <2>1, <2>2, VerbStep DEF Idle
<1>4. CASE StartRead(c) \/ (\E s \in Signals : KillRead(c, s))
           \/ (\E arg \in {"force", "none"} : DeleteRead(c, arg))
  <2>1. /\ call[c].at = "idle" /\ file # NoFile /\ file' = file
        /\ \E k \in {"start_signal", "kill_probe", "delete_probe"} : \E a :
             call' = [call EXCEPT ![c] = [at |-> k, st |-> file, arg |-> a]]
    BY <1>4 DEF StartRead, KillRead, DeleteRead, At, NoFile
  <2>2. /\ call'[c].at \in {"start_signal", "kill_probe", "delete_probe"}
        /\ call'[c].st = file
        /\ \A d \in Callers : d # c => call'[d] = call[d]
    BY <2>1 DEF TypeOK
  <2> QED BY <2>1, <2>2, VerbStep
<1>5. CASE StartSignal(c) \/ KillProbe(c) \/ KillSignal(c)
  <2>1. /\ call[c].at \in {"start_signal", "kill_probe", "kill_signal"} /\ file' = file
        /\ Return(c) \/ \E k \in {"start_write", "kill_signal", "kill_write"} : Goto(c, k)
    BY <1>5 DEF StartSignal, KillProbe, KillSignal, At
  <2>2. /\ call'[c].at \in {"idle", "start_write", "kill_signal", "kill_write"}
        /\ call'[c].st \in {NoFile, call[c].st}
        /\ \A d \in Callers : d # c => call'[d] = call[d]
    BY <2>1 DEF Return, Goto, Idle, TypeOK, Call
  <2> QED BY <2>1, <2>2, VerbStep
<1>6. CASE DeleteProbe(c) \/ DeleteKill(c) \/ DeleteWait(c)
  <2>0. call[c].at \in {"delete_probe", "delete_kill", "delete_wait"} /\ call[c].st # NoFile
    BY <1>6 DEF DeleteProbe, DeleteKill, DeleteWait, At, TypeOK
  <2>1. /\ file' = file
        /\ Return(c) \/ \E k \in {"delete_kill", "delete_wait", "delete_remove"} : Goto(c, k)
    BY <1>6 DEF DeleteProbe, DeleteKill, DeleteWait
  <2>2. /\ call'[c].at \in {"idle", "delete_kill", "delete_wait", "delete_remove"}
        /\ call'[c].st \in {NoFile, call[c].st}
        /\ \A d \in Callers : d # c => call'[d] = call[d]
    BY <2>1 DEF Return, Goto, Idle, TypeOK, Call
  <2>3. ASSUME NEW p \in Pids, Live(p)'
        PROVE  /\ call'[c].at \in {"delete_wait", "delete_remove"} => "KILL" \in pend'[p]
               /\ call'[c].at = "delete_remove" => ~PromptKill
    <3>0. Live(p) /\ call[c].st.pid = p
      BY <1>a, <1>c, <2>0, <2>3
    <3>1. CASE DeleteProbe(c)
      <4>1. Exists(call[c].st.pid)
        BY <3>0 DEF Exists, Live, Phases
      <4>2. Return(c) \/ Goto(c, "delete_kill")
        BY <3>1, <4>1 DEF DeleteProbe
      <4> QED BY <4>2 DEF Return, Goto, Idle, TypeOK, Call
    <3>2. CASE DeleteKill(c)
      <4>1. "KILL" \in pend'[p]
        BY <3>0, <3>2 DEF DeleteKill, Send, Live, Phases, TypeOK
      <4>2. call'[c].at = "delete_wait"
        BY <3>2 DEF DeleteKill, Goto, TypeOK, Call
      <4> QED BY <4>1, <4>2
    <3>3. CASE DeleteWait(c)
      <4>1. call[c].at = "delete_wait" /\ ~PromptKill
        BY <3>0, <3>3 DEF DeleteWait, At
      <4>2. "KILL" \in pend'[p]
        BY <1>b, <2>3, <3>0, <4>1 DEF OrderInv, DeleteInv
      <4> QED BY <4>1, <4>2
    <3> QED BY <1>6, <3>1, <3>2, <3>3
  <2> QED BY <2>0, <2>1, <2>2, <2>3, VerbStep
<1> QED BY <1>1, <1>2, <1>3, <1>4, <1>5, <1>6 DEF Verb, Engine, VerbKilled

\* Every step keeps the file and the processes in agreement, if verbs come in order.
LEMMA OrderStep ==
  ASSUME LifecycleAssumption, TypeOK, OrderInv, Orderly, ~VerbsDie, [Next]_vars
  PROVE  OrderInv'
<1>1. CASE \E c \in Callers : CreateLock(c) \/ CreateSpawn(c) \/ CreateWrite(c)
  BY <1>1, CreateStep
<1>2. CASE \A c \in Callers : ~(CreateLock(c) \/ CreateSpawn(c) \/ CreateWrite(c))
  <2>1. ASSUME NEW c \in Callers, Verb(c) \/ Engine(c) PROVE OrderInv'
    BY <1>2, <2>1, OtherVerbStep
  <2>2. ASSUME NEW p \in Pids,
               Proxy(p) \/ Kernel(p) \/ DeviceLost(p) \/ Reused(p) \/ OtherEnds(p)
        PROVE  OrderInv'
    BY <1>2, <2>2, ProcessTypes, QuietStep
  <2>3. CASE UNCHANGED vars
    BY <1>2, <2>3, QuietStep DEF vars
  <2> QED BY <2>1, <2>2, <2>3 DEF Next
<1> QED BY <1>1, <1>2

\* The agreement holds throughout; the two theorems below read it off.
LEMMA AlwaysOrder ==
  ASSUME Orderly, ~VerbsDie
  PROVE  Spec => [](TypeOK /\ OrderInv)
<1>1. Init => TypeOK /\ OrderInv
  <2>1. Init => LockInv
    BY DEF Init, LockInv, OneProxy, Live, Phases, Idle, Creating, Spawned
  <2>2. Init => CreateAlone /\ OnePidKnown /\ KnownOrKilled /\ DeleteInv
    BY DEF Init, CreateAlone, OnePidKnown, KnownOrKilled, DeleteInv, Live, Phases, Idle
  <2> QED BY <2>1, <2>2, InitTypes, LifecycleAssumption DEF OrderInv
<1>2. TypeOK /\ OrderInv /\ [Next]_vars => (TypeOK /\ OrderInv)'
  BY TypeStep, OrderStep, LifecycleAssumption
<1> QED BY <1>1, <1>2, PTL DEF Spec

(* No failure of create, and no overlap of start, kill and delete, leaves  *)
(* a proxy holding the port that the state file does not know of.          *)
THEOREM NoOrphanTheorem ==
  ASSUME Orderly, ~VerbsDie
  PROVE  Spec => []NoOrphan
<1>1. OrderInv => NoOrphan
  BY DEF OrderInv, KnownOrKilled, NoOrphan
<1> QED BY <1>1, AlwaysOrder, PTL

(* Once delete has removed the state file no proxy holds the board, if     *)
(* killed processes die within await_exit's timeout.                       *)
THEOREM DeleteTheorem ==
  ASSUME Orderly, ~VerbsDie, PromptKill
  PROVE  Spec => DeviceFreeAfterDelete
<1>1. TypeOK /\ OrderInv /\ [Next]_vars =>
        [file # NoFile /\ file' = NoFile => \A p \in Pids : ~Live(p)]_vars
  <2> SUFFICES ASSUME TypeOK, OrderInv, [Next]_vars, file # NoFile, file' = NoFile
               PROVE  \A p \in Pids : ~Live(p)
    OBVIOUS
  <2>1. \E c \in Callers : call[c].at = "delete_remove"
    <3>1. ASSUME NEW c \in Callers, Engine(c) PROVE file' = file
      BY <3>1 DEF Engine, CreateLock, StartRead, KillRead, DeleteRead, VerbKilled
    <3>2. ASSUME NEW c \in Callers, Verb(c) PROVE call[c].at = "delete_remove"
      <4>1. \A status \in {"running", "stopped"} :
              call[c].st # NoFile => [call[c].st EXCEPT !.status = status] # NoFile
        BY DEF TypeOK, Call, File, NoFile
      <4>2. call[c].at \notin {"idle", "create_spawn"} => call[c].st # NoFile
        BY DEF TypeOK
      <4> QED
        BY <3>2, <4>1, <4>2
        DEF Verb, CreateSpawn, CreateWrite, CreatePidFile, StartSignal, StartWrite, KillProbe,
            KillSignal, KillWrite, DeleteProbe, DeleteKill, DeleteWait, DeleteRemove, At
    <3>3. ASSUME NEW p \in Pids,
                 Proxy(p) \/ Kernel(p) \/ DeviceLost(p) \/ Reused(p) \/ OtherEnds(p)
          PROVE  file' = file
      BY <3>3, ProcessTypes
    <3> QED BY <3>1, <3>2, <3>3 DEF Next, vars
  <2> QED BY <2>1 DEF OrderInv, DeleteInv
<1> QED BY <1>1, AlwaysOrder, PTL DEF Spec, DeviceFreeAfterDelete
-----------------------------------------------------------------------------
(* What is recorded as stopped has been told to stop *)

Told(p) == sent[p] \cap {"TERM", "KILL"} # {}

(* While the proxy has not been told, no copy of the state says stopped,   *)
(* and no kill is about to write that.                                     *)
ToldInv ==
  \A p \in Pids : Live(p) /\ ~Told(p) =>
    /\ file.status # "stopped"
    /\ \A c \in Callers : call[c].st.status # "stopped"
    /\ \A c \in Callers : call[c].at = "kill_write" => call[c].arg \notin {"TERM", "KILL"}

\* What was sent to a process is remembered while it lives.
LEMMA SentStays ==
  ASSUME TypeOK, [Next]_vars, NEW p \in Pids, Live(p), Live(p)'
  PROVE  sent[p] \subseteq sent'[p]
<1>1. ASSUME NEW c \in Callers, Verb(c) \/ Engine(c) PROVE sent[p] \subseteq sent'[p]
  BY <1>1, SMTT(20)
  DEF Verb, CreateSpawn, CreateWrite, CreatePidFile, StartSignal, StartWrite, KillProbe,
      KillSignal, KillWrite, DeleteProbe, DeleteKill, DeleteWait, DeleteRemove, Send,
      procVars, Engine, CreateLock, StartRead, KillRead, DeleteRead, VerbKilled, TypeOK
<1>2. ASSUME NEW q \in Pids, Proxy(q) \/ DeviceLost(q) PROVE sent'[p] = sent[p]
  BY <1>2 DEF Proxy, Install, Swap, Pause, Deployed, DeployFailed, ResidentStops, DeviceLost,
              Advance, Ends
<1>3. ASSUME NEW q \in Pids, Kernel(q) \/ Reused(q) \/ OtherEnds(q)
      PROVE  sent'[p] = sent[p]
  BY <1>3 DEF Kernel, Deliver, DefaultAction, Reap, Reused, OtherEnds, Ends, Live, Phases,
              TypeOK
<1> QED BY <1>1, <1>2, <1>3 DEF Next, vars

\* A proxy is spawned when the file is gone and no other verb runs.
LEMMA ToldAtSpawn ==
  ASSUME TypeOK, OrderInv, NEW c \in Callers, CreateSpawn(c)
  PROVE  ToldInv'
<1>1. file = NoFile /\ \A d \in Callers : d # c => call[d].at = "idle" /\ call[d].st = NoFile
  BY DEF CreateSpawn, At, OrderInv, CreateAlone, TypeOK
<1>2. file' = NoFile /\ NoFile.status # "stopped" /\ Idle.st = NoFile /\ Idle.at = "idle"
  BY <1>1 DEF CreateSpawn, NoFile, Idle
<1>3. /\ call'[c].at # "kill_write" /\ call'[c].st.status # "stopped"
      /\ \A d \in Callers : d # c => call'[d] = call[d]
  <2>1. CASE Return(c)
    BY <1>2, <2>1 DEF Return, TypeOK
  <2>2. ASSUME NEW p \in Pids,
               call' = [call EXCEPT ![c].at = "create_write",
                                    ![c].st = [status |-> "created", pid |-> p]]
        PROVE  /\ call'[c].at # "kill_write" /\ call'[c].st.status # "stopped"
               /\ \A d \in Callers : d # c => call'[d] = call[d]
    BY <2>2 DEF TypeOK, Call
  <2> QED BY <2>1, <2>2 DEF CreateSpawn
<1> QED BY <1>1, <1>2, <1>3 DEF ToldInv

(* A verb that neither records a stop that was not sent, nor moves to that *)
(* point without sending it, keeps ToldInv.                                *)
LEMMA ToldVerb ==
  ASSUME TypeOK, ToldInv, [Next]_vars, NEW c \in Callers, NEW p \in Pids,
         Live(p), Live(p)', ~Told(p)',
         \A d \in Callers : d # c => call'[d] = call[d],
         call'[c].st \in {NoFile, call[c].st, file},
         file' \in {NoFile, file, call[c].st} \/ file'.status # "stopped",
         call'[c].at = "kill_write" => call'[c].arg \notin {"TERM", "KILL"}
  PROVE  /\ file'.status # "stopped"
         /\ \A d \in Callers : call'[d].st.status # "stopped"
         /\ \A d \in Callers : call'[d].at = "kill_write" => call'[d].arg \notin {"TERM", "KILL"}
<1>1. ~Told(p)
  BY SentStays DEF Told
<1>2. /\ file.status # "stopped"
      /\ \A d \in Callers : call[d].st.status # "stopped"
      /\ \A d \in Callers : call[d].at = "kill_write" => call[d].arg \notin {"TERM", "KILL"}
  BY <1>1 DEF ToldInv
<1>3. NoFile.status # "stopped"
  BY DEF NoFile
<1> QED BY <1>2, <1>3

LEMMA ToldStep ==
  ASSUME LifecycleAssumption, TypeOK, OrderInv, ToldInv, [Next]_vars
  PROVE  ToldInv'
<1>1. CASE \E c \in Callers : CreateSpawn(c)
  BY <1>1, ToldAtSpawn
<1>2. CASE \A c \in Callers : ~CreateSpawn(c)
  <2> SUFFICES ASSUME NEW p \in Pids, Live(p)', ~Told(p)'
               PROVE  /\ file'.status # "stopped"
                      /\ \A d \in Callers : call'[d].st.status # "stopped"
                      /\ \A d \in Callers :
                           call'[d].at = "kill_write" => call'[d].arg \notin {"TERM", "KILL"}
    BY DEF ToldInv
  <2>1. Live(p)
    BY <1>2, OnlyCreateSpawns
  <2>2. ~Told(p)
    BY <2>1, SentStays DEF Told
  <2>3. \A c \in Callers : call[c].st # NoFile => call[c].st.pid = p
    BY <2>1 DEF OrderInv, OnePidKnown
  <2>4. Exists(p) /\ Idle.st = NoFile /\ Idle.at = "idle"
    BY <2>1 DEF Exists, Live, Phases, Idle
  <2>a. \A c \in Callers : call[c] \in Call
    BY DEF TypeOK
  <2>5. ASSUME NEW c \in Callers, CreateLock(c) \/ CreateWrite(c) \/ CreatePidFile(c)
        PROVE  /\ \A d \in Callers : d # c => call'[d] = call[d]
               /\ call'[c].st \in {NoFile, call[c].st, file}
               /\ file' \in {NoFile, file, call[c].st}
               /\ call'[c].at # "kill_write"
    BY <2>a, <2>4, <2>5
    DEF CreateLock, CreateWrite, CreatePidFile, Goto, Return, TypeOK, Call
  <2>6. ASSUME NEW c \in Callers, StartSignal(c) \/ StartRead(c) \/ DeleteProbe(c)
                 \/ DeleteKill(c) \/ DeleteWait(c) \/ DeleteRemove(c) \/ VerbKilled(c)
                 \/ (\E s \in Signals : KillRead(c, s))
                 \/ (\E arg \in {"force", "none"} : DeleteRead(c, arg))
        PROVE  /\ \A d \in Callers : d # c => call'[d] = call[d]
               /\ call'[c].st \in {NoFile, call[c].st, file}
               /\ file' \in {NoFile, file, call[c].st}
               /\ call'[c].at # "kill_write"
    BY <2>a, <2>4, <2>6
    DEF StartSignal, StartRead, DeleteProbe, DeleteKill, DeleteWait, DeleteRemove, VerbKilled,
        KillRead, DeleteRead, Goto, Return, TypeOK, Call
  <2>7. ASSUME NEW c \in Callers, StartWrite(c) \/ KillWrite(c)
        PROVE  /\ \A d \in Callers : d # c => call'[d] = call[d]
               /\ call'[c].st \in {NoFile, call[c].st, file}
               /\ file' = file \/ file'.status # "stopped"
               /\ call'[c].at # "kill_write"
    <3>1. call' = [call EXCEPT ![c] = Idle]
      BY <2>7 DEF StartWrite, KillWrite, Return
    <3>2. CASE StartWrite(c)
      <4>1. [call[c].st EXCEPT !.status = "running"].status # "stopped"
        BY <2>a DEF Call, File, NoFile
      <4> QED BY <2>4, <3>1, <3>2, <4>1 DEF StartWrite, TypeOK
    <3>3. CASE KillWrite(c)
      <4>1. call[c].arg \notin {"TERM", "KILL"}
        BY <2>1, <2>2, <3>3 DEF KillWrite, At, ToldInv
      <4> QED BY <2>4, <3>1, <3>3, <4>1 DEF KillWrite, TypeOK
    <3> QED BY <2>7, <3>2, <3>3
  <2>8. ASSUME NEW c \in Callers, KillProbe(c) \/ KillSignal(c)
        PROVE  /\ \A d \in Callers : d # c => call'[d] = call[d]
               /\ call'[c].st \in {NoFile, call[c].st, file}
               /\ file' = file
               /\ call'[c].at = "kill_write" => call'[c].arg \notin {"TERM", "KILL"}
    <3>1. call[c].st.pid = p
      BY <2>3, <2>8 DEF KillProbe, KillSignal, At, TypeOK
    <3>2. CASE KillProbe(c)
      <4>1. Goto(c, "kill_signal") /\ file' = file
        BY <2>4, <3>1, <3>2 DEF KillProbe
      <4> QED BY <2>a, <4>1 DEF Goto, TypeOK, Call
    <3>3. CASE KillSignal(c)
      <4>1. Send(p, call[c].arg) /\ Goto(c, "kill_write") /\ file' = file
        BY <2>4, <3>1, <3>3 DEF KillSignal
      <4>2. call[c].arg \in sent'[p]
        BY <2>1, <4>1 DEF Send, TypeOK
      <4>3. call[c].arg \notin {"TERM", "KILL"}
        BY <4>2 DEF Told
      <4> QED BY <2>a, <4>1, <4>3 DEF Goto, TypeOK, Call
    <3> QED BY <2>8, <3>2, <3>3
  <2>9. ASSUME NEW c \in Callers, Verb(c) \/ Engine(c)
        PROVE  /\ file'.status # "stopped"
               /\ \A d \in Callers : call'[d].st.status # "stopped"
               /\ \A d \in Callers :
                    call'[d].at = "kill_write" => call'[d].arg \notin {"TERM", "KILL"}
    <3>1. /\ \A d \in Callers : d # c => call'[d] = call[d]
          /\ call'[c].st \in {NoFile, call[c].st, file}
          /\ file' \in {NoFile, file, call[c].st} \/ file'.status # "stopped"
          /\ call'[c].at = "kill_write" => call'[c].arg \notin {"TERM", "KILL"}
      BY <1>2, <2>5, <2>6, <2>7, <2>8, <2>9 DEF Verb, Engine
    <3> QED BY <2>1, <3>1, ToldVerb
  <2>10. CASE UNCHANGED <<file, call>>
    BY <2>1, <2>2, <2>10 DEF ToldInv
  <2>11. ASSUME NEW q \in Pids,
                Proxy(q) \/ Kernel(q) \/ DeviceLost(q) \/ Reused(q) \/ OtherEnds(q)
         PROVE  UNCHANGED <<file, call>>
    BY <2>11, ProcessTypes
  <2> QED BY <2>9, <2>10, <2>11 DEF Next, vars
<1> QED BY <1>1, <1>2

(* However the verbs' writes of the state file fall, a proxy is reported   *)
(* stopped only if kill or delete has told it to stop (verbs.rs, kill and  *)
(* print_state).                                                           *)
THEOREM ToldTheorem ==
  ASSUME Orderly, ~VerbsDie
  PROVE  Spec => []StoppedMeansTold
<1>1. Init => ToldInv
  BY DEF Init, ToldInv, Live, Phases
<1>2. TypeOK /\ OrderInv /\ ToldInv /\ [Next]_vars => ToldInv'
  BY ToldStep, LifecycleAssumption
<1>3. ToldInv => StoppedMeansTold
  <2> SUFFICES ASSUME ToldInv, NEW p \in Pids, Live(p), file.pid = p, StateShows = "stopped"
               PROVE  Told(p)
    BY DEF StoppedMeansTold, Told
  <2>1. Exists(p)
    BY DEF Exists, Live, Phases
  <2>2. file.status = "stopped"
    BY <2>1 DEF StateShows
  <2> QED BY <2>2 DEF ToldInv
<1> QED BY <1>1, <1>2, <1>3, AlwaysOrder, PTL DEF Spec
=============================================================================
