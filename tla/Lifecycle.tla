------------------------------ MODULE Lifecycle ------------------------------
(***************************************************************************)
(* One container: the OCI verbs, each a process of its own (verbs.rs), the *)
(* state file they share (state.rs), and the resident proxy they spawn and *)
(* signal by PID (proxy.rs).  A verb is a sequence of system calls with    *)
(* the proxy, the kernel and other verbs running in between; signals are   *)
(* delivered some time after they are sent, and a PID is free for another  *)
(* process once the shim has reaped it.                                    *)
(***************************************************************************)
EXTENDS Naturals

CONSTANTS
  Callers,    \* verb processes that may run at once
  Pids, NoPid,
  Signals,    \* signals the engine passes to kill
  Orderly,    \* create comes only after delete, and while no other verb runs
  PromptKill, \* a SIGKILLed proxy closes its descriptors within await_exit's timeout
  Reuse,      \* the kernel may give a reaped PID to an unrelated process
  VerbsDie,   \* a verb may be killed half way
  MaxCreates  \* bound: creates that get as far as the occupancy lock

(* TERM stands for INT too, HUP for every signal whose default action      *)
(* ends a process that has no handler for it, CONT for the harmless ones.  *)
AllSignals == {"USR1", "TERM", "KILL", "HUP", "CONT"}
Handled == {"USR1", "TERM"}

ASSUME LifecycleAssumption ==
  /\ NoPid \notin Pids /\ Signals \subseteq AllSignals /\ MaxCreates \in Nat
  /\ {Orderly, PromptKill, Reuse, VerbsDie} \subseteq BOOLEAN

VARIABLES
  file,    \* state.json: status and pid; NoFile when there is none
  proc,    \* what each PID is
  pend,    \* signals sent to a PID and not yet delivered
  reg,     \* SIGNAL_RECEIVED of the proxy
  code,    \* exit status of a proxy that ended, until it is reaped
  sent,    \* history: signals sent to the proxy
  call,    \* each verb: the step it is at, its copy of the state, its argument
  creates

vars == <<file, proc, pend, reg, code, sent, call, creates>>
procVars == <<proc, pend, reg, code, sent>>

NoFile == [status |-> "none", pid |-> NoPid]
File == [status : {"created", "running", "stopped"}, pid : Pids] \cup {NoFile}

(* boot: exec'd, no handlers yet; swap: about to read SIGNAL_RECEIVED;     *)
(* pause: read 0, about to call pause(); asleep: in pause(); work: phase   *)
(* 2 up to the confirm; resident: stay_resident.                           *)
Phases == {"boot", "swap", "pause", "asleep", "work", "resident"}
Procs == Phases \cup {"free", "zombie", "other"}

Idle == [at |-> "idle", st |-> NoFile, arg |-> "none"]
KillSteps == {"kill_probe", "kill_signal", "kill_write"}
Places == {"idle", "create_spawn", "create_write", "create_pidfile", "start_signal",
           "start_write", "delete_probe", "delete_kill", "delete_wait", "delete_remove"}
          \cup KillSteps
Call == [at : Places, st : File, arg : AllSignals \cup {"none", "force"}]

Live(p) == proc[p] \in Phases

TypeOK ==
  /\ file \in File
  /\ proc \in [Pids -> Procs]
  /\ pend \in [Pids -> SUBSET AllSignals]
  /\ reg \in [Pids -> Handled \cup {"none"}]
  /\ code \in [Pids -> {"none", "0", "1", "killed"}]
  /\ sent \in [Pids -> SUBSET AllSignals]
  /\ call \in [Callers -> Call]
  /\ creates \in Nat
  /\ \A p \in Pids : proc[p] \in {"free", "zombie"} => pend[p] = {}
  /\ \A c \in Callers : call[c].at \in {"idle", "create_spawn"} <=> call[c].st = NoFile
  /\ \A c \in Callers : call[c].at \in KillSteps => call[c].arg \in Signals

Init ==
  /\ file = NoFile
  /\ proc = [p \in Pids |-> "free"]
  /\ pend = [p \in Pids |-> {}]
  /\ reg = [p \in Pids |-> "none"]
  /\ code = [p \in Pids |-> "none"]
  /\ sent = [p \in Pids |-> {}]
  /\ call = [c \in Callers |-> Idle]
  /\ creates = 0

-----------------------------------------------------------------------------
(* System calls *)

\* is_alive: kill(pid, 0) succeeds, for a zombie and for a stranger too.
Exists(p) == p \in Pids /\ proc[p] # "free"

\* kill(pid, s): a zombie takes no notice, and a free PID is an error.
Send(p, s) ==
  /\ pend' = [pend EXCEPT ![p] = IF proc[p] \in {"free", "zombie"} THEN @ ELSE @ \cup {s}]
  /\ sent' = [sent EXCEPT ![p] = IF Live(p) THEN @ \cup {s} ELSE @]
  /\ UNCHANGED <<proc, reg, code>>

\* The label lock: open in the creates past acquire, and in the live proxies.
LockFree ==
  /\ \A p \in Pids : ~Live(p)
  /\ \A c \in Callers : call[c].at \notin {"create_spawn", "create_write", "create_pidfile"}

At(c, step) == call[c].at = step
Goto(c, step) == call' = [call EXCEPT ![c].at = step]
Return(c) == call' = [call EXCEPT ![c] = Idle]

-----------------------------------------------------------------------------
(* create *)

\* Mutant: create does not claim its target.
CreateLockFree(c) ==
  /\ At(c, "idle") /\ creates < MaxCreates
  /\ Orderly => file = NoFile /\ \A d \in Callers : At(d, "idle")
  /\ Goto(c, "create_spawn")
  /\ creates' = creates + 1
  /\ UNCHANGED <<file, procVars>>

\* Up to lock::acquire; a bad bundle or a held lock returns an error at once.
CreateLock(c) ==
  /\ At(c, "idle") /\ creates < MaxCreates
  /\ Orderly => file = NoFile /\ \A d \in Callers : At(d, "idle")
  /\ LockFree
  /\ Goto(c, "create_spawn")
  /\ creates' = creates + 1
  /\ UNCHANGED <<file, procVars>>

CreateSpawn(c) ==
  /\ At(c, "create_spawn")
  /\ \/ \E p \in Pids :
          /\ proc[p] = "free"
          /\ proc' = [proc EXCEPT ![p] = "boot"]
          /\ call' = [call EXCEPT ![c].at = "create_write",
                                  ![c].st = [status |-> "created", pid |-> p]]
          /\ UNCHANGED <<pend, reg, code, sent>>
     \/ Return(c) /\ UNCHANGED procVars
  /\ UNCHANGED <<file, creates>>

\* Mutant: no SpawnGuard.
CreateWriteUnguarded(c) ==
  /\ At(c, "create_write")
  /\ \/ file' = call[c].st /\ Goto(c, "create_pidfile")
     \/ Return(c) /\ UNCHANGED file
  /\ UNCHANGED <<procVars, creates>>

\* state::write; when it fails, SpawnGuard kills the proxy.
CreateWrite(c) ==
  /\ At(c, "create_write")
  /\ \/ file' = call[c].st /\ Goto(c, "create_pidfile") /\ UNCHANGED procVars
     \/ Send(call[c].st.pid, "KILL") /\ Return(c) /\ UNCHANGED file
  /\ UNCHANGED creates

\* The pid file; when that fails, the state file stays behind.
CreatePidFile(c) ==
  /\ At(c, "create_pidfile")
  /\ Return(c)
  /\ UNCHANGED procVars \/ Send(call[c].st.pid, "KILL")
  /\ UNCHANGED <<file, creates>>

-----------------------------------------------------------------------------
(* start *)

\* Anything but a created container is refused.
StartRead(c) ==
  /\ At(c, "idle") /\ file.status = "created"
  /\ call' = [call EXCEPT ![c] = [at |-> "start_signal", st |-> file, arg |-> "none"]]
  /\ UNCHANGED <<file, procVars, creates>>

StartSignal(c) ==
  /\ At(c, "start_signal")
  /\ \/ Exists(call[c].st.pid) /\ Send(call[c].st.pid, "USR1") /\ Goto(c, "start_write")
     \/ ~Exists(call[c].st.pid) /\ Return(c) /\ UNCHANGED procVars
  /\ UNCHANGED <<file, creates>>

StartWrite(c) ==
  /\ At(c, "start_write")
  /\ Return(c)
  /\ file' \in {[call[c].st EXCEPT !.status = "running"], file}
  /\ UNCHANGED <<procVars, creates>>

-----------------------------------------------------------------------------
(* kill *)

KillRead(c, s) ==
  /\ At(c, "idle") /\ file # NoFile
  /\ call' = [call EXCEPT ![c] = [at |-> "kill_probe", st |-> file, arg |-> s]]
  /\ UNCHANGED <<file, procVars, creates>>

KillProbe(c) ==
  /\ At(c, "kill_probe")
  /\ Goto(c, IF Exists(call[c].st.pid) THEN "kill_signal" ELSE "kill_write")
  /\ UNCHANGED <<file, procVars, creates>>

\* The proxy may have been reaped since the probe: an error.
KillSignal(c) ==
  /\ At(c, "kill_signal")
  /\ \/ Exists(call[c].st.pid) /\ Send(call[c].st.pid, call[c].arg) /\ Goto(c, "kill_write")
     \/ ~Exists(call[c].st.pid) /\ Return(c) /\ UNCHANGED procVars
  /\ UNCHANGED <<file, creates>>

\* Mutant: every signal is recorded as a stop.
KillWriteAlways(c) ==
  /\ At(c, "kill_write")
  /\ Return(c)
  /\ file' = [call[c].st EXCEPT !.status = "stopped"]
  /\ UNCHANGED <<procVars, creates>>

\* A stop signal is recorded, unless the write fails.
KillWrite(c) ==
  /\ At(c, "kill_write")
  /\ Return(c)
  /\ \/ call[c].arg \in {"TERM", "KILL"} /\ file' = [call[c].st EXCEPT !.status = "stopped"]
     \/ UNCHANGED file
  /\ UNCHANGED <<procVars, creates>>

-----------------------------------------------------------------------------
(* delete *)

DeleteRead(c, arg) ==
  /\ At(c, "idle") /\ file # NoFile
  /\ call' = [call EXCEPT ![c] = [at |-> "delete_probe", st |-> file, arg |-> arg]]
  /\ UNCHANGED <<file, procVars, creates>>

\* Mutant: only a container recorded as running is killed.
DeleteProbeRunning(c) ==
  LET alive == Exists(call[c].st.pid)
      running == alive /\ call[c].st.status = "running"
  IN
  /\ At(c, "delete_probe")
  /\ \/ running /\ call[c].arg # "force" /\ Return(c)
     \/ running /\ call[c].arg = "force" /\ Goto(c, "delete_kill")
     \/ ~running /\ Goto(c, "delete_remove")
  /\ UNCHANGED <<file, procVars, creates>>

\* A running container is refused without --force; a live proxy is killed
\* whatever the recorded status.
DeleteProbe(c) ==
  LET alive == Exists(call[c].st.pid)
      running == alive /\ call[c].st.status = "running"
  IN
  /\ At(c, "delete_probe")
  /\ \/ running /\ call[c].arg # "force" /\ Return(c)
     \/ alive /\ ~(running /\ call[c].arg # "force") /\ Goto(c, "delete_kill")
     \/ ~alive /\ Goto(c, "delete_remove")
  /\ UNCHANGED <<file, procVars, creates>>

DeleteKill(c) ==
  /\ At(c, "delete_kill")
  /\ Send(call[c].st.pid, "KILL")
  /\ Goto(c, "delete_wait")
  /\ UNCHANGED <<file, creates>>

\* await_exit returns; delete does not look at what it returned.
DeleteWait(c) ==
  /\ At(c, "delete_wait")
  /\ Live(call[c].st.pid) => ~PromptKill
  /\ Goto(c, "delete_remove")
  /\ UNCHANGED <<file, procVars, creates>>

\* state::remove, which may fail.
DeleteRemove(c) ==
  /\ At(c, "delete_remove")
  /\ Return(c)
  /\ file' \in {NoFile, file}
  /\ UNCHANGED <<procVars, creates>>

\* The verb's process is killed: its lock descriptor closes, nothing is undone.
VerbKilled(c) ==
  /\ VerbsDie /\ ~At(c, "idle")
  /\ Return(c)
  /\ UNCHANGED <<file, procVars, creates>>

Verb(c) ==
  \/ CreateSpawn(c) \/ CreateWrite(c) \/ CreatePidFile(c)
  \/ StartSignal(c) \/ StartWrite(c)
  \/ KillProbe(c) \/ KillSignal(c) \/ KillWrite(c)
  \/ DeleteProbe(c) \/ DeleteKill(c) \/ DeleteWait(c) \/ DeleteRemove(c)

Engine(c) ==
  \/ CreateLock(c) \/ StartRead(c)
  \/ \E s \in Signals : KillRead(c, s)
  \/ \E arg \in {"force", "none"} : DeleteRead(c, arg)
  \/ VerbKilled(c)

-----------------------------------------------------------------------------
(* The proxy *)

Advance(p, phase) ==
  /\ proc' = [proc EXCEPT ![p] = phase]
  /\ UNCHANGED <<file, pend, code, sent, call, creates>>

\* The process ends; its descriptors close and pending signals go with it.
Ends(p, status) ==
  /\ proc' = [proc EXCEPT ![p] = "zombie"]
  /\ code' = [code EXCEPT ![p] = status]
  /\ pend' = [pend EXCEPT ![p] = {}]
  /\ reg' = [reg EXCEPT ![p] = "none"]
  /\ UNCHANGED <<file, sent, call, creates>>

Install(p) == proc[p] = "boot" /\ Advance(p, "swap") /\ UNCHANGED reg

\* match SIGNAL_RECEIVED.swap(0): the step to pause() is not atomic with it.
Swap(p) ==
  /\ proc[p] = "swap"
  /\ \/ reg[p] = "none" /\ Advance(p, "pause") /\ UNCHANGED reg
     \/ reg[p] = "USR1" /\ Advance(p, "work") /\ reg' = [reg EXCEPT ![p] = "none"]
     \/ reg[p] = "TERM" /\ Ends(p, "0")

Pause(p) == proc[p] = "pause" /\ Advance(p, "asleep") /\ UNCHANGED reg

\* Resolve, claim, deploy (modules Occupancy and Deploy): signals only wait.
Deployed(p) == proc[p] = "work" /\ Advance(p, "resident") /\ UNCHANGED reg
DeployFailed(p) == proc[p] = "work" /\ Ends(p, "1")

\* stay_resident: any recorded signal is a request to stop.
ResidentStops(p) == proc[p] = "resident" /\ reg[p] # "none" /\ Ends(p, "0")
DeviceLost(p) == proc[p] = "resident" /\ Ends(p, "1")

-----------------------------------------------------------------------------
(* The kernel and the shim *)

\* handle_signal: the last signal delivered is the one remembered.
Deliver(p, s) ==
  /\ Live(p) /\ proc[p] # "boot" /\ s \in pend[p] \cap Handled
  /\ reg' = [reg EXCEPT ![p] = s]
  /\ pend' = [pend EXCEPT ![p] = @ \ {s}]
  /\ proc' = [proc EXCEPT ![p] = IF @ = "asleep" THEN "swap" ELSE @]
  /\ UNCHANGED <<file, code, sent, call, creates>>

\* A signal with no handler: CONT is ignored, the others end the process.
DefaultAction(p, s) ==
  /\ Live(p) /\ s \in pend[p]
  /\ s \notin Handled \/ proc[p] = "boot"
  /\ \/ s # "CONT" /\ Ends(p, "killed")
     \/ /\ s = "CONT"
        /\ pend' = [pend EXCEPT ![p] = @ \ {s}]
        /\ UNCHANGED <<file, proc, reg, code, sent, call, creates>>

\* A zombie is its parent's to reap: create while it runs, then the shim.
Reap(p) ==
  /\ proc[p] = "zombie"
  /\ \A c \in Callers :
       ~(call[c].at \in {"create_write", "create_pidfile"} /\ call[c].st.pid = p)
  /\ proc' = [proc EXCEPT ![p] = "free"]
  /\ code' = [code EXCEPT ![p] = "none"]
  /\ sent' = [sent EXCEPT ![p] = {}]
  /\ UNCHANGED <<file, pend, reg, call, creates>>

\* An unrelated process gets the PID, and ends.
Reused(p) ==
  /\ Reuse /\ proc[p] = "free"
  /\ proc' = [proc EXCEPT ![p] = "other"]
  /\ UNCHANGED <<file, pend, reg, code, sent, call, creates>>

OtherEnds(p) ==
  /\ proc[p] = "other"
  /\ proc' = [proc EXCEPT ![p] = "free"]
  /\ pend' = [pend EXCEPT ![p] = {}]
  /\ UNCHANGED <<file, reg, code, sent, call, creates>>

Proxy(p) ==
  \/ Install(p) \/ Swap(p) \/ Pause(p) \/ Deployed(p) \/ DeployFailed(p) \/ ResidentStops(p)

Kernel(p) ==
  \/ \E s \in AllSignals : Deliver(p, s) \/ DefaultAction(p, s)
  \/ Reap(p)

Next ==
  \/ \E c \in Callers : Verb(c) \/ Engine(c)
  \/ \E p \in Pids : Proxy(p) \/ Kernel(p) \/ DeviceLost(p) \/ Reused(p) \/ OtherEnds(p)

Spec == Init /\ [][Next]_vars

(* Verbs and proxies are scheduled, every signal sent is delivered, and    *)
(* the shim reaps.  The engine is not obliged to call anything.            *)
FairSpec ==
  /\ Spec
  /\ \A c \in Callers : WF_vars(Verb(c))
  /\ \A p \in Pids : WF_vars(Proxy(p))
  /\ \A p \in Pids, s \in AllSignals : WF_vars(Deliver(p, s)) /\ WF_vars(DefaultAction(p, s))
  /\ \A p \in Pids : WF_vars(Reap(p))

-----------------------------------------------------------------------------
(* Properties *)

(* One container has one proxy: the occupancy lock lets no second proxy    *)
(* live beside the first, whatever verbs overlap (lock.rs).                *)
OneProxy == \A p, q \in Pids : Live(p) /\ Live(q) => p = q

(* No proxy is left behind holding the port: every one that lives is known *)
(* to the state file, is still in create's hands, or is about to die.      *)
NoOrphan ==
  \A p \in Pids : Live(p) =>
    \/ "KILL" \in pend[p]
    \/ file.pid = p
    \/ \E c \in Callers :
         call[c].at \in {"create_write", "create_pidfile"} /\ call[c].st.pid = p

(* delete must not return while the proxy still holds the serial port      *)
(* open: the replacement the engine creates next would fail to open it.    *)
DeviceFreeAfterDelete ==
  [][file # NoFile /\ file' = NoFile => \A p \in Pids : ~Live(p)]_vars

\* print_state: a running container whose proxy is gone is reported stopped.
StateShows ==
  IF file.status = "running" /\ ~Exists(file.pid) THEN "stopped" ELSE file.status

(* A proxy that nobody told to end is not reported stopped, however the    *)
(* verbs' writes of the state file fall.                                   *)
StoppedMeansTold ==
  \A p \in Pids :
    Live(p) /\ file.pid = p /\ StateShows = "stopped" => sent[p] \cap {"TERM", "KILL"} # {}

(* A stale PID must never be signalled (state.rs).                         *)
StalePidNotSignalled == \A p \in Pids : proc[p] = "other" => pend[p] = {}

(* start releases the proxy from its wait; it never kills it (proxy.rs).   *)
StartDoesNotKill ==
  \A p \in Pids : code[p] = "killed" => sent[p] \cap {"KILL", "HUP"} # {}

(* A proxy that start has signalled leaves its pre-start wait.             *)
StartReleases ==
  \A p \in Pids :
    (Live(p) /\ "USR1" \in sent[p]) ~> (proc[p] \in {"work", "resident"} \/ ~Live(p))

-----------------------------------------------------------------------------
(* Two more claims of the source's comments that the code does not keep;   *)
(* the README says under which constants TLC refutes them.                 *)

(* A clean exit means the proxy was asked to stop (flash.rs, Returning     *)
(* Ok(()) means we were asked to stop).                                    *)
CleanExitMeansAsked == \A p \in Pids : code[p] = "0" => "TERM" \in sent[p]

(* A resident proxy works "until told to stop" (proxy.rs): one that was    *)
(* sent SIGTERM comes to an end.                                           *)
TermEnds ==
  \A p \in Pids : (proc[p] = "resident" /\ "TERM" \in sent[p]) ~> ~Live(p)
=============================================================================
