# runtt in TLA+

runtt is an OCI runtime whose "containers" are microcontroller boards. Its
`create`, `start`, `kill` and `delete` manage a resident proxy process instead of
a container process; the proxy flashes a signed MCUboot image over SMP, resets
the board, confirms the image only once it proves itself, and then stays as the
container process until the board goes away or the engine stops it.

This directory holds TLA+ models of that code, TLC configurations, and proofs
checked by TLAPS. Paths below are relative to `src/crates/`.

## 1. Inventory

| Part | Source | State | Operations | Model |
|---|---|---|---|---|
| Deploy sequence | `runtt/src/flash.rs` | step reached, wanted digest, live client, heartbeat failures | `run`, `identify`, `confirm_contract_matches`, `reconnect`, `stay_resident` | `Deploy` |
| Board's image slots | `runtt-mock/src/device.rs`, `faults.rs` | two slots with hash and flags, `awaiting_confirm`, `failed_digests` | `provisioned`, `upload_chunk`, `set_state`, `reset`, `image_states` | `Device` (transfers whole), `Upload` (chunk by chunk) |
| Mock SMP server | `runtt-mock/src/server.rs` | silence, injected fault, line being read | `serve`, `dispatch`, writing frames and log lines | `Deploy`, `Upload`, `Demux`, `Console` |
| SMP client | `runtt-smp/src/toolkit.rs`, `lib.rs` | retry count, sequence number, upload offset | echo, image list, upload, set state, reset | `Deploy` (retries, loss), `Upload` (the upload) |
| describe command | `runtt-smp/src/describe.rs` | none | request and its kinds of answer | `Deploy` (`Voices`) |
| Log demultiplexer | `runtt-smp/src/demux.rs` | line buffer, frame queue, stop flag, handles | `pump`, `Read::read`, `Drop` | `Demux` |
| OCI verbs | `runtt/src/verbs.rs` | a copy of the container state per call | `create`, `start`, `state`, `kill`, `delete` | `Lifecycle` |
| Resident proxy | `runtt/src/proxy.rs` | one-signal register, phase | `spawn`, `run`, `handle_signal`, `is_alive`, `await_exit` | `Lifecycle`, `Occupancy` |
| State file | `runtt/src/state.rs` | status and PID | `write`, `read`, `remove` | `Lifecycle` |
| Occupancy locks | `runtt/src/lock.rs` | one flock per label, one per resolved device | `acquire`, `acquire_resolved` | `Occupancy`, `Lifecycle` |
| Target resolution | `runtt-transport/src/resolve.rs`, `usb.rs`, `lib.rs` | ttys found so far, node names, links | `resolve`, `from_udev_tree`, `scan_ttys`, `resolve_usb_serial`, `lock_key`, opening | `Targets` (how a label is looked up), `Occupancy` (where it leads) |
| Console framing | `runtt-mock/src/codec.rs` | packet being assembled | `encode`, `Decoder::push_line` | `Console` |
| MCUboot image parser | `runtt-smp/src/mcuboot.rs` | none | `parse`, `find_sha256` | `ImageFile` |
| CAN transport | `runtt-transport/src/can.rs`, `runtt-smp/src/can.rs` | frame being handed over, cursor in it | log reader, ISO-TP socket | `LogChannel` (log reader); the socket as a kind of link in `Deploy` |
| Log channel pump | `runtt/src/flash.rs` | line being assembled | `pump_logs` | `LogChannel` |
| Command line, log, trace, annotations | `runtt/src/main.rs`, `trace.rs`, `annotations.rs` | none | argument parsing, best-effort output | no |
| Mock executable, scripts | `runtt-mock/src/main.rs`, `src/scripts/` | none | test fixtures, provisioning | no |

### How the parts interact

* The engine runs each verb as a process. Verbs of one container share nothing
  but the state file, and reach the proxy only through its PID and signals.
* `create` takes the label lock, spawns the proxy with the lock's descriptor
  inherited across exec, and writes the state file. `start` sends SIGUSR1; only
  then does the proxy resolve its label, claim the device it found, and deploy.
* `Deploy::run` is a sequence of SMP requests over one client. The board may
  change state between any two of them, and a reset breaks the link on USB.
* On a single-channel board SMP frames and log text share the port. A thread
  separates them; dropping the client joins that thread, because the port has to
  be closed before it is opened again after the reset.
* An upload is a loop of requests, each with an offset; the board answers with
  the offset it wants next. Requests and replies travel as packets of one or more
  lines, which the decoder puts together again.
* A second channel, serial or CAN, carries the log of a board that has one; a
  thread of the proxy reads it line by line until the process ends.
* Exit codes are the only thing the engine sees: 0 for "asked to stop", anything
  else makes its restart policy call the runtime again, which meets the board in
  whatever state the last attempt left it.

### What is hard, and what makes each part correct

* Deploy: kills, reboots, unplugging and lost replies between any two requests.
  Correct if the board always keeps firmware that works, if nothing becomes
  permanent without passing the contract gate, and if success means what it says.
* Occupancy: names change meaning while boards re-enumerate, and a lock passes
  from `create` to the proxy. Correct if two services never work on one board, and
  two proxies never run for one label.
* Lifecycle: each verb is a sequence of system calls with the proxy, the kernel
  and other verbs in between. Correct if there is one proxy, never an orphan, and
  if `delete` hands the board over.
* Demux: reads end anywhere; three threads of control meet at drop. Correct if
  nothing is lost, mixed or reordered, and drop leaves the port closed.

* Upload: chunks, replies and verdicts are lost, repeated and delayed, hosts are
  killed in the middle, the board restarts. Correct if the board only ever keeps
  the beginning of one file, stages whole files, and success means staged.
* Console: packets are cut into lines and lines are lost, damaged or joined.
  Correct if what arrives unharmed is delivered once and in order, and damage
  stays where it is.
* Log channel: frames end anywhere and may be larger than the buffer; some are
  empty or someone else's, and the channel goes away. Correct if no byte is lost
  between the kernel's queue and stdout, and only those causes end the pump.
* Targets: several reads of a directory that changes. Correct if a label never
  leads to a board that does not carry it.

`PROJECT.json` lists each hazard at its line with the properties aimed at it.

## 2. Modules

| Module | Role |
|---|---|
| `Device` | the board's slots: operators that are actions over the slot variables |
| `Deploy` | one service and one board; EXTENDS `Device` and conjoins its operators with the host's state |
| `TrialBoot` | abstract: a board tries an image, and accepts it or falls back |
| `Occupancy` | services, boards, nodes, links and the two locks |
| `OneMcu` | abstract: a service takes a board nobody uses, and releases it |
| `Lifecycle` | verbs, state file, proxy, signals and PIDs of one container |
| `Demux` | one shared serial link: device, reader thread, client |
| `ImageFile` | signed files and the walk through them that finds the digest |
| `Upload` | client, link and board during uploads, chunk by chunk; EXTENDS `ImageFile` |
| `Staging` | abstract: the staging slot receives a whole file in one step |
| `Console` | packets as lines of tokens, and the decoder of `Server::serve` |
| `LogChannel` | application, queue, reader and pump of a board's own log channel |
| `Targets` | the lookup of a usb: label, read by read, on a bus that changes |
| `DeployProof`, `OccupancyProof`, `LifecycleProof`, `DemuxProof`, `UploadProof`, `ConsoleProof`, `LogChannelProof`, `TargetsProof` | theorems |
| `MCDeploy`, `MCOccupancy`, `MCLifecycle`, `MCDemux`, `MCUpload`, `MCConsole`, `MCLogChannel`, `MCTargets` | constants for TLC; `MCUpload` also builds the files the parser is tried on, `MCTargets` the selectors |

Operators that a comment introduces with "Mutant:" are not part of any
specification. Each is a plausible slip in the definition it stands next to, and
`PROJECT.json` says which property notices it.

### Device and Deploy

`pc` is the request `Deploy::run` is about to make, so one action is one request
with its answer and the early returns that follow from it; between two actions
anything may happen to the board. `link` says whether the open client reaches
the board: false after a USB re-enumeration, still true on a UART or CAN link.
`tries` counts unanswered attempts; `LoseAttempt` loses either the request or the
reply to a request the board did execute, so every SMP operation may run twice.
`Exit` is every `?` and `bail!` of the source as well as a normal return.

An image is its digest. What its firmware would answer is a constant, `Speech`,
with one value per answer the code tells apart: `match`, `other` (major),
`garbled`, `silent` (no describe), `bringup` (no image management), `mute`.
`vouched` is a history variable: the images that were running, over a live link,
when the gate let the deploy pass. It stays through later deploys. `unheard` are
those of them for which every reply to the gate's describe was lost, which the
code takes for firmware without the command. The gate looks at the contract only:
it would pass an image without image management too, but on a USB link such an
image does not get as far.

`Device.Reset` follows `Device::reset` in `device.rs`, including that a failed
trial is swapped back and its digest remembered. Slot 1 may start with an
unbootable leftover, the case `flash.rs` refuses to reflash.

### Occupancy

A label leads to a node at the moment it is looked at (`Canonical`); the proxy
keeps the name it resolved, claims the key computed from it, and opens the name
again at every connect. `fds` models the label lock's open file description as
the set of processes that hold it, which is what flock across fork and exec
comes to. `session` is a history variable, the board a proxy has been talking to.
Services may share a label, and then share its lock.

### Lifecycle

A verb keeps the copy of the state it read (`st`) until it writes it back. A
signal is sent (`pend`), later delivered, and a handler only stores it in a
register of one signal (`reg`), overwriting what is there. The proxy's wait is
two steps, `Swap` and `Pause`, as in the code. A zombie still answers signal 0; a
reaped PID may pass to a stranger when `Reuse` allows it. TERM stands for INT
too, HUP for every signal the proxy has no handler for and dies of, CONT for the
harmless ones. SIGSTOP is left out. The reads and tests before the
lock in `create` change nothing and have become its guard.

### Demux

Bytes are tokens: a payload, the two-byte marker as one token, CR, newline.
Reads return any number of tokens that have arrived, and the marker cannot be
cut in two; the code compares it only once the line is complete, so a cut in
it is like a cut behind it. The bounded `recv_timeout` is one step
that either finds a frame, a timeout, or the end of the stream.

### ImageFile, Upload and Staging

A file is a sequence of units, one per thing the parser reads at a step: header,
area header, entry header, payload. Lengths count units, so that a length that
runs past the end of the file is still a length that does. `Entries` and
`find_sha256` are recursive functions, one call per step of the loop of
`mcuboot.rs`. `LaidOut(f, d)` says of any file that it is one the signing tool
makes, with digest d: areas filled with entries, one of them a digest; it speaks of
positions and not of how the parser walks. `Layout` builds such files for TLC, and
the assumption `SamplesAssumption`, which TLC evaluates, says that they are. A protected area with a
declared size of zero, on which `find_sha256` calls itself with the same
arguments, is taken to end the walk with no digest.

In `Upload`, `reqs` and `resps` are what is under way in each direction. `Begin`,
`Accept`, `Discard`, `Retry` and `GiveUp` are the client's loop (a library; the
code in `src/` calls it in `toolkit.rs` and fixes the number of attempts): the
next chunk starts at the offset of the reply, a reply with an old sequence number
is thrown away. Sequence numbers are unique in the model; the library's have eight
bits and start anew with each process, so that a reply delayed from one host to
the next could pass for an answer there, which the model leaves out. `Handle` is
one request through `Server::serve`, `dispatch` and
the whole of `upload_chunk`; its parts are named after the branches there
(`OutOfStep`, `Opened`, `RestartDue`, `Take`). `Killed` leaves what the old host
sent on the link. A SHA-256 is represented by the bytes it is the hash of. The
slot keeps its bytes so that `StagesWhole`, which says that the board implements
`Staging`, can tell whole files from pieces.

### Console

The link carries tokens: the two start markers, newlines, and one piece per line
of a packet (`encode` cuts a packet into lines; what a piece holds is told by the
packet it belongs to and its place in it). `wrong` is text that is still
base64, `x` is text that is not. `push_line` is the decoder's function with its
three arms; `Take` and `Read` are the loop of `Server::serve` over bytes; `Poll`
is the wait for a host, in which the unfinished line and packet are dropped.
`EofReaches` says whether a host's leaving reaches the server as an end of file.
A checksum is taken to detect every mixture of packets; Garble and Lose change or
drop one token of those under way.

### LogChannel

Bytes are an ordinary one (`a`), the two bytes of a character (`hi`, `lo`), the
newline and `bin`, a byte no text contains. `queue` is the kernel's, by frame on
CAN and by read on serial. `CanRead` is `CanLogReader::read` with its cursor `at`
in the frame `pending`; `Fill` is one call of it by `BufReader`, `Scan` one round
of `read_line` over what the buffer holds. A line in `passed` keeps its newline, as
in `read_line`; the pump cuts it off only to print it. `Bind` and `Filter` are the two system
calls of `open`. Foreign frames are possible from the bind on: any frame before the
filter is there, and after it remote frames and those with an extended identifier
that ends in the log's, because the mask (`can.rs` 343-346) has neither flag; so are
frames without a byte. `OpenFails` is every error of opening. `Unplug` takes the
board or the CAN interface away for good, and `Hangup` is the read that notices: an
error, or on a serial port perhaps an end of file. A socket reports the interface
down before it hands out what is queued. `EndOfFile` is `Ok(0)`, whether the port
hung up or a frame was empty: with part of a line gathered that part is shown and
the pump goes on, without it `lines()` ends and `pump_logs` returns Ok (`ended`).

### Targets

`tty` is the sysfs tree, one tty per interface; boards are plugged and unplugged
(`Plug`) and their ttys come and go one by one (`Appear`, `Vanish`); `link` is
udev's, which follows later (`Follow`). `FollowLink`, `CheckLink`, `ReadPort`,
`ReadInterface` and `ReadSerial` are one read of the file system each, so that
anything may change between two of them. `Choose` is the rest of `resolve_usb`
and `resolve_usb_serial`, which reads nothing more. `quiet` and `owners` are
history variables: whether the bus stood still during the lookup, and which
boards each node belonged to. `is_port_path` is an operator;
`PortShape` says what a port path looks like without taking it apart.

## 3. Runs

Passing runs:

| Run | Question | States | Result |
|---|---|---|---|
| `deploy_usb` | kills, reboots, unplugging and loss on USB, every kind of answer but another major | 818,835 | the board always has a confirmed image to fall back to (`RollbackKept`); nothing is confirmed except through the gate, or if it cannot be updated again; a wrong contract is confirmed only if every reply to the gate's describe was lost; success means the wanted image runs confirmed; the board refines `TrialBoot`; deploys end; a lost board is noticed |
| `occupancy` | four services, two under one label, another spelling of the same board, another board | 17,136 | no two services work on one board; no two proxies run for one label; refines `OneMcu` |
| `lifecycle` | two overlapping verbs, failing writes, proxies that die | 943,818 (symmetry) | no orphan; a live proxy is shown stopped only if told to stop; delete frees the board |
| `lifecycle_storm` | verbs in any order, killed half way, PIDs reused | 1,396,719 (symmetry) | at most one live proxy |
| `demux` | every cutting of three lines into reads, two connections | 492,617 | frames and log lines arrive whole, in order, and only where they belong; drop closes the port and returns; a vanished device is reported |
| `upload` | two uploads of signed and unsigned files, two losses, one repetition, a host killed, each fault of `faults.rs` | 155,739 | the board keeps a prefix of one file; success means staged, except on a board told to corrupt; only such a board reports a mismatch; the board refines `Staging`; uploads end; the parser finds the digest of every laid-out file and none in trailers |
| `console` | three packets of up to three lines, two tokens lost or damaged, hosts killed | 693,964 | a packet that arrives unharmed on lines of its own is delivered, once, in order; a fault costs at most one packet that itself arrived unharmed |
| `log_channel` | two lines over serial and CAN, one frame dropped, one foreign or empty, one silence, the board or the interface gone | 1,071,591 | no byte is lost or repeated between queue and stdout, lines appear as printed when nothing was dropped, mixed in or cut off, the pump ends only for the causes listed, and lines come out |
| `targets` | three boards, two of them with one serial, three nodes, two moves of the bus during lookups | 425,623 (symmetry) | on a quiet bus a label leads to its board, or to an error if it is ambiguous or absent; never to a board without that label; ports and serials are told apart |

Each type invariant is a theorem (section 4). TLC checks it in `deploy_usb`,
where it also bounds the heartbeat's count of misses; in the other runs it was
dropped once it was proved.

Runs that end in a counterexample. Each is a disagreement between the code and a
sentence of its own comments, quoted in `PROJECT.json`:

| Run | What TLC shows |
|---|---|
| `find_mid_trial` | a deploy of the image already running on trial marks it "test", and `set_state` on the running slot confirms it, with no contract check |
| `find_start_early` | `start` before the proxy has installed its handlers kills the proxy |
| `find_next_client` | the mock (and the server of the end-to-end test) keeps the slave end of its pty open, so a host's leaving is no end of file, and what it left of a line swallows the first packet of the next host, against the comment at `server.rs` 123-124 |

More disagreements of the same kind can be seen by changing constants. The
properties are in the modules.

| Property | Change | What TLC shows |
|---|---|---|
| `RollbackKept` | `find_mid_trial` as it is | the second upload overwrites the image to fall back to |
| `ConfirmedOnlyThroughContract` | `deploy_usb` with `Transport = "can"` | the board reboots between the image list and the confirm; the gate judges one image and the confirm settles another |
| `SuccessMeansRunning` | the same | the board reboots before the confirm, which then marks the reverted image in slot 1 permanent, and the run returns Ok |
| `RejectedIsNotReflashed` | `deploy_usb` as it is | a reverted image is still reported bootable, so the next deploy flashes it again |
| `DirectWriteReturnsClient` | `find_mid_trial` with `FairSpec`, `FewDigests`, `FewSpeech`, `Transport = "uart"`, `MaxDeploys = 1` | when an upload lands in the running slot, `reconnect` runs while the old client still has the port locked, and can only time out |
| `OneServicePerBoard` | `occupancy` with `Renumbers = TRUE` | after a reset on another node a board is no longer covered by the claim on its old node |
| `OneServicePerBoard` | `occupancy` with `LinkLabel` and `LinkLock` | a link that dangles when the claim is made is locked by its own name |
| `CleanExitMeansAsked` | `find_start_early` as it is | a second SIGUSR1 ends a resident proxy with status 0 |
| `StartReleases` | `find_start_early` with `FairSpec` | a start signal between `swap` and `pause` leaves the proxy asleep |
| `TermEnds` | `find_start_early` with `FairSpec` | SIGUSR1 overwrites a SIGTERM in the register |
| `StalePidNotSignalled` | `find_start_early` with `Reuse = TRUE` | `kill` signals a PID that has passed to another process |
| `DeviceFreeAfterDelete` | `find_start_early` with `PromptKill = FALSE` | `delete` ignores that `await_exit` timed out |
| `NoOrphan` | `find_start_early` with `VerbsDie = TRUE` | a `create` killed between spawn and the state write |
| `DropsOnlyMangle` | `log_channel` with `MaxForeign = 0`, `MaxSilences = 0` | a frame dropped in the middle of a character does not just mangle a line (`can.rs` 284-285): `read_line` refuses it and the log ends |
| `OnlyLogFrames` | `log_channel` as it is | frames queued between bind and filter, and remote or extended ones the filter's mask lets through, are read as log text (`can.rs` 287-288 says only log frames are) |
| `LogNeverManages` | `targets` as it is | a two-channel board of which only the log tty has appeared is taken for a single-channel one (`resolve.rs` 319-322) |

Two of the causes in `EndsForACause` look unintended, though no comment says so. On
CAN, an hour without log output ends the log: the socket reports the timeout as
`WouldBlock`, the pump goes on only after `TimedOut` (`flash.rs` 585);
`IsoTpChannel` translates the one into the other (`can.rs` 171-173) and
`CanLogReader` (421-423) does not. And an empty frame between two lines reads as
`Ok(0)`, which ends the log as if the channel were at its end.

Two comments in the source are stale without a run to show it: `flash.rs` 64-65
and 357-359 still speak of a device "refused rather than written to", and
`proxy.rs` 33-34 says SA_RESTART is deliberately left out although glibc's
`signal()` sets it (`pause()` returns all the same, so nothing depends on it).

### Bounds, and why they are enough

* Deploy: three deploys are a first one, one that meets what it left, and one
  that meets what both left; two mishaps are enough for a mishap and another one
  during the recovery. One retry already makes every operation run twice. One
  image per kind of answer suffices, since the code tells images apart by digest
  and answer only. Another major is left to `find_mid_trial`: the gate refuses it
  as it does a garbled contract, which `identify` refuses as well. The theorems have no such
  bounds.
* Occupancy: two services of one label meet in `create`, a third that spells the
  board differently meets them at the claim, a fourth works next to them; the other
  board can only be confused with the first through a node, and there are two.
* Lifecycle: two verbs overlap on one container; two PIDs let a second proxy
  exist beside the first. `lifecycle` has one `create`, since an orderly engine
  creates again only from the state it started in; `lifecycle_storm` has two.
* Demux: three lines are enough for a frame between two log lines and the other
  way round; two connections, for what one might leave to the next.

* Upload: a second upload meets what the first left on the board and on the link;
  two losses take a reply and the reply to its repetition. Chunks of two or three
  units cut files of up to eight differently each time. One retry, for three in
  the code, already makes every request run twice. The theorems have no bounds.
* Console: the middle one of three packets can be joined to either neighbour, and
  two faults can hit one packet or two; three lines give a packet a first, a
  middle and a last line.
* LogChannel: a frame of three bytes does not fit a buffer of two and does not
  divide by it. The real buffer is 8 KiB and a frame has eight bytes, so `BufReader`
  never cuts one; the reader keeps a cursor for callers with less room, and the
  model makes that the usual case. Two lines, one with a character of two bytes, are enough for a line
  over several frames and a frame with parts of two lines.
* Targets: a lookup reads at most three nodes, and two moves can take one board
  from its node and put another there.

`CHECK_DEADLOCK FALSE` is used where the bounds, or an engine that asks for
nothing more, let the system stop. `occupancy` is checked for deadlock.

### Fairness

* `Deploy`: weak fairness of the steps of the run and of the heartbeat. Every
  request has a timeout and the host process is scheduled. Nothing is assumed of
  the board, the link or the engine: `DeployEnds` and `LostBoardIsNoticed` hold
  although the board may stay away for good.
* `Lifecycle`: verbs and proxies are scheduled, signals sent are delivered, the
  shim reaps. The engine owes no call.
* `Demux`: the reader thread runs (its reads time out), the client keeps
  reading, as the heartbeat does, and a drop waits for the reader. That the sink
  accepts each line is assumed: if nobody drains the container's stdout the
  reader blocks in it and the drop does not return.

* `Upload`: the client's timer runs and both sides look at what arrives. The
  link may lose everything, and a silent board stays silent.
* `LogChannel`: the pump's thread is scheduled, and a read of a channel that is gone
  returns; nothing is assumed of the board.

### Assumptions about the environment

Constants name what the code relies on and does not enforce. The theorems state
them as hypotheses and the counterexample runs show that they are needed.

* `ConnectMidTrial = FALSE`: a deploy does not meet a board on trial, which
  amounts to a reset between two attempts.
* `Transport = "usb"`: the link dies with the board.
* `Renumbers = FALSE`, and no label that is a symlink.
* `Orderly`: the engine creates only once the state file is gone and none of its
  other verbs on that container is running. `~VerbsDie`: it kills none half way.
* `EofReaches`: a host that leaves is noticed by the server. Only the run
  `find_next_client` depends on it (no server in the repository has it); the
  theorems about `Console` hold either way.
* `PromptKill`: a SIGKILLed proxy is gone within the five seconds of `await_exit`.

## 4. Proofs

| Theorem | Assumes | For every value of |
|---|---|---|
| `TypeCorrect` (`Deploy`) | nothing | images, answers, transport, retries, deploys, mishaps |
| `RollbackTheorem`, `GateTheorem`, `ContractLossTheorem`, `WrongContractTheorem`, `SuccessTheorem`, `Refinement` | `UsbSettled` | the same |
| `OccupancyTypeCorrect` | nothing | services, boards, nodes, labels, lock names |
| `ExclusionTheorem`, `OccupancyRefines` | `Settled` | the same |
| `LifecycleTypeCorrect`, `OneProxyTheorem` | nothing | callers, PIDs, creates, signals |
| `NoOrphanTheorem` | `Orderly`, `~VerbsDie` | the same |
| `DeleteTheorem` | the same and `PromptKill` | the same |
| `LabelTheorem` (`Occupancy`) | nothing | services, boards, nodes, labels, lock names |
| `ToldTheorem` (`Lifecycle`) | `Orderly`, `~VerbsDie` | callers, PIDs, creates, signals |
| `DropClosesPort`, `DemuxTypeOK`, `RoutedInOrder`, `ClientGetsFrames`, `SinkGetsLogs` | nothing | payloads, lines, connections |
| `UploadTypeOK`, `PrefixKept`, `SuccessMeansStaged`, `MismatchIsReal`, `UploadStagesWhole` | nothing | files, chunk sizes, faults, retries, losses, uploads |
| `ParserTheorem` (`ImageFile`) | nothing | files as imgtool lays them out, what follows them, where they are cut |
| `ConsoleTypeOK`, `OnceInOrderTheorem`, `CleanTheorem`, `DamageTheorem` | nothing | packet shapes, packets, faults |
| `LogTypeOK`, `NothingLost`, `LinesAsPrinted` | nothing | lines, frame and buffer sizes, drops, foreign frames, silences |
| `PumpEndsForACause` (`LogChannel`) | `Text`: what is printed is UTF-8 | the same |
| `TargetsTypeOK`, `NamedBoardTheorem`, `SettledTheorem` | nothing | boards, ports, serials, nodes, labels, with and without the udev tree |
| `SelectorTheorem` (`Targets`) | nothing | selectors over any alphabet, of any length |

The named assumptions on constants (`DeployAssumption` and the like) are used
throughout and only say what kind of thing each constant is.

* Deploy. `RollbackKept` is not inductive: the invariant `Safe` adds that a
  settled board runs a confirmed image (`SettledBoard`), that a trial never has a
  second image staged and runs something other than its fallback (`TrialBoard`),
  that a slot waiting for a reset holds a test mark and not a permanent one
  (`StagedSlot`), that a connected deploy up to its own reset works on a board
  not on trial (`QuietBoard`), that from the gate on a live link talks to the
  image deployed (`SameImage`), and what is known of vouched images (`Vouched`).
  The last three are where the USB link is needed: a reboot clears `link`, and
  with it what the deploy believed. Types need `Occupied` beside `TypeOK`, since
  an empty slot 0 would put "no digest" among the vouched images.
* Deploy implements `TrialBoot` by mapping `running` to slot 0 and `trusted` to
  what a reset leads to; most requests are stutters, the reset and the confirm
  are the abstract steps.
* Occupancy. `OccInv`: boards are at home or away; a claim is on the very name
  the proxy opens; a board reached is a board claimed; claims exclude each other.
  For labels, `LabelInv` says that a living proxy has the lock's description open
  and that only one service does: it is what carries the exclusion from `create`,
  which took the lock and may be gone, to the proxy, which never took it.
* Lifecycle. `LockInv` gives `OneProxy` whatever the verbs do. For the rest,
  `OrderInv` adds that a create up to its state write is alone, that every copy
  of the state names the living proxy (so no write back can forget it), that a
  proxy not in the file is being killed, and what `delete` has done by its last
  step.
  `ToldInv` follows the copies: while a living proxy has not been told to stop,
  neither the file nor any verb's copy of it says "stopped", and no kill with a
  stopping signal is about to write.
* Demux. `HandleInv` ties each handle to the thread that owns it. That nothing is
  lost or moved rests on `LineInv`: what the device wrote is `done \o rest`, two
  sequences of whole lines, where `done` has been routed and `rest` is what the
  reader's line, its buffer, the port and the unread stream make together. Lines
  end at their newline and nowhere else, so that splitting a sequence into lines
  is unique and cuts made by reads leave no trace. `ClientGetsFrames` and
  `SinkGetsLogs` read the two kinds of line off `done`.
* Upload. What the board holds (`BoardInv`: a prefix of a file whose length and
  digest it was told) depends on what is under way: `RequestInv` says that every
  request is a part of one file at its offset, and that one from the middle meets
  a board that works on that file, whatever is handled before it. `OrderInv` keeps
  requests in the order they were made, killed clients' first, so that a late
  first chunk cannot open another file under a client that has gone on. By
  `ReplyInv` the reply a client accepts speaks of its own file, and nothing older
  is left on the link. `DoneInv` carries the verdict to the client.
* The parser. Its two loops are recursive functions on positions; that they are
  defined at all follows from each step going forward (`Recursion`), and what they
  return is followed from the last position down (`Downward`). From any entry of an
  area on, the loop returns the file's digest, or none, and goes on at the end of
  the area (`EntriesIn`); cut short, it stops at the cut. The file that is parsed
  need only agree with the signed one as far as both go (`Agree`), which covers
  files with something behind them and files cut short alike.
* Console. Packets are numbered as they are sent. `OrderInv` says that the tokens
  under way are sorted, that whatever is in the line or the packet being
  assembled is older than they are, and newer than what has been delivered.
  `HeldInv` is for packets that arrive: while one that began on a line of its own
  has come unchanged so far, the line and the packet in the decoder are what has
  come of it, whatever they held before. `NoiseInv` counts: a packet that arrives
  but begins in the middle of a line (`Ragged`) has a fault of its own, so there
  are no more of them than faults.
* LogChannel. `FlowInv` adds to the types where the cursor may be. Between the
  queue and stdout every byte is in one of five places, in order (`NothingLost`).
  `LineInv` says that the lines read so far are the printed ones and the bytes not
  yet read go on behind them (`Behind`), as long as nothing was dropped, foreign or
  cut off (`Complete`); it is what a pump that ends leaves behind. `StartInv` covers
  the time before the pump listens. For `PumpEndsForACause`, `CauseInv` says that
  without a foreign frame none in the queue is empty, so that every read gives a byte
  and only a channel that is gone cuts a line off. The line that `read_line` refused
  is then a printed line or the end of one, and the end of a text is a text unless it
  begins inside a character.
* Targets. `WorkInv` ties what the lookup holds to the nodes it may look at;
  `SeenInv` says that a port or serial that was read belonged to a board that is
  in `owners` for that node. Where the bus stands still, `QuietInv` adds that what
  was read is still so, and that every tty is either still to be looked at or
  among the candidates as it is (`ScanQuiet`), or its link followed (`TreeQuiet`);
  with one node per tty (`OneNode`) the choice then has exactly one outcome.

All safety properties of the passing runs are theorems. Only model-checked is what
is under fairness: `DeployEnds`, `LostBoardIsNoticed`, `DropReturns`,
`DetachReported`, `TransferEnds` and `LinesComeOut`. TLAPS has neither temporal
reasoning under fairness nor ENABLED here. Induction over positions, and what the
folds over sequences come to, is done without induction theorems whose parameter
is an operator: by the well-foundedness of the naturals, for sets.

## 5. Not modelled

* Argument parsing, logging, tracing and annotations: no state, best effort.
* CBOR, base64 and CRC-16, and the framing inside `Frame::parse`: conversions of a
  library or of a known kind; `Console` keeps what they tell apart.
* `IsoTpChannel`: a few system calls around the kernel's ISO-TP. Its faults, as
  far as the runtime sees them, are those of the link in `Deploy`.
* The `tty:` and `can:` branches of `resolve` (one test for existence each), the
  parsing of prefixes and of CAN node ids, the override of the log channel.
* Erasing an image and `set_state` without a hash: no caller in the runtime.
* `probe_settings` and `tune_frame_size`: they choose a chunk size, and `Upload`
  lets every chunk have any size.
* The mock's command line and pty, provisioning and test scripts: fixtures.

## 6. Plan

Done: all modules above. Next, in this order:

1. `Demux` composed with `Deploy`, so that `PortFree` is derived from the drop
   rather than stated, and `Upload` in place of the one-step upload of `Deploy`.
2. Proofs: deploys over CAN without reboots; `RejectedIsNotReflashed` and the
   other counterexamples of section 3 under the constants that exclude them; that
   what reaches the host as text also comes out in full (the safety half of
   `LinesComeOut`).
3. The `tty:` and `can:` branches of `resolve` with the log override, and the
   lock keys computed from them.
