# Verification of Floe Native Apps

This directory is a verification development of Floe Native Apps: TLA+ modules
that model its stateful parts, TLC configurations that check them, and TLAPS
proofs about them. Every definition is translated from source, and
`PROJECT.json` maps it to the lines it stands for. Paths are relative to the
repository root.

Contents: 1 the system; 2 the modules; 3 Preparation; 4 Deployment;
5 confirmed input; 6 DesktopSession; 7 the login service; 8 frames; 9 the
physical desktop; 10 applications; 11 runs, bounds and fairness; 12 proofs;
13 observations about the code; 14 what is not modelled; 15 the plan.

## 1. The system

The repository is an SDK that a host product embeds to offer native desktop
applications, and the physical desktop, in a browser. Its parts:

| Part | Code | State it keeps | Operations | What is hard |
| --- | --- | --- | --- | --- |
| Preparation manager | `manager.go`, `installation.go`, `transfer.go` | `operation.json`, package directories, one live operation and its worker goroutine | New, Start, WriteChunk, CompleteUpload, Cancel, Close, Plan, Directory, Watch, Snapshot | Cancel and Close against activation; crashes between file-system effects; records of earlier SDKs; coalesced notifications |
| Archive cache | `artifactcache/`, `bundle.go`, `extract.go` | verified archives under a lock file | OpenSession, Acquire, Verify, Touch, Prune | several processes; eviction of what was just verified |
| Login-service deployment | `hostdesktop/deployment_*_linux.go`, `login_maintenance_linux.go` | root-owned files, unit, driver, a journal beside them, the daemon's lease | ensure, stop, uninstall, recovery; the daemon's admission | any step fails or the manager dies; the daemon crashes and restarts beside the transaction |
| Native confirmed input | `desktop_attachment.py`, `input_order.py`, `desktop_context.py`, `input_marker.py`, `desktop_clipboard.py`, `desktop_native.py`, `desktop_control.py`, `desktop_helper.py`; compositor `probe_shell.c`, toolkit `gtk_native.c` | viewers, one controller, a queue and a pending text per viewer, marker slots, compositor focus and held keys | attach, detach, key, text, clipboard, close, select, release, terminate; deadlines | three processes joined by channels; takeover; late answers; scene changes in flight |
| Desktop session supervisor | `desktop_session.py`, `desktop_bootstrap.py` | stage, spawned processes, timers, the launch receipt | prepare step by step, fail, close, terminate | a step that fails half-way; services that die or never answer; a receipt that cannot be written |
| Desktop frames | `desktop_capture.py`, `desktop_native.py`, `desktop_attachment.py`, `desktop_frames.js` | capture target, shared capture, delta base, canvas | capture, refine, paint | several viewers on one delta stream |
| Xpra, IBus and XIM input | `input_dispatch.py`, `input_context.py`, `input_xim.py`, `desktop_ibus*.py`, `desktop_xim.py` | the same promise as confirmed input over other protocols | commit, cancel, focus | out-of-order replies, lost focus |
| Application supervision | `application*.py`, `launch_plan.py` | adopted descendants, result descriptor | launch, adopt, terminate in rounds | processes that fork while they are being ended |
| Desktop helpers | `desktop_portals.py`, `desktop_documents.py`, `desktop_graphics.py`, ... | files, bus services | preparation steps | outcomes only |
| Login service | `hostdesktop/login_*_linux.go`, `uinput_linux.go`, `host_desktop_drm.py`, `host_desktop_login_text.py` | per attachment an authority (generation, mode, seat, window of frames), the virtual keyboard, a pending text; one controller | attach, connect, modes, frames and acknowledgements, keys, text, unlock, release, detach | the seat, the display and the lifetime change between any two steps; goroutines that outlive what they work for |
| Host desktop (physical) | `host_desktop_*.py`, `hostdesktop/protocol.go` | portal session, media generations, input owner | start, stop, keyframe, input | restarts of PipeWire and encoder, late frames |
| Browser clients | `host_desktop_player.mjs`, `input_client.js`, `desktop_frames.js`, ... | decoder, request ids, canvas | decode, send, paint | stale generations |
| macOS host desktop | `Sources/FloeNativeDesktop/*.swift` | the same over macOS services | the same | the same |
| Catalogs and glue | `catalog.go`, `desktop_client.go`, `client_assets.go`, ... | none or immutable | parse, serve | validation only |

How they meet: the host calls the **Preparation manager** until a package
directory resolves, and it maintains the **archive cache** beside it. A launch
runs the bootstrap, which hands every process to the **session supervisor**.
The supervisor starts the bus, the compositor, the capture service, input
services and portals, and last the application under its own supervisor. Viewers
connect to the supervisor's **desktop control** socket; one attachment per
viewer orders input for the **compositor** and the application's **input
context**. The physical desktop goes another way: a privileged **login
service**, put in place by the **deployment transaction**, serves it.

What makes each modelled part correct:

* Preparation: a directory that resolves was unpacked from verified archives;
  the previous selection survives every failure and crash; an operation that was
  cancelled activates nothing; nobody waits for ever.
* Deployment: the installation changes only by whole transactions; the daemon
  that serves is the one recorded; an attached user is not cut off unasked.
* Input: a request reaches the application at most once, in order, for the
  controller, and is settled once; a text is confirmed only when the application
  has it; a late press never delivers another text.
* Session: the application is launched only into a complete session and is
  never disturbed afterwards; every session ends and holds nothing.
* Login service: keys are down only in control, under a generation of which the
  viewer has painted a frame, and never beside a text that is on its way; what
  belongs to a retired generation changes nothing; a paste is confirmed only
  when somebody has read it.
* Frames: what a viewer shows is a picture that was once there, whole, and in
  the end the one that is there now.
* Physical desktop: the portal's single-use tokens are never used twice; frames,
  cursor and clipboard reach the client of the generation they were made for.
* Applications: the supervisor ends only what the application started, and says
  that it has exited when nothing of it is left; a document is served to the
  application's own processes only.

## 2. The modules

| Module | What it is |
| --- | --- |
| `PreparationContract` | abstract: what the host may rely on about the selection |
| `Preparation` | the Manager and its worker; implements the contract |
| `DeploymentContract` | abstract: files change by whole transactions |
| `Deployment` | manager process, journal, daemon; implements the contract |
| `InputContract` | abstract: a request's way through queue, application and answer |
| `NativeInput` | helper, compositor and toolkit with their channels; implements the contract |
| `XpraInput` | the Xpra server's scheduler, commit module and X input method; implements the same contract |
| `DesktopSession` | the supervisor of one session |
| `LoginAttachment` | one attachment to the physical desktop: loop, authority, keyboard, text, capture |
| `LoginText` | the child process through which the login service pastes a text |
| `DesktopFrames` | one capture, its fan-out, and the canvas of each viewer |
| `PortalGrant` | the record of the portal's restore token, shared by helpers |
| `HostDesktop` | the helper's login, session, authority, held input and clipboard reads |
| `HostMedia` | the media generations of the user's desktop, from monitor to client |
| `HostDrm` | the capture worker of the login screen, with its two threads |
| `ProcessTable` | external: process numbers, parents, and their reuse by the kernel |
| `Application` | the supervisor of a launched application, over `ProcessTable` |
| `ProcessPeers` | the check that a caller descends from the supervisor, over `ProcessTable` |
| `Documents` | the document facade, its authority and grants, and the shared host behind it |
| `PreparationProofs`, `PortalGrantProofs`, `DesktopSessionProofs`, `DeploymentProofs`, `LoginAttachmentProofs`, `NativeInputProofs`, `HostMediaProofs`, `HostDrmProofs` | the theorems about the module each is named for; `PortalGrantProofs` has those about `HostDesktop`, too, `PreparationProofs` those about `XpraInput`, `DeploymentProofs` those about `ProcessPeers` and `Documents`, and `DesktopSessionProofs` those about `Application` and `LoginText` |
| `XpraInvariant` | the inductive invariant of `XpraInput`, of which `PreparationProofs` has the proof |
| `MCPreparation`, `MCNativeInput`, `MCLoginAttachment` | constants of the runs: disks, kinds of requests, symmetry |
| `MCPreparationCore`, `MCDeployment`, `MCPortalGrant`, `MCDesktopSession` | runs that check components which share nothing in behaviours of their own |

Common conventions. An action is what the code does without giving others a
chance: between two acquisitions of `m.mu` in Go, between two effects that a
crash can separate in the deployment, one callback of the GLib loop in Python,
one step of the dispatch loop between two points where another goroutine or the
seat can matter in the login service, one call of the kernel where processes
come and go. An operator whose comment says *Mutant* is a wrong version of the
definition below it, kept to test that a property notices it; it is used by no
action.

A module named in the last row of the table has a variable `part`. A behaviour
is one of one component alone, and the others stay as they start: such a run is
the sum of its parts' state spaces and not their product, and checks of each
part exactly what a run of its own would. The parts do not interact in the code
either: `MCPreparationCore` joins the preparation with the input of an
application that is already shown, `MCDeployment` the login service's
installation with the documents and callers of an application, `MCPortalGrant`
the grant record with one helper's session, `MCDesktopSession` the supervisor of
a session with that of its application and the paste child. Which of these three
a run is about is its constant `Parts`.

## 3. Preparation

**State.** `record` is `operation.json`, `packages` and `archives` are the
directories of packages and of the cache, all three survive `Crash`. A package
directory is *absent*, *damaged* (present, does not resolve), *usable*, or
*tainted*: it resolves although it was not built from verified and validated
content. `op`, `pc`, `pending`, `staging`, `stopped` are the live operation and
where its worker stands; `watch`, `notified`, `seen` are one observer behind a
channel of capacity one. `cancelAsked`, `accepted`, `harmed` are history.

**Actions.** `Open(v)` is `New` by release `v`, with the whole adoption of
version 1 records, bare directories and retired recipes (`adoptInstallation`)
and the conversion of an active record into *interrupted*. `Start`,
`WriteChunk`, `CompleteUpload`, `Cancel`, `CloseBegin`/`CloseEnd` are the API.
The worker goes `Checking`, `Plan`, `Fetch`, `Parse`, `ReadEntry`, `Union`,
`Extract`, `Prepare`, `Validate`, `Mark`, `Commit`, `Replace`, `Rename`,
`Select`, or fails; the steps under `m.mu` in `install` (`Locked`) exclude the
API but not a crash. Each write of the record may fail. The environment evicts
archives (host maintenance of the same cache), damages package directories and
crashes the process.

**Contract.** `PreparationContract` keeps the selection on offer, the durable
one and what resolves. Only an operation that nobody stopped can place a
package, and the offered and durable selection change together. The refinement
mapping reads the phase from `alive`, `pc` and `stopped`.

**Abstractions.** Staging directories have fresh names and are never looked at
again, so a leftover one is not modelled. Renames are durable with respect to
process death. Byte counts, error codes, source latency selection and the text
of failures are left out; notifications that progress may or may not send are a
choice. Archives are damaged only from the start (another process replaced
them); later the cache only loses files. `installationError` chooses a code
only.

## 4. Deployment

**State.** `root` (version directories and the recorded policy), `unit`,
`driver`, `enabled`, `loaded`, `removing` (the tree an uninstall has moved
away), `journal` (the snapshot, the committed marker, the backup of a version
directory); the daemon: `running`, `wanted`, `attached`, `lease`; the manager:
`pc`, `mode`, `request`, `undo`, `failed`, `outcome`. `base` and `baseOn` are the files and the
enablement when the transaction began, `consent`, `lapsed`, `hidden`, `injected` say what
happened in it: an administrator agreed, the daemon came up by itself, an error of
`systemctl` hid it, an effect of a rollback failed.

**Actions.** One per effect: the snapshot, every forward step of `install` and
`uninstall`, every step of `restore`, commit, collection and retirement of the
journal. A forward step may fail before or after its effect and then rolls
back. The steps of the rollback and the commit may fail as well; from then on
`injected` holds, and the properties that such a failure defeats (section 10)
speak of the histories without it. The manager may die between any two (`Crash`), the host may restart
(`Reboot`), and the next manager recovers from the journal first. `Attach`,
`Detach`, `DaemonCrash`, `DaemonStart` are the daemon and systemd beside it;
`Admits` is `admitAttachment` with its test for a pending deployment.

What the manager asks of systemd goes through `Seen`: `is-active` and `is-enabled`
are commands whose every error is taken for *no*, a command that could not run or
whose context was cancelled included. So `install`, `maintain` and `snapshot` may
each take a running daemon, and `snapshot` an enabled unit, for one that is not; each
query errs for itself, which covers a cancellation between any two of them.
`hidden` says that the last decision about lease and consent rested on such an
error. A rollback has a context of its own, and none of its steps asks.

**Contract.** `installed` is what a recovery would leave: `base` while an
uncommitted journal exists, the files themselves otherwise. It changes only to
`Ensured(d)` or to `Uninstalled`. The version directories retained for other
policies are part of it.

**Abstractions.** File contents are a policy digest, directories *absent*,
*altered* or *good*. The health probe and the runtime identity check are
refusals that may happen; the management pipe is the consent or the refusal it
carries. Directory modes, daemon-reload, staging directories and the difference
of record versions are left out. A removal that fails half-way leaves an altered
tree, and a version directory that cannot be read back counts as altered.

## 5. Confirmed input

### NativeInput

**State.** Per viewer `view`: the target it has painted (`ready`), whether its
capture failed, its queue and the operation it waits for. `controller`,
`native` (epoch, current target), `ctx` (the one confirmed text and what it
waits for), `slots` (the markers, with those of cancelled texts still taken),
`clip`. The compositor `comp` keeps the scene, the key and marker that are down,
a barrier and a ping. `app` is the toolkit's context: idle, in its blocking
Take, holding a text, or gone. `toComp`, `toHelper`, `toApp`, `toBus` are FIFO
channels. `req` (every request, its status and its replies) and `doc` (what the
application acted on) are history, as is `app.mark`, the text a marker was
pressed for.

**Actions.** Viewers connect (which takes control), disconnect, paint, ask for
keys, text, clipboard, close, select, release and terminate. `Drain(c)` is one
turn of `OrderedInput.drain`; a handler that ends by draining is followed by its
drain steps before the loop does anything else (`draining`). `Expire` is the
pending operation's deadline. `Read*` handle one record of the compositor, the
bus steps handle one call of the toolkit. The compositor takes one command at a
time (`Comp*`), changes scene at any time and loses its pings; the toolkit's 3
second limit (`AppGiveUp`), a refused text and the application's end can come at
any point.

`Route` is how text is delivered: *marker*, a synthetic key that makes the
toolkit fetch the text over the bus (X11), or *wayland*, the compositor's
text-input with a barrier before and after it. `Events` and `Kinds` select the
environment of a run: each run takes the ones its question is about.

**Contract.** `InputContract` says of any delivery of ordered input: *queued,
issued, then confirmed, failed or refused*. A refused request never reaches the
application; one that does reaches it once and never behind a later one; a
confirmed text is in the document; nothing is issued while an earlier text or
clipboard publication of its connection is open.

**Abstractions.** One key; frames reduced to the paint of the current target;
the focus record travels with the scene record; whether X11 focus is where a
marker needs it is a choice; requests refused at once are not counted; the
clipboard's publication is synchronous with its record; the checks on the last
epoch and connection always hold in one helper and are left out; one client ping
at a time, and its answer is the application's reading of it; every timer may
fire early. The end of an application is final. Not modelled: closing a viewer
because its output buffer is full (which re-enters `detach` from inside a
handler), records dropped by the compositor when it loses control, the closing
of input after the session has failed, cursor and clipboard reading.

### XpraInput

**State.** `viewers` are the protocols of the server: whether each is open, and
whether it lost the authority to give input; `order` is the scheduler: its queue,
the text that is pending and the context it is pending in. Requests are stamped as
they arrive and leave the queue from its front or all of a viewer's at once, so
the queue is a set of stamps and its front the least. `toolkit` and `xim` are what the server
knows of the application's module and input contexts; `toApp`, `toXim`, `toBus` are
the channels to the application and back; `app` is the application with its route;
`xreq`, `parts`, `xdoc` are history: the status of every
request, the fragments of a text that have arrived, what the application
acted on.

**Actions.** A viewer asks for text or keys, overflows the queue, sends what is
unsound or malformed, hangs up and is cleaned up after; the
scheduler drains in steps of its own, which nothing else of the loop comes between;
a text is delivered by the toolkit's
module over the private bus or, fragment by fragment, by the X input method, as
`Init` chooses; contexts come, gain and lose focus and go; a module registers, asks,
confirms and ends; deadline, X connection and server can end at any time.

**Contract.** The same `InputContract` as `NativeInput`'s, with the same
meaning: the two routes promise one thing.

**Abstractions.** The server's tests of window, driver and sequence are one
refusal that may happen. The clearing of pressed keys and clipboard packets are
Xpra's own. The 32-bit number of a commit is any number up to `MaxMarker`, which
stands for 0xffffffff. Duplicate registrations are left out. A text that is
queued when its viewer is rejected gets no reply, by design of the code.

## 6. DesktopSession

**State.** `session` is the object's attributes: stage, the answer it waits
for, processes, owned bus names, bus connection, helper, the two timers, and the
flags `failed` and `closed`. `log` is the receipt, `unwritten` that a record
could not be written, `gone` that the exception left the main loop, `ended` how
often the session completed. `os` is what each process really does.

**Actions.** Each callback of the start sequence (`StartBus` to
`InputActivated`, `NameAppears`) with every outcome of the steps in it: success,
failure before or after the process was spawned, an answer that never comes,
an answer for a session that has been closed meanwhile (`Late`). `ServiceFails`,
`NameVanishes`, `GraphicsLost`, `Timeout`, `TerminateApplication`,
`KillSupport`, `Dies`, `Exits`. `Faults(records)` lets one record of the
callback, and the report of its failure, be unwritable; an exception then
unwinds the callback where the code has it unwind.

`main` and `read_configuration` come first: a bootstrap that
refuses its configuration leaves no receipt, one whose session cannot be
assembled leaves a failed one where it can be written. Starting the document
service is part of the session's start.

**Abstractions.** `Plans` varies what is asked for: portals without the input
portal, the input portal without others. The directories and package resources
of construction are a step that succeeds or fails, and a record that cannot be
written in the middle of closing the bus is not modelled. `MaxDead`
bounds the processes that are dead and not yet waited for. What the document
service does once it runs is in `Documents`.

## 7. The login service

### LoginAttachment

**State.** `seat` is the physical seat as logind would answer now: one of
`Active` or `Locked` (sessions told apart by identity), or nothing that can be
read. `controller` is the service's. `auth` is `loginAuthority`, `held` the keys
of the virtual keyboard, `text` the pending text with its child process, its
result channel and the goroutines of all transfers that still live, `media` the
capture worker's credit, `messages` what it has sent. `commands` and `releases`
are the reader's two channels, `life` the attachment's context.

A generation only grows and is only compared with the authority's, so an item in
a channel carries whether it is of the current one, and `Transition` marks what
is in the channels as retired.

**Actions.** `pc` is where the loop stands. At *select* any ready channel may be
taken: `TakeRelease`, `TakeResult`, `TakeCommand`, `WatchSeat` (ticker and
signals), `TakeMessage`, `Leave`, `Fails`. Where the code reads the seat and
acts on it afterwards, there is a step between: *enter* between the claim and
the transition, *press* between the check of an input and its key, *check* and
*stroke* for each key of the paste chord. Beside the loop: the reader (`Sends`,
`SendsRelease`), the end of the context (`Closes`) and the goroutine that
waits for it (`Revoke`), transfers (`Prepares`, `Completes`), capture
(`Captures`, `Suspends`), the seat, and other attachments (`OthersClaim`).
`End` is the unwinding of the deferred calls.

**Abstractions.** What a command asks for is chosen when it is handled, so a
queued one carries only its generation. One key stands for the viewer's keys and
buttons. The configuration of the capture worker takes effect at once: its pipe
only delays frames, and a frame of an older configuration is one that is
already in the channel. Probe, status, lock, cursor and a full packet queue only
answer or end the attachment (`Answered`, `Fails`). Admission of attachments and
the maintenance lease are in `Deployment`; peer identity, tickets and how logind
is read are not modelled.

### LoginText

**State.** `current` says that the session of the child's start is still the one
on the seat; `loop`, `sent`, `handled`, `answer` follow the socket; `request`,
`text`, `timer` are the backend's fields, `overtaken` counts the quiet timers
that still run although `timer` names a later one; `writer` is the transfer of
each thread. `whole` and `hurried` are history: which pastes somebody has read
to the end, which were admitted while a quiet period ran.

**Actions.** The service sends one paste and waits for its answer; the loop takes
it, the compositor asks for the text as often as it likes, threads write and
finish or fail, timers fire, the session changes, the socket closes.

`ConfirmedWasRead` excuses a paste in `hurried`, see section 13.

## 8. Frames

`DesktopFrames`. **State.** `scene` is what the compositor shows, `base` the
picture the probe compares with, `frames` the one capture of `NativeFrames`,
`view` each viewer's attachment with its peer and what is on the way to it,
`client` what its canvas shows.

**Actions.** Captures begin between two barriers, shoot and end; the fan-out
gives each viewer a whole image or a difference; refinement and cadence timers,
send capacity, acknowledgement; scene changes, damage, failures, cancelled
captures; viewers attach, configure, refresh and leave.

**Abstractions.** The helper has one thread, so a callback is a step. Scene,
damage and answers to barriers share one FIFO, so the compositor is read when
its answer is. Paint and receipt are one step. `awaiting` is the live frames of
the inbox and `lost` ones; frame numbers are reduced to whether the canvas is
synchronised (`synced`); the density of a JPEG is an attribute of a picture; the
browser decodes what was made and asks again on an error.

## 9. The physical desktop

**PortalGrant.** `file` is `portal-grant.json`, `lease` the lock file,
`start` and `authorization` each helper's portal session and what it reports.
Helpers start with or without the viewer, take the token, submit it, stage its
replacement, forget it; each may die between any two calls, and a write may fail
before or after the file was replaced. `issued`, `submissions` and `newest` are
history. A use of the record under its lock is one step.

**HostDesktop.** `os` is the user's login, `monitors` the outputs, `desk` the
helper's identity, authority, held input and backend in one record, for its
handlers call each other; `down` is what the session holds down on its behalf;
`reads` the clipboard reads that run beside the loop. Commands of the client,
signals of the portal, the observing timer and completions of threads are one
step each.

**HostMedia.** `monitor`, `capture`, `media` (`DesktopMedia`), `coding` (what is in the encoder),
`refiners`, the idle queue `tasks` and the `client`. A picture is the number of
the change that made it. The three kinds of capture differ in what they retain
and lose. A closed generation is reduced to one value, as nothing of it is read
again; `Produce` is scheduled before the refinement is published, as in the
code. Audio is not modelled.

**HostDrm.** `screen`, `capture` with the fields the threads share, `grab` and
`point` (the two threads), `tasks`, `worker`, the bounded `output`, and `owner`,
the login service. An epoch of the capture and a generation of the owner are
counted by the same number. Pace is left out. Whether the first configuration
probes is chosen in `Init`.

## 10. Applications

**ProcessTable** is the kernel: numbers are free, run a process or belong to a
zombie, and are reused after the wait. Numbers of starts are unique, as a start
time is for one number.

**Application.** `main`, `waiter` and `pass` say where the main thread, the
waiting thread and the passes of `terminate_children` stand (the signal handler
runs in the main thread between any two of its steps); `unit`, `systemd`, `reply`,
`removed` the scope request and its answers; `receipt` what was recorded.
A pass is as fine as its calls: opening the descriptor, testing the parent,
listing the children, killing. The launcher's number is one value chosen by
`CHOOSE`, as all are alike. `InterruptedError` of `waitid` is unreachable
(PEP 475) and left out.

**ProcessPeers.** One call of the kernel per step of `admit`; `references` are
the peers it admitted, `belonged` and `granted` history.

**Documents.** `authority` is the binding of the roles *portal* and *launcher*
to processes, `facade` the `DocumentService` with its grants, `call` each
operation in flight with the answers to it, `link` the host connection with both
its directions in order, `host` the external service and its documents. The
service is started first, which may fail and then fails the session. The host
may return any document of the same file when it reuses one and a fresh one
otherwise, refuse, answer short, or act after the timeout; the connection may be
lost. `Info` stands for `GrantPermissions` too, and `AddNamed`, which a launcher
may not call, is an `Add`. A removed identifier is not issued again. Flags other
than reuse, paths and permissions are left out.

## 11. Runs, bounds and fairness

| Run | Question | Bounds and why they are enough |
| --- | --- | --- |
| `preparation_core` | all interleavings of API, worker, observer and environment on one release; the Xpra route in behaviours of its own | 2 callers (foreign and own request), 2 requests (repeat and new), 2 archives (cached beside missing), 2 operations (one after a retry), 1 chunk (one more is refused); symmetric in callers, requests and archives. Xpra: 2 viewers (takeover), 3 requests (a text, what follows, the next viewer's), queue of 1 (it overflows), 2 fragments (a text interrupted in the middle), numbers up to 2 (they run out), 1 context, 1 message of focus in flight, 1 trouble in a behaviour |
| `preparation_upgrade` | adoption and updates across releases, refinement of the contract, and whether worker and Close end | 2 releases, the second supporting the first and the first not knowing the second; every disk an earlier SDK can have left; 2 operations: one that fails and one after it |
| `deployment_transaction` | failures of forward and rollback steps, crashes, reboots, the daemon beside the transaction; documents and peers in behaviours of their own | 2 policies: the old and the new; version directories good, altered or absent, where a damaged one of the recorded policy has no other retained beside it; service up or down; symmetric in the policies. A transaction touches one policy besides the recorded one. Requests, crashes and errors of systemctl are not bounded. Documents: 3 calls (two that share a document and one that removes it), 2 identifiers, 1 file, limits of 2 documents and 2 waiting calls (both reached). Peers: 3 numbers and 3 starts (a caller, its parent, and a stranger that takes over a number), 1 reference |
| `input_marker` | two viewers, texts and keys over markers; refinement of the input contract; is every request settled? | 2 viewers (takeover), 3 requests (a text, what follows it, and the next viewer's), 2 slots (a tombstone beside a live marker), queue of 1 (the second request behind a text overflows) |
| `input_wayland` | presses, releases, text and close over the text-input route, with scene changes and loss | 2 viewers, 2 requests, 2 scenes, one command ahead of the compositor |
| `session_life` | every way a session can begin, fail and end; in behaviours of its own, is a confirmed paste read? | 7 processes; both plans; 2 dead processes waited for in either order. Paste: 2 pastes, 2 writers (4 in the code: two readers overlap) |
| `login_attachment` | all interleavings of loop, reader, lifetime, transfers, capture, seat and other attachments | one active and one locked session (a switch, a lock, a loss), 2 transfers (a retired one beside its successor), a window of 1 with 2 frames (full, and free again), 2 commands (one behind the one handled), 1 message (the next is delayed) |
| `portal_grant` | can a token be used twice or lost between helpers? is anything held, or read, by a helper that does not see? | 2 helpers (one dies, one goes on), 3 tokens (a consent, its replacement, and the replacement of that). HostDesktop: both kinds of session, 2 logins (a switch), 1 display, 1 key, 1 read, 1 frame, 4 inputs in flight |
| `host_media` | what is shown, and does the last picture arrive? | all three captures; 2 pictures, 2 generations (a recovered decoder), 1 cursor shape, a window of 1 (full, and free again), 3 buffers |
| `host_drm` | two overlapping epochs | 2 generations, 1 event of the display, of any kind, a writer of 2 (full) |
| `frames` | torn or stale pictures, with one viewer and with two | one viewer that configures its stream and one that does not, 2 attachments, 1 event |
| `application` | who is killed, when is the exit reported? | 2 numbers and 4 starts (the number of a parent and that of its child both reused, in the middle of a pass), 1 scope request |

`CHECK_DEADLOCK FALSE` stands where the system may stop: a session that has
completed, input or frames whose bounded number of requests or events has been
used up, a supervisor that has ended.

What the numbers leave out. A property of one text and its successor needs two
texts and a takeover; three requests cover a text of one viewer behind a text of
the other. `MaxLines` bounds how far viewers run ahead of the compositor, not
what handlers send in answer, so no reply is suppressed by it.

**Fairness.** Safety runs assume none.

* *Preparation* (`WorkEnds`): the worker goroutine is scheduled and Close waits
  for it; nothing is assumed of callers, so an upload that nobody completes may
  stay open.
* *NativeInput* (`NeverWaits`): handlers run to their end (`Drain`) and the deadline of a pending
  operation fires (`Expire`, a GLib timeout set when it is issued); compositor,
  toolkit and application owe nothing.
* *DesktopSession* (`SessionEnds`): the preparation deadline, the kill timer, the
  wait for a dead child, and death after SIGKILL; services and application owe
  nothing. It assumes a receipt that can be written, see section 13.
* *HostMedia* (`PictureArrives`): capture, encoder, refinement, idle queue and
  timers are scheduled, the client acknowledges what it has; people stop typing
  at some time (`<>[][~Interact]_vars`), for each input postpones the refinement.
* *HostDrm* (`ScreenArrives`): both threads, the main loop, the writer and the
  owner are scheduled; no failure is owed.
* *DesktopFrames* (`ViewerSettles`): captures, timers, writability, and the
  client's painting; none for failures, attachments and configuration.
* *Application* (`SupervisionEnds`): main thread, waiting thread, GLib loop and
  the answers of systemd; none for the application's processes, for SIGTERM, for
  the end of systemd or the loss of a call.
* *LoginText* (`PasteSettles`): the loop takes commands, timers fire, writers
  end, which rests on the 2 s deadline that the service gives the child.

## 12. Proofs

TLC checks the runs above on their small instances; the theorems here hold for
all values of the constants that the modules' named assumptions allow.

### PreparationProofs

For all sets of callers, requests, archives and releases, all `Known` relations,
any number of operations and all disks that `Disks` may list. Assumed: a release
supports itself first, `None` is no release, caller or request, bounds are
natural numbers, and every disk is one an earlier SDK can have left
(`LegacyDisk`).

* `TypeCorrect`: by one lemma per group of actions.
* `NeverWedgedHolds`: the strengthening `Control` ties `Running`, `op.state`,
  `stopped` and `cancelAsked` together: the state is active exactly while
  somebody works on it, operation numbers are never reused, a cancelled operation
  that still runs is stopped, and nothing that runs under the lock of `install`
  is. `NeverWedged` is a conjunct of it.
* `NoUnverifiedActivationHolds`: `NoUnverifiedActivation` is not inductive, for
  the package directory is written several steps after the archives were
  checked. `Verified` carries the check along: no archive that the worker has
  planned to use is corrupt, from *prepared* on the staging directory has all of
  them, from *mark* on it was validated.
* `SelectionKeptHolds`: `Selection` adds what an
  older record implies (one of version 0 or 1 selects nothing by itself, a ready
  one of version 1 names a package that resolves), that only harm damages a
  directory, and that behind the rename the release's own package resolves.
* `ResolvingHolds`: step by step from `Control`; only `Replace` removes a
  directory, and it removes one that does not resolve.
* `RequestsHonouredHolds`: `Remembered` says that the record of an accepted
  request names it wherever a repetition could be taken for a new one; that a
  cancelled operation activates nothing follows because `Commit` tests
  `stopped` when it takes the lock that Cancel needs.
* `ObserverHolds`: with the state of the channel at every publication.
* `ContractHolds`: initial states map to initial states and each action to a
  step of the contract or a stutter, from `TypeOK`, `Control` and `Selection`.

`NothingPassesTextHolds` and `KeepsContractHolds` are about `XpraInput`, in the
behaviours of `MCPreparationCore`: for any viewers, requests, contexts and bounds,
where stamps are positive numbers and no context is called `None` or *toolkit*
(`XpraAssumption`). Handlers of the loop call each other (a failed text rejects its
viewer, which clears its queue, which may go on draining), so the proof is about a
*world*, the record of all that they change, and has one lemma for each function
from worlds to worlds.
`XpraInvariant` says what holds. Of the loop (`Loop`): the queue holds what
waits, and what went is before it (`Stamped`, `Sequenced`); whoever had a request
refused or failed gives no input any more (`Owing`, without which a later text
of the same viewer could pass a failed one); an adapter has at most the text that is
pending (`Adapted`), and has it (`Firm`). Of the application (`Outer`): the document
comes before all that is on its way (`Written`, `Holding`); a number that the module
may still report belongs to a text that it has whole (`Told`); and of a text in
fragments there is never more than one fragment, sync or answer under way, so that
those that have arrived, the one under way and those left make the text (`Flying`). That an answer
is never that of an earlier text needs that a context given up is not used again
(`Fragmented`, `Contexts`): it is remembered as cancelled until it is destroyed,
and a destroyed one answers nothing. `Follows` says of a step to which world it
leads and which of five things it does to requests: some end together, the
text is confirmed that has arrived, one is issued, one is asked for, or the application
acts on one. Every action has a lemma that it is one of these (`NextFollows`),
and each is a step of `InputContract` (`FallsContract` to `ActsContract`). TLC
finds the invariant true on the constants of `preparation_core`.

### PortalGrantProofs

For any number of helpers and tokens; assumed is that `None` is neither. Neither
property is inductive: between the take of a token and its submission, and
between the staging of a replacement and its confirmation, the token is in a
helper's hands. `IInv` says of each place a token can be (`RestorableUnspent`:
in the record, `TakenUnspent` and `StagedNewest`: with a start) that it was issued and
never submitted, and that the lease belongs to the one start under way
(`RotationExclusive`), so no two places hold the same token.
`TokensSubmittedOnce` and `NewestReplacementRestores` are conjuncts.

`HeldWithinSight` is about `HostDesktop`, in the behaviours of `MCPortalGrant`: for any
displays, logins, keys, reads and natural bounds, where a session is of Wayland or X11
(`DesktopAssumption`). A handler passes through several states before another can look,
so the proof is about a *world*, the record of the desk, of what is down and of
the clipboard reads that handlers hand on. `Base` holds all along: connection,
session and capture come and go together, a read of the current epoch is of the current
generation, what is down is held and can be lifted. `Commanded` (what is held
is held in control, what is shown is of an open session) fails inside a handler
only after `Still`: whatever gives control up releases, in that order, first.
`DeskInv` adds what the timer's last turn saw. `GrantBesideDesktop` carries the grant's
theorems over to the same behaviours.

### DesktopSessionProofs

For any set of plans with any portals, any faults of records. Assumed
(`PlansAssumption`): a plan lists a portal once, and no portal is named like
another service or like something else that the session waits for. Callbacks are
compositions of parts (fail, close, dispose, start a service, next portal ...), each of which maps a session to a
session, also while an exception unwinds it. `Sound` says of a session in the
middle of a callback what every part keeps: nothing is disposed of or signalled before it
is closed, a closed one is emptied, a completed one has a receipt, an
application exists only where it was launched, and what was
started is what the plan asks for up to the stage (`Untouched`, `Emptied`,
`Completed`, `Launched`, `Planned`). `Gathered` holds between callbacks while
the sequence waits. A lemma per part, a lemma per callback, then
`UndisturbedHolds`. `LaunchedWholeHolds` is an action property: the only step
that adds the application is the end of the sequence, where `Gathered` and
`Planned` give the whole set of services.

The second part of the module is about `Application`, for any set of numbers and
any number of starts; assumed (`PartsAssumption`): there is a number, and those of
the supervisor and of init are different and none of them. The invariant `AppInv`
says first what the kernel's table is (`Table`): every process has a start of its
own, its parent lives and started before it, and belongs to the application if and
only if it does. So if anything of the application is left, the one that started
first is a child of the supervisor (`NobodyLeft`), which is why a wait that
finds no child may report the end: `ExitedWholeHolds`. `Waiting` and
`Requesting` keep the launcher's number its own while systemd may act on it: its
status is taken only when no request is open. `Passes` follows the frames of
`terminate_children`: a process that was compared with its parent is of the
application as long as it keeps its number, unless a frame above went astray; so
a pass that is not astray strikes no stranger: `StrangersSparedHolds`. Every
step of the world does to a number one of three things (`Later`), and lemmas
for a start, an end and a wait (`TableStarts`, `TableEnds`, `TableFrees`) show the
table kept and the frames with it (`FramedLater`).

`ConfirmedWasReadHolds` is about `LoginText`, for any number of pastes
(`PartsAssumption` again) and any set of writers. Its invariant `ChildInv` says that a reader which asked for the pending paste writes its text and no other
(`TextOfRequest`: the selection is the request's as long as it is pending), that a
thread that has written has been read to the end (`WrittenWhole`), and that the
quiet period runs, or a late reader has been counted, only when one of the two
is true of the pending text (`ReadOrHurried`).

### DeploymentProofs

For any set of policies and every disk of `DisksAssumption`: the installation is
one that this service leaves, possibly with damaged files. The journal is what
makes a recovery work, so the invariant is about what it knows. `Covered`: as
long as it is not committed, the snapshot on disk knows every file in which the
installation differs from the one before the transaction, including a directory
that was moved away and a version that was set aside. `Installing`, `Stopping`,
`Uninstalling` say which files the forward steps have reached at each `pc`,
`Progress` which of them the rollback has put back, `Clear` that no moved tree
stands beside a new root. From these, at the end of a rollback nothing differs
(`RecoveryRestoresHolds`), and what a recovery would leave changes at commits
alone (`ContractHolds`, with one lemma for the refined variable in each case).

A second invariant, `SInv`, relates files to the daemon: `Whole` (what a
recovery would leave has the unit of its own policy), `Serving` (an attachment
needs a running daemon), `Idle` (without a unit nothing runs or
starts), `Stopped` (where the transaction has stopped the
service), `Asking` (whoever is attached when the service is about to be stopped
has been asked, or the daemon came up by itself, or an error hid it; no lease is held
before the daemon is counted), `Enabling` (the enablement that a rollback has
restored, and the start that it has asked for, are those of the manager's snapshot,
which enables only a unit that it names and that was enabled). The snapshot may have
been taken from an error, so that it may record less than there was, and never more. `Resolves` classifies what a step does
to daemon, unit and journal, and the parts are proved from the classes.
`RunsCommittedHolds` and `NothingTakenHolds` follow.

`OnlyOwnHolds` is about `ProcessPeers` and `Documents`. Assumed: the supervisor
and what stands for all others are none of the table's numbers, and the limits are
numbers (`PeersAssumption`); the files are finite in number, and *none* and
*removed* are no files (`DocumentsAssumption`).

* *Peers* (`PeerInv`). `PeerTable` is the kernel's part: starts are unique, a
  living parent is older than its child, and what is the application's descends
  from the supervisor and nothing else does (`Descends`); it is kept by every
  start, end, reparenting and reaping (`PeerKernel`). A start belongs to one
  number for ever (`PeerOnly`). A process only ever loses its parent to the
  supervisor or init, so a link that once fails to hold never holds again: either the
  peer descended from the supervisor when the chain was whole, or it has gone, or one
  of the links that the second look has still to read is broken (`BrokenAt`), which
  refuses it. Where the reference is one that was admitted, it descends as long
  as both run (`Tracked`), and only the supervisor has to be looked at. `Descendants`
  is the least set closed under children, so that a chain of living parents is in it
  needs an argument by their age (`Least`).
* *Documents* (`DocumentInv`). `Room` counts what is granted and what is promised
  to waiting calls; `Carried` says that the answers on their way fit the call they
  answer. The right to remove needs `Owned`: a document of an answer that will be
  unique was created for this instance, was in no earlier answer on its way and is
  not yet in the grants. An identifier that the host has not issued is in none of
  the books (`Unmade`), which is why a fresh one satisfies this.

### LoginAttachmentProofs

For any seats, any window and any bounds; assumed (`SeatsAssumption`): active and
locked sessions are different, and `None`, *me* and *other* are no sessions or
transfers. `HeldInControlHolds` needs `Shown` (a key, and a step of the loop that
is about to press one, under a painted picture in control) and `Claimed`.
`NothingStallsHolds` needs `InOrder`: the frames in the capture worker's channel
are the numbers between the one offered last and the one captured last, in
their order and without a gap, at most a window of them unacknowledged; and
`Reporting`: a pending text has a goroutine that has not reported, or its report
in the channel. A step does one of five things to authority and channel
(`Moves`: one lemma with a step per action), so `InOrder` has five cases.
`TextAloneHolds` is an action property from `Chording`, which says which keys of
the paste chord are down at each of its steps.

### NativeInputProofs

For any number of viewers, requests, scenes and markers, any kinds, events and
route. `AnsweredOnce` says of a settled request that it has one reply, which
needs to know that nothing names the request any more. `IInv` therefore
keeps the books of every request: it is in one place (`Once`), its status says
which (`Placed`, `Found`), its replies follow the status (`Replying`), requests
were made in the order of their stamps (`Numbered`); only the viewer that
controls has anything open, and its input has not failed (`Sole`); an adapter
works for the pending operation, and no two at once (`Adapting`). `StepMoves`
sorts the actions, from a takeover to a call of the application, into the eleven
things that can happen to requests (a queue is cleared, an operation pends, one
is confirmed ...), so each book is kept in eleven cases (`BooksKept`). The types of
markers, channels and records have lemmas per group of actions. TLC finds `IInv`
true on both runs of `NativeInput`.

`OnlyControllerInput` also speaks of the key that the compositor holds, and so
of what is on its way to it. `Keys` adds to `IInv`: what is held or in the
channel is of requests that were made (`Asked`); what attached viewers sent has
the connection the helper serves (`Carried`); a key of a viewer that no longer
controls, held or still in the channel, has a release of its connection behind it
(`Lifting`); and only the last record speaks of a lost compositor, which holds
nothing (`Ending`). `SpeechKeeps` states what the helper may send for that to
last (a request's line is the controller's; whoever passes control on sends a
release), and a lemma per group of handlers shows that they do; `HoldingKeeps`
states the same of the compositor, which lets go, keeps what it has or presses
the next key. TLC finds `Keys`, too, true on both runs.

### HostMediaProofs

For any sources of pictures, any window and any number of buffers, pictures and
generations. `FramesInOrder` says what the client was shown; that the picture
shown is the one that was submitted as that frame needs what is on its way.
`IInv` adds: at most one picture is submitted and not yet shown, and its frame
is the one after the client's (`Numbers`); what the encoder holds, or has
answered into the idle queue, is that picture and nothing else of this generation
(`Answering`); nothing queued and no refinement thread is of a generation to
come (`Known`), so one that `recover` begins has nothing waiting for it; a closed
generation neither schedules nor encodes (`Ended`); only a PipeWire stream is
followed by its damage (`Retained`). `SameKeeps` and `Queues` say once what most steps
leave alone, so the lemma of an action proves only what that action disturbs.
TLC finds `IInv` true on the run of `HostMedia`.

### HostDrmProofs

For any generations, events and capacity of the Writer. `NothingOlder` speaks of
what the login service shows; `IInv` adds the age of all that is under way: a
snapshot that waits to be checked, the sample that is pending, the frames in the
Writer (`Newer`), none of an epoch to come, so that whatever is there when the
login service starts a generation is of one before. For that the epoch of the
capture may not run ahead: it and the generation differ by the configures that wait
in the idle queue, which `Configuring` counts by a function along the queue, and
`TailCounts` and `AppendCounts` carry over a task that leaves or joins
(`Epochs`). One size needs that a capture which lost its size is disabled, and
that no snapshot of its epoch is enabled either, until the next configure
(`Sized`). `Kept`, `ThreadKeeps` and `LoopKeeps` say once what steps within an epoch
leave alone. TLC finds `IInv` true on the run of `HostDrm`.

### Only model-checked

* Liveness (`WorkEnds`, `NeverWaits`, `SessionEnds`, `PictureArrives`,
  `ScreenArrives`, `ViewerSettles`, `SupervisionEnds`, `PasteSettles`): fairness
  and ENABLED are out of the prover's reach.
* The rest of the safety of `NativeInput` (`MarkerSafe`, and its
  refinement of `InputContract`), and that of `DesktopFrames`: within the prover's
  reach, not yet proved.

A theorem about a component that is checked beside another (`XpraInput`,
`HostDesktop`, `Application`, `LoginText`, `ProcessPeers`, `Documents`) is stated of the specification that the
run has, without its fairness (`PartsSpec`): a behaviour is one of the component,
or leaves the component's variables as they start.

## 13. Observations about the code

Seen while modelling. No run lists them; where a property has to excuse one, it
says so.

Preparation and deployment:

* An error of `systemctl` is an answer. A rollback can leave the unit disabled that was
  enabled before: `snapshot` records *not enabled* when `is-enabled` errs, and the
  rollback of a later step disables by that record and reports success; an error of
  `is-active` leaves a running service stopped
  (`deployment_transaction_linux.go:160`, `:250`, against `SECURITY.md:92`: "The
  root-owned journal restores original files and enabled/running state after
  cancellation or process death"). And an attachment can be cut off unasked: when
  `is-active` errs in `install` or `maintain` there is no lease, no count and no
  consent, and the rollback of the first step that fails stops the daemon
  (`deployment_linux.go:397`, `deployment_transaction_linux.go:74`, against
  `CONTRIBUTING.md:1619`: "It counts all attachments and blocks new admission before
  asking separately for interruption consent"). A cancellation of the operation
  after `manage`'s own check does all of it at once: both queries err, the next step
  fails, and the rollback runs in a context of its own. TLC shows both where
  `NothingTaken` is stated without `hidden`, or with `enabled = baseOn` for
  `enabled = undo.enabled`.
* A Close during the validation of an installation records *cancelled* for an
  operation that nobody cancelled (`manager.go:708`, against `README.md:284`).
* Recovery of a rolled-back first installation is not re-runnable: `restore`
  removes the version directories and then the root, and if the manager dies, or the
  commit marker fails, in between, each later recovery fails with
  `transaction_recovery_failed` (`deployment_transaction_linux.go:245`, against
  `SECURITY.md:92`).
* When the rename back of a moved root fails, the next line recreates the
  directory that the retry tests for (`deployment_transaction_linux.go:231`,
  `:248`); a failed `disable` of a rollback is not repeated once the unit file is
  gone (`:251`); a retry skips the stop of the service. `RecoveryRestores`,
  `NothingTaken` and `RunsCommitted` therefore speak of histories in which no
  effect of a rollback or commit has failed (`injected`).

Confirmed input:

* When the controller disconnects while another viewer stays, the shared epoch
  is not unbound and nothing releases the key it holds (`desktop_attachment.py:60`,
  `:68`, against `desktop_client.go:195`). `OnlyControllerInput` speaks of attached viewers.
* A marker whose press was rejected by a scene change keeps its slot for ever
  (`input_marker.py:41`); on X11, with one slot, every later text is
  INPUT_MARKER_UNAVAILABLE.
* `clipboard_changed` compares the shared native epoch with the attachment's own
  (`desktop_attachment.py:275`), so a viewer that attached while another was
  there never hears of the clipboard.
* INPUT_SESSION_EXHAUSTED is permanent once a commit lands near the wrap of the
  32-bit clock (every 49.7 days); a fragment that fails midway leaves a partial
  text in the application, reported as failed.

Session and applications:

* The launch receipt is written before its event is acted on
  (`desktop_session.py:197`, `:428`), and an exception of the write unwinds the
  callback: a failed session whose last exit cannot be recorded never completes.
  `StartBus` that raises while the failure cannot be recorded leaves the bus
  behind.
* A descendant whose number goes to a stranger before a child listed under that
  number is compared with it lets the stranger's child be killed, and what
  descends from it (`application.py:54`, against its docstring at 34);
  `StrangersSpared` excuses it.
* A `running` receipt that cannot be written leaves the application
  unsupervised; a call that is lost and later refused by systemd keeps the
  launcher's number reserved until systemd leaves the bus (`SupervisionEnds`
  names it).
* `admit` can return a reference to a process that never belonged, when the
  caller ended and a descendant took its number between the identity check and
  `owns` (`application_processes.py:102`); the reference is never `valid()`, which
  both callers check.

Login service:

* The first DISPLAY_INACTIVE of an attachment calls `authority.transition`
  alone (`login_service_linux.go:678`, against the comments at 334 and 358): a
  pending text is not forgotten, and no command is taken until seat or display
  change or the viewer sends `release_input`.
* A second paste within the quiet period of the first overwrites the timer
  (`host_desktop_login_text.py:78`, `:141`, against the comment at 134): the old
  timer can confirm the new paste before anybody has read it. `ConfirmedWasRead`
  excuses these (`hurried`). A SetSelection that fails leaves the request set, and
  it is answered again at close.

Frames and the physical desktop:

* A second viewer does not force a whole image (`desktop_native.py:437`, against
  `CONTRIBUTING.md:412`), and on an unchanged desktop sees status 4 until it
  refreshes; an unconfigured viewer gets partial frames when another has
  configured. `PicturesWhole` speaks of a viewer that is alone.
* A frame that the client refuses is never acknowledged, so later
  acknowledgements are FRAME_TARGET_UNAVAILABLE and the viewer stalls until the
  scene changes. Attaching while a cancelled capture is pending, or joining one
  of the previous target, is answered by an error that belongs to the other.
* `queue_cursor` lets a hide replace a pending shape that `cursor_shape`
  remembers as sent (`host_desktop_drm.py:339`, against
  `host_desktop_drm_test.py:239`), and `inactive` clears one likewise;
  `ScreenArrives` excuses a pointer that was hidden. `reset` is read under one
  lock and cleared under the next (186). A geometry announced for a replaced
  epoch is dropped, and the login service keeps the old size.
* After the portal's session was closed, a change of mode or display reaches
  `authority.bind` before an exception that nobody catches (against
  `CONTRIBUTING.md:1334`). A clipboard read that is dropped is never answered. The
  portal's clipboard writer tests its epoch before it waits, so one more
  chunk may be written after control was lost (`host_desktop_portal.py:545`).
* `recover_decoder` replaces the generation, so a queued capture failure is
  dropped while the PipeWire stream stays broken: an active session whose
  picture is frozen (against `README.md:496`). `PictureArrives` excuses it.

## 14. What is not modelled

The components table of `PROJECT.json` names every part. Left out for good:
catalogs, plan parsing, asset serving, transport framing and geometry (stateless
or presentation, better served by the repository's tests), vendored code and
fixtures. The archive cache consists of short critical sections under one
advisory lock; `Preparation` meets it as an environment that evicts and
replaces. The browser clients appear as the viewers of `DesktopFrames` and
`HostMedia`, and the macOS desktop is a second implementation of what
`HostDesktop` and `HostMedia` model. The IBus engine and the desktop's own XIM
adapter are further adapters of the scheduler in `NativeInput`. Of
`probe_shell.c` and `gtk_native.c` only the input side and the capture requests
appear.

## 15. The plan

Done: the modules of section 2 and the theorems of section 12. Next, in order
of what they say about the system:

1. `NativeInput`: `MarkerSafe`, from what `NativeInputProofs` has, with the
   markers that are on their way in each channel; then the refinement of
   `InputContract`.
2. `DesktopFrames`' `PicturesWhole`: it needs the order of the numbers in its
   channels, like `InOrder` of `LoginAttachmentProofs`.
