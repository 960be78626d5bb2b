---------------------------- MODULE Preparation ----------------------------
(***************************************************************************)
(* The preparation Manager of the SDK (manager.go, installation.go,        *)
(* transfer.go): one private state root, at most one live Manager on it,   *)
(* one preparation operation at a time, and a durable record that survives *)
(* crashes and SDK upgrades.                                               *)
(*                                                                         *)
(* Callers (Start, WriteChunk, CompleteUpload, Cancel, Close, Watch), the  *)
(* operation's worker goroutine (download / receive / install), crashes,   *)
(* restarts under another SDK release and the file system interleave.  A   *)
(* step is what the code does between two acquisitions of Manager.mu, or a *)
(* file-system effect that a crash can separate from its neighbours.       *)
(***************************************************************************)
EXTENDS Naturals, Sequences, FiniteSets

CONSTANTS
    Callers,       \* authenticated operation owners
    Requests,      \* request identities
    Artifacts,     \* the archives of a recipe
    Releases,      \* recipe digests, one per SDK release
    Known,         \* Known[v]: the recipes release v supports, v itself first
    AdoptsRetired, \* the physical-desktop contract tolerates unknown records
    Disks,         \* the state roots a first Manager may be opened on
    UploadChunks,  \* chunks in one upload
    MaxOps,        \* bound on the operations started
    None           \* "" in the record

ASSUME ReleasesAssumption ==
    /\ \A v \in Releases : /\ Known[v] \in Seq(Releases)
                           /\ Known[v] # <<>>
                           /\ Known[v][1] = v
    /\ None \notin Releases
ASSUME OwnersAssumption == /\ None \notin Callers
                           /\ None \notin Requests
                           /\ None \notin Callers \X Requests
ASSUME BoundsAssumption == MaxOps \in Nat /\ UploadChunks \in Nat \ {0}
ASSUME RetiredAssumption == AdoptsRetired \in BOOLEAN

ActiveStates == {"checking", "downloading", "receiving", "verifying",
                 "installing", "validating"}
RestStates == {"available", "ready", "failed", "cancelled", "interrupted"}
States == ActiveStates \cup RestStates
Sources == {"download", "upload", "cache"}

Operation == [installed : Releases \cup {None}, package : Releases,
              owner : Callers \cup {None}, request : Requests \cup {None},
              source : Sources \cup {None}, state : States, id : 0..MaxOps]

\* version 0: there is no operation.json
Record == [version : 0..2, op : Operation]

\* "usable": the exact recipe; "tainted": it resolves but was not verified;
\* "damaged": a directory that does not resolve.
PackageStates == {"absent", "damaged", "usable", "tainted"}
ArchiveStates == {"absent", "corrupt", "verified"}

\* What an earlier SDK left: no record, or a version 1 record, whose "ready"
\* names a package that the earlier SDK installed.
LegacyDisk(d) ==
    /\ d.record \in Record
    /\ d.record.version \in {0, 1}
    /\ d.record.op.installed = None
    /\ d.record.op.id = 0
    /\ d.packages \in [Releases -> PackageStates \ {"tainted"}]
    /\ d.archives \in [Artifacts -> ArchiveStates]
    /\ d.record.version = 1 /\ d.record.op.state = "ready"
         => d.packages[d.record.op.package] # "absent"
ASSUME DisksAssumption == \A d \in Disks : LegacyDisk(d)

VARIABLES
    record,    \* operation.json
    packages,  \* packages/<digest>
    archives,  \* archives/<sha256>
    release,   \* the SDK release last used, installations[0]
    alive,     \* a Manager holds the root lease
    closed,    \* Manager.closed
    op,        \* Manager.op
    stopped,   \* the operation context is cancelled
    pc,        \* "idle": done = nil; "upload": Manager.upload open; else worker
    received,  \* chunks in Manager.upload
    pending,   \* archives still to download, or upload entries still to read
    staging,   \* what was unpacked in .stage-*, and whether it validated
    notified,  \* the watcher's channel holds a token
    watch,     \* the observer: "none", "waiting" for a token, or "woken"
    seen,      \* the state of the observer's last Snapshot
    ops,          \* history: operations started
    cancelAsked,  \* history: operations whose Cancel was accepted
    accepted,     \* history: owner and request of the last operation accepted
    harmed        \* history: packages damaged from outside since activation

disk == <<record, packages, archives>>
worker == <<stopped, pc, received, pending, staging>>
observer == <<notified, watch, seen>>
history == <<ops, cancelAsked, accepted, harmed>>
vars == <<disk, release, alive, closed, op, worker, observer, history>>

Nothing == [content |-> [a \in Artifacts |-> "absent"], validated |-> FALSE]

Blank(v) == [installed |-> None, package |-> v, owner |-> None,
             request |-> None, source |-> None, state |-> "available",
             id |-> 0]

Active(o) == o.state \in ActiveStates

IsKnown(v, d) == \E i \in DOMAIN Known[v] : Known[v][i] = d

Resolves(d) == packages[d] \in {"usable", "tainted"}

\* install holds Manager.mu from its last context check to its last write.
Locked == pc \in {"replace", "rename", "select"}

Admits == alive /\ ~closed /\ ~Locked

----------------------------------------------------------------------------
(* The durable record and its watchers.                                    *)

Notify == notified' = (watch # "none")

\* A temporary file is written, synced and renamed: the record is the old one
\* or the new one, and only the new one notifies.
Publish(o) == record' = [version |-> 2, op |-> o] /\ Notify

Unpublished == UNCHANGED <<record, notified>>

\* completeLocked, which also ends the life of the worker's own variables
Complete ==
    /\ pc' = "idle"
    /\ stopped' = FALSE
    /\ received' = 0
    /\ pending' = {}
    /\ staging' = Nothing

\* Two mistakes finishLocked could make when the record cannot be written.
FinishSilently(o, state) ==
    /\ \/ op' = [o EXCEPT !.state = state] /\ Publish(op')
       \/ op' = [o EXCEPT !.state = "failed"] /\ Unpublished
    /\ Complete

FinishLeaky(o, state) ==
    \/ op' = [o EXCEPT !.state = state] /\ Publish(op') /\ Complete
    \/ /\ op' = [o EXCEPT !.state = "failed"] /\ Notify
       /\ UNCHANGED <<record, stopped, pc, received, pending, staging>>

\* finishLocked: an outcome that cannot be recorded is a failure.
Finish(o, state) ==
    /\ \/ op' = [o EXCEPT !.state = state] /\ Publish(op')
       \/ op' = [o EXCEPT !.state = "failed"] /\ Notify /\ UNCHANGED record
    /\ Complete

----------------------------------------------------------------------------
(* New: the root lease, the saved record, adoptInstallation, and the       *)
(* interruption of whatever the previous process left unfinished.          *)

Saved(v) == IF record.version = 0 THEN Blank(v) ELSE record.op

\* A record whose package this release no longer supports starts over; only a
\* selection that is supported and still resolves is kept.
AdoptRetired(v, o) ==
    IF o.installed # None /\ IsKnown(v, o.installed) /\ Resolves(o.installed)
    THEN [Blank(v) EXCEPT !.installed = o.installed, !.state = "ready"]
    ELSE Blank(v)

\* Before version 2 the selection was implied by the package directories: the
\* first supported one that resolves, or else some supported directory.
LegacySelections(v, o) ==
    LET Supported == {Known[v][i] : i \in DOMAIN Known[v]}
        Usable == {i \in DOMAIN Known[v] : Resolves(Known[v][i])}
        Present == {d \in Supported : packages[d] # "absent"}
    IN  IF o.state = "ready" THEN {o.package}
        ELSE IF Usable # {}
             THEN {Known[v][i] : i \in {j \in Usable :
                                          \A k \in Usable : j <= k}}
        ELSE IF Present # {} THEN Present ELSE {None}

Adopted(v) ==
    LET o == Saved(v)
    IN  IF ~IsKnown(v, o.package)
        THEN IF AdoptsRetired THEN {AdoptRetired(v, o)} ELSE {}
        ELSE IF record.version = 2
        THEN {p \in {o} : p.installed # None => IsKnown(v, p.installed)}
        ELSE {[o EXCEPT !.installed = d] : d \in LegacySelections(v, o)}

Renewed(v, o) ==
    IF o.package = v THEN o ELSE [Blank(v) EXCEPT !.installed = o.installed]

Settled(o) ==
    LET usable == o.installed # None /\ Resolves(o.installed)
    IN  [o EXCEPT !.state =
           CASE Active(o) -> "interrupted"
             [] o.state \in {"available", "ready"} /\ usable -> "ready"
             [] o.state = "ready" /\ ~usable -> "failed"
             [] OTHER -> o.state]

\* A version 1 record is upgraded, and so is a root without one that turns out
\* to hold an installation; a failure to write fails New.
Upgrades(o) == record.version = 1 \/ (record.version = 0 /\ o.installed # None)

Open(v) ==
    /\ ~alive
    /\ alive' = TRUE
    /\ release' = v
    /\ \E o \in Adopted(v) :
         /\ op' = Settled(Renewed(v, o))
         /\ IF Upgrades(o) THEN Publish(op') ELSE Unpublished
    /\ accepted' = IF op'.owner = None THEN None ELSE accepted
    /\ UNCHANGED <<packages, archives, closed, worker, watch, seen,
                   ops, cancelAsked, harmed>>

----------------------------------------------------------------------------
(* Caller operations, each under Manager.mu.                               *)

SameRequest(c, r) == op.owner = c /\ op.request = r

\* A mistake: the selection stays in memory when it cannot be written.
StartReadyUnsaved(c, r) ==
    /\ Admits
    /\ ~SameRequest(c, r)
    /\ ~Active(op)
    /\ Resolves(release)
    /\ op' = [op EXCEPT !.installed = release, !.state = "ready"]
    /\ Publish(op') \/ Unpublished
    /\ UNCHANGED <<packages, archives, release, alive, closed, worker, watch,
                   seen, history>>

\* The current recipe is already installed: Start only selects it, and keeps
\* the identity of the operation that the record holds.
StartReady(c, r) ==
    /\ Admits
    /\ ~SameRequest(c, r)
    /\ ~Active(op)
    /\ Resolves(release)
    /\ op' = [op EXCEPT !.installed = release, !.state = "ready"]
    /\ Publish(op')
    /\ UNCHANGED <<packages, archives, release, alive, closed, worker, watch,
                   seen, history>>

Request(c, r, s) ==
    [installed |-> op.installed, package |-> release, owner |-> c,
     request |-> r, source |-> s, id |-> ops + 1,
     state |-> IF s = "upload" THEN "receiving" ELSE "downloading"]

\* The worker is launched only once the record names its request.
Accept(c, r, s) ==
    /\ op' = Request(c, r, s)
    /\ Publish(op')
    /\ pc' = IF s = "upload" THEN "upload" ELSE "begin"
    /\ accepted' = <<c, r>>
    /\ UNCHANGED <<stopped, received, pending, staging>>

\* The upload file or the record cannot be written.
Refuse(c, r, s) ==
    /\ Finish(Request(c, r, s), "failed")
    /\ accepted' = None

Start(c, r, s) ==
    /\ Admits
    /\ ops < MaxOps
    /\ ~SameRequest(c, r)
    /\ ~Active(op)
    /\ ~Resolves(release)
    /\ ops' = ops + 1
    /\ Accept(c, r, s) \/ Refuse(c, r, s)
    /\ UNCHANGED <<packages, archives, release, alive, closed, watch, seen,
                   cancelAsked, harmed>>

\* authorizeLocked; the operation id is the current one, a stale one is an
\* error that changes nothing.
Authorized(c) == Admits /\ c = op.owner /\ op.id # 0

WriteChunk(c) ==
    /\ Authorized(c)
    /\ pc = "upload"
    /\ received < UploadChunks
    /\ \/ /\ received' = received + 1
          /\ Notify \/ UNCHANGED notified        \* publishLocked throttles
          /\ UNCHANGED <<record, op, stopped, pc, pending, staging>>
       \/ Finish(op, "failed")
    /\ UNCHANGED <<packages, archives, release, alive, closed, watch, seen,
                   history>>

\* entries: the archives that the uploaded ZIP carries
CompleteUpload(c, entries) ==
    /\ Authorized(c)
    /\ pc = "upload"
    /\ received = UploadChunks
    /\ \/ /\ op' = [op EXCEPT !.state = "verifying"]
          /\ Publish(op')
          /\ pc' = "parse"
          /\ pending' = entries
          /\ UNCHANGED <<stopped, received, staging>>
       \/ Finish([op EXCEPT !.state = "verifying"], "failed")
    /\ UNCHANGED <<packages, archives, release, alive, closed, watch, seen,
                   history>>

\* cancelLocked: a pending upload ends here, a worker ends itself.
Stop(state) ==
    IF pc = "upload"
    THEN Finish(op, state)
    ELSE /\ stopped' = TRUE
         /\ UNCHANGED <<record, op, notified, pc, received, pending, staging>>

Cancel(c) ==
    /\ Authorized(c)
    /\ Active(op)
    /\ Stop("cancelled")
    /\ cancelAsked' = cancelAsked \cup {op.id}
    /\ UNCHANGED <<packages, archives, release, alive, closed, watch, seen,
                   ops, accepted, harmed>>

CloseBegin ==
    /\ Admits
    /\ closed' = TRUE
    /\ IF Active(op) THEN Stop("interrupted")
                     ELSE UNCHANGED <<record, op, notified, worker>>
    /\ UNCHANGED <<packages, archives, release, alive, watch, seen, history>>

Running == pc # "idle"

\* The process gives up everything that is not on disk.
Forget ==
    /\ alive' = FALSE
    /\ closed' = FALSE
    /\ op' = Blank(release)
    /\ notified' = FALSE
    /\ watch' = "none"
    /\ seen' = "available"
    /\ Complete
    /\ UNCHANGED <<disk, release, history>>

CloseEnd == alive /\ closed /\ ~Running /\ Forget

Crash == alive /\ Forget

----------------------------------------------------------------------------
(* The worker goroutine.  Every error ends in fail, which takes Manager.mu *)
(* after the error: a Cancel or a Close may come in between.               *)

\* stage: the state is set even when it cannot be recorded.
Stage(from, state, to) ==
    /\ pc = from
    /\ op' = [op EXCEPT !.state = state]
    /\ \/ Publish(op') /\ pc' = to
       \/ Unpublished /\ pc' = "failing"
    /\ UNCHANGED <<packages, archives, release, alive, closed, stopped,
                   received, pending, staging, watch, seen, history>>

Step(from, to) ==
    /\ pc = from
    /\ pc' = to
    /\ UNCHANGED <<disk, release, alive, closed, op, stopped, received,
                   observer, history>>

\* A mistake: one error path returns without fail.
FallibleButUnion == {"begin", "plan", "fetch", "parse", "entries", "extract",
                     "validating", "mark"}

\* What the worker calls may fail or notice the cancelled context.
Fallible == {"begin", "plan", "fetch", "parse", "entries", "union",
             "extract", "validating", "mark"}
Err == /\ \E from \in Fallible : Step(from, "failing")
       /\ UNCHANGED <<pending, staging>>

Fail == /\ pc = "failing"
        /\ Finish(op, IF ~stopped THEN "failed"
                      ELSE IF closed THEN "interrupted" ELSE "cancelled")
        /\ UNCHANGED <<packages, archives, release, alive, closed, watch,
                       seen, history>>

Checking == Stage("begin", "checking", "plan")

\* A mistake: the cache is trusted by file name.
MissingByName == {a \in Artifacts : archives[a] = "absent"}

\* Manager.Plan: every archive is verified, and a closed Manager is refused.
Missing == {a \in Artifacts : archives[a] # "verified"}
Plan == /\ ~closed
        /\ IF op.source = "cache" /\ Missing # {}
           THEN Step("plan", "failing") ELSE Step("plan", "planned")
        /\ pending' = Missing
        /\ UNCHANGED staging

Downloading == Stage("planned", "downloading", "fetch")

\* artifactcache.Acquire returns only a verified archive; the four downloaders
\* finish in any order, and their progress may or may not be published.
Fetch(a) ==
    /\ pc = "fetch"
    /\ a \in pending
    /\ archives' = [archives EXCEPT ![a] = "verified"]
    /\ pending' = pending \ {a}
    /\ Notify \/ UNCHANGED notified
    /\ UNCHANGED <<record, packages, release, alive, closed, op, stopped, pc,
                   received, staging, watch, seen, history>>

Fetched ==
    /\ pending = {}
    /\ Step("fetch", IF stopped THEN "failing" ELSE "install")
    /\ UNCHANGED <<pending, staging>>

Parse == Step("parse", "entries") /\ UNCHANGED <<pending, staging>>

\* An entry is skipped when the cache has the archive, and otherwise renamed
\* into the cache when its digest is the recipe's.
ReadEntry(a) ==
    /\ pc = "entries"
    /\ ~stopped
    /\ a \in pending
    /\ archives' = [archives EXCEPT ![a] = "verified"]
    /\ pending' = pending \ {a}
    /\ UNCHANGED <<record, packages, release, alive, closed, op, stopped, pc,
                   received, staging, observer, history>>

EntriesRead ==
    /\ pending = {}
    /\ Step("entries", "union")
    /\ UNCHANGED <<pending, staging>>

\* The upload and the cache together must hold the whole recipe.
Union == /\ Missing = {}
         /\ Step("union", "install")
         /\ UNCHANGED <<pending, staging>>

Installing == Stage("install", "installing", "extract")

\* An archive evicted since it was verified cannot be opened (Err).
Extract(a) ==
    /\ archives[a] # "absent"
    /\ staging.content[a] = "absent"
    /\ Step("extract", "extract")
    /\ staging' = [staging EXCEPT !.content[a] = archives[a]]
    /\ UNCHANGED pending

Prepare ==
    /\ \A a \in Artifacts : staging.content[a] # "absent"
    /\ Step("extract", "prepared")
    /\ UNCHANGED <<pending, staging>>

Validating == Stage("prepared", "validating", "validating")

Validate ==
    /\ Step("validating", "mark")
    /\ staging' = [staging EXCEPT !.validated = TRUE]
    /\ UNCHANGED pending

Mark == Step("mark", "commit") /\ UNCHANGED <<pending, staging>>

\* A mistake: the context is not checked again under the lock.
CommitUnchecked ==
    /\ pc = "commit"
    /\ pc' = "replace"
    /\ UNCHANGED <<disk, op, stopped, received, pending, staging, notified,
                   release, alive, closed, watch, seen, history>>

\* Manager.mu is taken for the rest of install.
Commit ==
    /\ pc = "commit"
    /\ IF stopped \/ closed
       THEN Finish(op, "cancelled") /\ UNCHANGED <<packages, archives>>
       ELSE /\ pc' = "replace"
            /\ UNCHANGED <<disk, op, stopped, received, pending, staging,
                           notified>>
    /\ UNCHANGED <<release, alive, closed, watch, seen, history>>

\* Two mistakes: the selection is recorded before the directory is in place,
\* and the previous installation is cleared instead of the current one.
ReplaceRecorded ==
    /\ pc = "replace"
    /\ packages' = IF Resolves(release) THEN packages
                   ELSE [packages EXCEPT ![release] = "absent"]
    /\ pc' = "rename"
    /\ op' = [op EXCEPT !.installed = release]
    /\ Publish(op')
    /\ harmed' = harmed \ {release}
    /\ UNCHANGED <<archives, release, alive, closed, watch, seen, stopped,
                   received, pending, staging, ops, cancelAsked, accepted>>

ReplacePrevious ==
    /\ pc = "replace"
    /\ packages' = [v \in Releases |->
                      IF v = op.installed THEN "absent" ELSE packages[v]]
    /\ pc' = "rename"
    /\ UNCHANGED <<record, op, stopped, received, pending, staging, notified,
                   archives, release, alive, closed, watch, seen, history>>

\* os.RemoveAll clears a directory that does not resolve; it may fail halfway.
Replace ==
    /\ pc = "replace"
    /\ \/ /\ packages' = IF Resolves(release) THEN packages
                         ELSE [packages EXCEPT ![release] = "absent"]
          /\ pc' = "rename"
          /\ UNCHANGED <<record, op, stopped, received, pending, staging,
                         notified>>
       \/ /\ Finish(op, "failed")
          /\ UNCHANGED packages
    /\ UNCHANGED <<archives, release, alive, closed, watch, seen, history>>

Staged == IF staging.validated
             /\ \A a \in Artifacts : staging.content[a] = "verified"
          THEN "usable" ELSE "tainted"

Rename ==
    /\ pc = "rename"
    /\ \/ /\ packages[release] = "absent"
          /\ packages' = [packages EXCEPT ![release] = Staged]
          /\ harmed' = harmed \ {release}
          /\ pc' = "select"
          /\ UNCHANGED <<record, op, stopped, received, pending, staging,
                         notified>>
       \/ /\ Finish(op, "failed")
          /\ UNCHANGED <<packages, harmed>>
    /\ UNCHANGED <<archives, release, alive, closed, watch, seen, ops,
                   cancelAsked, accepted>>

\* A mistake: the previous selection is not restored.
SelectUnrestored ==
    /\ pc = "select"
    /\ \/ /\ op' = [op EXCEPT !.installed = release, !.state = "ready"]
          /\ Publish(op')
          /\ Complete
       \/ Finish([op EXCEPT !.installed = release], "failed")
    /\ UNCHANGED <<packages, archives, release, alive, closed, watch, seen,
                   history>>

Select ==
    /\ pc = "select"
    /\ \/ /\ op' = [op EXCEPT !.installed = release, !.state = "ready"]
          /\ Publish(op')
          /\ Complete
       \/ Finish(op, "failed")
    /\ UNCHANGED <<packages, archives, release, alive, closed, watch, seen,
                   history>>

----------------------------------------------------------------------------
(* An observer (Watch, then Snapshot after each token), and the outside.   *)

Observing == /\ alive /\ ~Locked
             /\ UNCHANGED <<disk, release, alive, closed, op, worker, history>>

Watch == /\ Observing
         /\ watch = "none"
         /\ watch' = "waiting"
         /\ notified' = TRUE
         /\ UNCHANGED seen

Wake == /\ alive
        /\ watch = "waiting"
        /\ notified
        /\ watch' = "woken"
        /\ notified' = FALSE
        /\ UNCHANGED <<disk, release, alive, closed, op, worker, seen, history>>

Snapshot == /\ Observing
            /\ watch = "woken"
            /\ watch' = "waiting"
            /\ seen' = op.state
            /\ UNCHANGED notified

Undisturbed == UNCHANGED <<record, release, alive, closed, op, worker,
                           observer, ops, cancelAsked, accepted>>

\* The host's cache maintenance, which install does not exclude.
Evict(a) == /\ archives[a] # "absent"
            /\ archives' = [archives EXCEPT ![a] = "absent"]
            /\ Undisturbed
            /\ UNCHANGED <<packages, harmed>>

Damage(v) == /\ Resolves(v)
             /\ packages' = [packages EXCEPT ![v] = "damaged"]
             /\ harmed' = harmed \cup {v}
             /\ Undisturbed
             /\ UNCHANGED archives

----------------------------------------------------------------------------

Init ==
    /\ \E d \in Disks : /\ record = d.record
                        /\ packages = d.packages
                        /\ archives = d.archives
    /\ release \in Releases
    /\ alive = FALSE
    /\ closed = FALSE
    /\ op = Blank(release)
    /\ stopped = FALSE
    /\ pc = "idle"
    /\ received = 0
    /\ pending = {}
    /\ staging = Nothing
    /\ notified = FALSE
    /\ watch = "none"
    /\ seen = "available"
    /\ ops = 0
    /\ cancelAsked = {}
    /\ accepted = None
    /\ harmed = {v \in Releases : packages[v] = "damaged"}

Upload(c) == WriteChunk(c) \/ \E entries \in SUBSET Artifacts :
                                CompleteUpload(c, entries)

Caller(c) == \/ \E r \in Requests :
                  StartReady(c, r) \/ \E s \in Sources : Start(c, r, s)
             \/ Upload(c)
             \/ Cancel(c)

Worker == \/ Checking \/ Plan \/ Downloading \/ Fetched
          \/ \E a \in Artifacts : Fetch(a) \/ ReadEntry(a) \/ Extract(a)
          \/ Parse \/ EntriesRead \/ Union
          \/ Installing \/ Prepare \/ Validating \/ Validate \/ Mark
          \/ Commit \/ Replace \/ Rename \/ Select
          \/ Err \/ Fail

Observer == Watch \/ Wake \/ Snapshot

Outside == \/ Crash
           \/ \E a \in Artifacts : Evict(a)
           \/ \E v \in Releases : Damage(v)

Next == \/ \E v \in Releases : Open(v)
        \/ \E c \in Callers : Caller(c)
        \/ CloseBegin \/ CloseEnd
        \/ Worker
        \/ Observer
        \/ Outside

Spec == Init /\ [][Next]_vars

\* The worker goroutine runs and Close waits for it; callers owe nothing.
FairSpec == Spec /\ WF_vars(Worker) /\ WF_vars(CloseEnd)

----------------------------------------------------------------------------
(* Properties.                                                             *)

TypeOK ==
    /\ record \in Record
    /\ packages \in [Releases -> PackageStates]
    /\ archives \in [Artifacts -> ArchiveStates]
    /\ release \in Releases
    /\ alive \in BOOLEAN /\ closed \in BOOLEAN /\ stopped \in BOOLEAN
    /\ op \in Operation
    /\ pc \in {"idle", "upload", "begin", "plan", "planned", "fetch", "parse",
               "entries", "union", "install", "extract", "prepared",
               "validating", "mark", "commit", "replace", "rename", "select",
               "failing"}
    /\ received \in 0..UploadChunks
    /\ pending \in SUBSET Artifacts
    /\ staging \in [content : [Artifacts -> ArchiveStates],
                    validated : BOOLEAN]
    /\ notified \in BOOLEAN
    /\ watch \in {"none", "waiting", "woken"}
    /\ seen \in States
    /\ ops \in 0..MaxOps
    /\ cancelAsked \in SUBSET (1..MaxOps)
    /\ accepted \in (Callers \X Requests) \cup {None}
    /\ harmed \in SUBSET Releases

\* No package directory ever resolves that was not unpacked from exactly the
\* verified archives of its recipe and then validated, whatever was evicted,
\* cancelled, retried or interrupted on the way (README: "No partial
\* installation is activated"; receive's union check, downloadOne, install).
NoUnverifiedActivation == \A v \in Releases : packages[v] # "tainted"

\* The recorded selection resolves unless its directory was damaged from
\* outside: install replaces the directory before it records the selection and
\* never removes one that resolves, so a crash anywhere leaves the previous
\* selection usable (Directory "continues resolving it during an update and
\* after failure, cancellation or interruption").
SelectionUsable ==
    LET d == record.op.installed
    IN  d \in Releases /\ d \notin harmed => Resolves(d)

\* A selection that Directory hands out is the one that a crash now and a
\* restart would find on disk (publish failure restores the previous one;
\* New writes what it adopted from version 1 or from bare directories).
SelectionDurable ==
    alive /\ op.installed # None => record.op.installed = op.installed

SelectionKept == SelectionUsable /\ SelectionDurable

\* done is open exactly while the state is active: an active state with
\* nobody working on it would answer every Start with ErrBusy for ever, and a
\* worker behind a terminal state would race the next operation.
NeverWedged == Active(op) <=> Running

\* At rest a waiting observer with no token has seen the current state: the
\* capacity-one channels may coalesce notifications but never lose the last
\* one, not even when the outcome could not be recorded (finishLocked).
ObserverNotStale ==
    alive /\ ~Running /\ watch = "waiting" /\ ~notified => seen = op.state

\* Once its Cancel was accepted an operation places no package and selects
\* none: install checks the context under the lock that Cancel takes.
CancelledNeverActivates ==
    [][op.id \in cancelAsked =>
         /\ pc' # "select"
         /\ (pc = "select" => UNCHANGED record.op.installed)]_vars

\* A Start repeated with the same owner and request id never runs a second
\* operation, even after a crash or a restart lost the answer to the first
\* (README: "Preserve request identity").
RetryStartsNothing ==
    [][ops' # ops /\ Running' => <<op'.owner, op'.request>> # accepted]_vars

RequestsHonoured == CancelledNeverActivates /\ RetryStartsNothing

\* A package that resolves goes away only by outside damage: an update that
\* fails at any point, under any release, leaves the others in place.
ResolvingIsKept ==
    [][\A v \in Releases : Resolves(v) /\ ~Resolves(v)' => Damage(v)]_vars

\* Preparation implements the contract: outside of New, the selection changes
\* in memory and on disk together, only to an installation that resolves, and
\* never on behalf of an operation that was stopped.
Contract == INSTANCE PreparationContract WITH
    phase <- IF ~alive THEN "down"
             ELSE IF ~Running THEN "idle"
             ELSE IF pc = "select" THEN "placed"
             ELSE IF Locked THEN "committing"
             ELSE IF stopped THEN "stopping" ELSE "busy",
    current <- release,
    usable <- {v \in Releases : Resolves(v)},
    offered <- op.installed,
    durable <- record.op.installed
ImplementsContract == Contract!Spec

\* Every launched worker ends, no phase waits for another caller, and Close
\* returns: whatever the operation was doing, the root lease is released.
WorkEnds ==
    /\ pc \notin {"idle", "upload"} ~> ~Running
    /\ closed ~> ~alive
============================================================================
