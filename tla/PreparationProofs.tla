------------------------- MODULE PreparationProofs -------------------------
(***************************************************************************)
(* The invariants of Preparation for every set of callers, requests,       *)
(* archives, releases and initial disks; and those of XpraInput for every  *)
(* set of viewers, requests and input contexts and every bound: that no    *)
(* input passes an unconfirmed text, and that the server's input is that   *)
(* of the contract.                                                        *)
(***************************************************************************)
EXTENDS XpraInvariant, FiniteSetTheorems, SequenceTheorems, WellFoundedInduction, TLAPS

----------------------------------------------------------------------------
(* Helpers.                                                                *)

\* Changing the state or the selection keeps an operation well typed.
LEMMA OperationType ==
    ASSUME NEW o \in Operation, NEW state \in States,
           NEW d \in Releases \cup {None}
    PROVE  /\ [o EXCEPT !.state = state] \in Operation
           /\ [o EXCEPT !.installed = d] \in Operation
           /\ [o EXCEPT !.installed = d, !.state = state] \in Operation
           /\ [version |-> 2, op |-> o] \in Record
<1>1. [o EXCEPT !.state = state] \in Operation
  BY DEF Operation
<1>2. [o EXCEPT !.installed = d] \in Operation
  BY DEF Operation
<1>3. [o EXCEPT !.installed = d, !.state = state] \in Operation
  BY DEF Operation
<1>4. [version |-> 2, op |-> o] \in Record
  BY DEF Record
<1>5. QED
  BY <1>1, <1>2, <1>3, <1>4

\* Finishing an operation leaves a well-typed operation, record and worker.
LEMMA FinishType ==
    ASSUME TypeOK, NEW o \in Operation, NEW state \in RestStates,
           Finish(o, state)
    PROVE  /\ op' \in Operation
           /\ record' \in Record
           /\ notified' \in BOOLEAN
           /\ pc' = "idle" /\ stopped' \in BOOLEAN /\ pending' \in SUBSET Artifacts
           /\ received' \in 0..UploadChunks
           /\ staging' \in [content : [Artifacts -> ArchiveStates],
                            validated : BOOLEAN]
<1>1. op' \in Operation
  BY OperationType DEF Finish, States, RestStates
<1>2. record' \in Record /\ notified' \in BOOLEAN
  BY <1>1, OperationType DEF Finish, Publish, Notify, TypeOK
<1>3. Nothing \in [content : [Artifacts -> ArchiveStates],
                  validated : BOOLEAN]
  BY DEF Nothing, ArchiveStates
<1>4. /\ pc' = "idle" /\ stopped' = FALSE /\ received' = 0
      /\ pending' = {} /\ staging' = Nothing
  BY DEF Finish, Complete
<1>5. received' \in 0..UploadChunks
  BY <1>4, BoundsAssumption
<1>6. QED
  BY <1>1, <1>2, <1>3, <1>4, <1>5

\* A release always supports itself.
LEMMA KnownReleases ==
    ASSUME NEW v \in Releases
    PROVE  /\ Known[v] \in Seq(Releases)
           /\ \A i \in DOMAIN Known[v] : Known[v][i] \in Releases
           /\ IsKnown(v, v)
BY ReleasesAssumption DEF IsKnown

\* New ends with a well-typed operation.
LEMMA OpenType ==
    ASSUME TypeOK, NEW v \in Releases, NEW o \in Adopted(v)
    PROVE  Settled(Renewed(v, o)) \in Operation
<1>1. Blank(v) \in Operation
  BY BoundsAssumption DEF Blank, Operation, States, RestStates
<1>2. Saved(v) \in Operation
  BY <1>1 DEF Saved, TypeOK, Record
<1>3. AdoptRetired(v, Saved(v)) \in Operation
  BY <1>1, <1>2 DEF AdoptRetired, Operation, States, RestStates
<1>4. LegacySelections(v, Saved(v)) \subseteq Releases \cup {None}
  BY <1>2, KnownReleases DEF LegacySelections, Operation
<1>5. o \in Operation
  BY <1>2, <1>3, <1>4 DEF Adopted, Operation
<1>6. Renewed(v, o) \in Operation
  BY <1>1, <1>5 DEF Renewed, Operation
<1>7. QED
  BY <1>6 DEF Settled, Operation, States, RestStates

----------------------------------------------------------------------------
(* Type correctness.                                                       *)

LEMMA InitType == Init => TypeOK
<1> SUFFICES ASSUME Init PROVE TypeOK
  OBVIOUS
<1>1. PICK d \in Disks : record = d.record /\ packages = d.packages
                                          /\ archives = d.archives
  BY DEF Init
<1>2. record \in Record /\ packages \in [Releases -> PackageStates]
        /\ archives \in [Artifacts -> ArchiveStates]
  BY <1>1, DisksAssumption DEF LegacyDisk, PackageStates
<1>3. op \in Operation
  BY BoundsAssumption DEF Init, Blank, Operation, States, RestStates
<1>4. staging \in [content : [Artifacts -> ArchiveStates],
                  validated : BOOLEAN]
  BY DEF Init, Nothing, ArchiveStates
<1>5. harmed \in SUBSET Releases /\ seen \in States
  BY DEF Init, States, RestStates
<1>6. received \in 0..UploadChunks /\ ops \in 0..MaxOps
  BY BoundsAssumption DEF Init
<1>7. QED
  BY <1>2, <1>3, <1>4, <1>5, <1>6 DEF Init, TypeOK

\* The variables of an operation keep their types across a caller's step.
LEMMA CallerType ==
    ASSUME TypeOK, NEW c \in Callers, Caller(c) PROVE TypeOK'
<1>1. ASSUME NEW r \in Requests, StartReady(c, r) PROVE TypeOK'
  <2>1. op' \in Operation
    BY <1>1 DEF StartReady, TypeOK, Operation, States, RestStates
  <2>2. record' \in Record /\ notified' \in BOOLEAN
    BY <1>1, <2>1 DEF StartReady, Publish, Notify, Record
  <2>3. QED
    BY <1>1, <2>1, <2>2 DEF StartReady, TypeOK, worker, history
<1>2. ASSUME NEW r \in Requests, NEW s \in Sources, Start(c, r, s)
      PROVE  TypeOK'
  <2>1. Request(c, r, s) \in Operation
    <3>1. ops + 1 \in 0..MaxOps
      BY <1>2, BoundsAssumption DEF Start, TypeOK
    <3>2. op.installed \in Releases \cup {None} /\ release \in Releases
      BY DEF TypeOK, Operation
    <3>3. (IF s = "upload" THEN "receiving" ELSE "downloading") \in States
      BY DEF States, ActiveStates
    <3>4. QED
      BY <3>1, <3>2, <3>3 DEF Request, Operation
  <2>2. CASE Accept(c, r, s)
    <3>1. op' \in Operation
      BY <2>1, <2>2 DEF Accept
    <3>2. record' \in Record /\ notified' \in BOOLEAN
      BY <2>2, <3>1 DEF Accept, Publish, Notify, Record
    <3>3. ops' \in 0..MaxOps
      BY <1>2, BoundsAssumption DEF Start, TypeOK
    <3>4. QED
      BY <1>2, <2>2, <3>1, <3>2, <3>3 DEF Start, Accept, TypeOK
  <2>3. CASE Refuse(c, r, s)
    <3>1. Finish(Request(c, r, s), "failed") /\ accepted' = None
      BY <2>3 DEF Refuse
    <3>2. ops' \in 0..MaxOps
      BY <1>2, BoundsAssumption DEF Start, TypeOK
    <3>3. "failed" \in RestStates
      BY DEF RestStates
    <3>4. QED
      BY <1>2, <2>1, <3>1, <3>2, <3>3, FinishType DEF Start, TypeOK
  <2>4. QED
    BY <1>2, <2>2, <2>3 DEF Start
<1>3. ASSUME WriteChunk(c) PROVE TypeOK'
  <2>1. CASE Finish(op, "failed")
    <3>1. op \in Operation /\ "failed" \in RestStates
      BY DEF TypeOK, RestStates
    <3>2. QED
      BY <1>3, <2>1, <3>1, FinishType DEF WriteChunk, TypeOK, history
  <2>2. CASE /\ received' = received + 1
             /\ Notify \/ UNCHANGED notified
             /\ UNCHANGED <<record, op, stopped, pc, pending, staging>>
    <3>1. received' \in 0..UploadChunks
      BY <1>3, <2>2, BoundsAssumption DEF WriteChunk, TypeOK
    <3>2. QED
      BY <1>3, <2>2, <3>1 DEF WriteChunk, Notify, TypeOK, history
  <2>3. QED
    BY <1>3, <2>1, <2>2 DEF WriteChunk
<1>4. ASSUME NEW entries \in SUBSET Artifacts, CompleteUpload(c, entries)
      PROVE  TypeOK'
  <2>1. [op EXCEPT !.state = "verifying"] \in Operation
    BY DEF TypeOK, Operation, States, ActiveStates
  <2>2. CASE Finish([op EXCEPT !.state = "verifying"], "failed")
    BY <1>4, <2>1, <2>2, FinishType
       DEF CompleteUpload, TypeOK, RestStates, history
  <2>3. CASE op' = [op EXCEPT !.state = "verifying"] /\ Publish(op')
             /\ pc' = "parse" /\ pending' = entries
             /\ UNCHANGED <<stopped, received, staging>>
    <3>1. record' \in Record /\ notified' \in BOOLEAN
      BY <2>1, <2>3 DEF Publish, Notify, Record
    <3>2. QED
      BY <1>4, <2>1, <2>3, <3>1 DEF CompleteUpload, TypeOK, history
  <2>4. QED
    BY <1>4, <2>2, <2>3 DEF CompleteUpload
<1>5. ASSUME Cancel(c) PROVE TypeOK'
  <2>1. op.id \in 1..MaxOps
    BY <1>5 DEF Cancel, Authorized, TypeOK, Operation
  <2>2. CASE pc = "upload"
    BY <1>5, <2>1, <2>2, FinishType DEF Cancel, Stop, TypeOK, RestStates
  <2>3. CASE pc # "upload"
    <3>1. /\ UNCHANGED <<record, packages, archives, release, alive, closed, op, pc,
                         received, pending, staging, notified, watch, seen,
                         ops, accepted, harmed>>
          /\ stopped' = TRUE
          /\ cancelAsked' = cancelAsked \cup {op.id}
      BY <1>5, <2>3 DEF Cancel, Stop
    <3>2. cancelAsked' \in SUBSET (1..MaxOps)
      BY <2>1, <3>1 DEF TypeOK
    <3>3. QED
      BY <3>1, <3>2 DEF TypeOK
  <2>4. QED
    BY <2>2, <2>3
<1>6. QED
  BY <1>1, <1>2, <1>3, <1>4, <1>5 DEF Caller, Upload

\* A stage of the worker sets an active state, recorded or not.
LEMMA StageType ==
    ASSUME TypeOK, NEW from, NEW state \in States,
           NEW to \in {"plan", "fetch", "extract", "validating"},
           Stage(from, state, to)
    PROVE  TypeOK'
<1>1. op' \in Operation
  BY OperationType DEF Stage, TypeOK
<1>2. record' \in Record /\ notified' \in BOOLEAN
  BY <1>1, OperationType DEF Stage, Publish, Unpublished, Notify, TypeOK
<1>3. QED
  BY <1>1, <1>2 DEF Stage, TypeOK, history

LEMMA WorkerType ==
    ASSUME TypeOK, Worker PROVE TypeOK'
<1> USE DEF TypeOK, disk, observer, history
<1>1. ASSUME Checking \/ Downloading \/ Installing \/ Validating
      PROVE  TypeOK'
  BY <1>1, StageType
     DEF Checking, Downloading, Installing, Validating, States, ActiveStates
<1>2. ASSUME Plan \/ Fetched \/ Parse \/ EntriesRead \/ Union \/ Prepare
               \/ Mark \/ Err
      PROVE  TypeOK'
  <2>1. CASE Plan \/ Fetched
    BY <2>1 DEF Plan, Fetched, Step, Missing
  <2>2. CASE Parse \/ EntriesRead \/ Union
    BY <2>2 DEF Parse, EntriesRead, Union, Step
  <2>3. CASE Prepare \/ Mark
    BY <2>3 DEF Prepare, Mark, Step
  <2>4. CASE Err
    BY <2>4 DEF Err, Step, Fallible
  <2>5. QED
    BY <1>2, <2>1, <2>2, <2>3, <2>4
<1>3. ASSUME NEW a \in Artifacts, Fetch(a) \/ ReadEntry(a)
      PROVE  TypeOK'
  BY <1>3 DEF Fetch, ReadEntry, Notify, ArchiveStates
<1>4. ASSUME NEW a \in Artifacts, Extract(a) PROVE TypeOK'
  <2>1. staging' \in [content : [Artifacts -> ArchiveStates],
                      validated : BOOLEAN]
    BY <1>4 DEF Extract
  <2>2. QED
    BY <1>4, <2>1 DEF Extract, Step
<1>5. ASSUME Validate PROVE TypeOK'
  <2>1. staging' \in [content : [Artifacts -> ArchiveStates],
                      validated : BOOLEAN]
    BY <1>5 DEF Validate
  <2>2. QED
    BY <1>5, <2>1 DEF Validate, Step
<1>6. ASSUME Fail PROVE TypeOK'
  <2>1. PICK state \in RestStates : Finish(op, state)
    BY <1>6 DEF Fail, RestStates
  <2>2. QED
    BY <1>6, <2>1, FinishType DEF Fail
<1>7. ASSUME Commit PROVE TypeOK'
  <2>1. "cancelled" \in RestStates
    BY DEF RestStates
  <2>2. CASE stopped \/ closed
    BY <1>7, <2>1, <2>2, FinishType DEF Commit
  <2>3. CASE ~(stopped \/ closed)
    BY <1>7, <2>3 DEF Commit
  <2>4. QED
    BY <2>2, <2>3
<1>8. ASSUME Replace \/ Rename PROVE TypeOK'
  <2>1. "failed" \in RestStates
    BY DEF RestStates
  <2>2. CASE Finish(op, "failed")
    BY <1>8, <2>1, <2>2, FinishType
       DEF Replace, Rename, Staged, PackageStates
  <2>3. CASE UNCHANGED <<record, op, stopped, received, pending, staging,
                         notified>>
    BY <1>8, <2>3 DEF Replace, Rename, Staged, PackageStates, Finish, Complete
  <2>4. QED
    BY <1>8, <2>2, <2>3 DEF Replace, Rename
<1>9. ASSUME Select PROVE TypeOK'
  <2>1. "failed" \in RestStates /\ "ready" \in States
    BY DEF States, RestStates
  <2>2. CASE Finish(op, "failed")
    BY <1>9, <2>1, <2>2, FinishType DEF Select
  <2>3. CASE /\ op' = [op EXCEPT !.installed = release, !.state = "ready"]
             /\ Publish(op')
             /\ Complete
    <3>1. op' \in Operation
      BY <2>1, <2>3, OperationType
    <3>2. record' \in Record /\ notified' \in BOOLEAN
      BY <2>1, <2>3, <3>1, OperationType DEF Publish, Notify
    <3>3. Nothing \in [content : [Artifacts -> ArchiveStates],
                       validated : BOOLEAN]
      BY DEF Nothing, ArchiveStates
    <3>4. 0 \in 0..UploadChunks
      BY BoundsAssumption
    <3>5. QED
      BY <1>9, <2>3, <3>1, <3>2, <3>3, <3>4 DEF Select, Complete
  <2>4. QED
    BY <1>9, <2>2, <2>3 DEF Select
<1>10. QED
  BY <1>1, <1>2, <1>3, <1>4, <1>5, <1>6, <1>7, <1>8, <1>9 DEF Worker

LEMMA OpenCloseType ==
    ASSUME TypeOK,
           \/ \E v \in Releases : Open(v)
           \/ CloseBegin \/ CloseEnd \/ Crash
    PROVE  TypeOK'
<1> USE DEF TypeOK, worker, observer, history
<1>1. ASSUME NEW v \in Releases, Open(v) PROVE TypeOK'
  <2>1. op' \in Operation
    BY <1>1, OpenType DEF Open
  <2>2. record' \in Record /\ notified' \in BOOLEAN
    BY <1>1, <2>1, OperationType DEF Open, Publish, Unpublished, Notify
  <2>3. accepted' \in (Callers \X Requests) \cup {None}
    BY <1>1 DEF Open
  <2>4. QED
    BY <1>1, <2>1, <2>2, <2>3 DEF Open
<1>2. ASSUME CloseBegin PROVE TypeOK'
  <2>1. CASE Active(op) /\ pc = "upload"
    <3>1. "interrupted" \in RestStates
      BY DEF RestStates
    <3>2. QED
      BY <1>2, <2>1, <3>1, FinishType DEF CloseBegin, Stop
  <2>2. CASE ~(Active(op) /\ pc = "upload")
    <3>1. /\ UNCHANGED <<record, packages, archives, release, alive, op, pc, received,
                         pending, staging, notified, watch, seen, history>>
          /\ closed' = TRUE
      BY <1>2, <2>2 DEF CloseBegin, Stop
    <3>2. closed' \in BOOLEAN /\ stopped' \in BOOLEAN
      BY <1>2, <2>2, <3>1 DEF CloseBegin, Stop
    <3>3. QED
      BY <3>1, <3>2
  <2>3. QED
    BY <2>1, <2>2
<1>3. ASSUME Forget PROVE TypeOK'
  <2>1. Blank(release) \in Operation
    BY BoundsAssumption DEF Blank, Operation, States, RestStates
  <2>2. Nothing \in [content : [Artifacts -> ArchiveStates],
                     validated : BOOLEAN]
    BY DEF Nothing, ArchiveStates
  <2>3. 0 \in 0..UploadChunks /\ "available" \in States
    BY BoundsAssumption DEF States, RestStates
  <2>4. QED
    BY <1>3, <2>1, <2>2, <2>3 DEF Forget, Complete, disk
<1>4. QED
  BY <1>1, <1>2, <1>3 DEF CloseEnd, Crash

LEMMA OutsideType ==
    ASSUME TypeOK, Observer \/ (\E a \in Artifacts : Evict(a))
                     \/ (\E v \in Releases : Damage(v))
    PROVE  TypeOK'
<1> USE DEF TypeOK, disk, worker, observer, history
<1>1. ASSUME Observer PROVE TypeOK'
  <2>1. CASE Watch
    BY <2>1 DEF Watch, Observing
  <2>2. CASE Wake
    BY <2>2 DEF Wake
  <2>3. CASE Snapshot
    BY <2>3 DEF Snapshot, Observing, Operation
  <2>4. QED
    BY <1>1, <2>1, <2>2, <2>3 DEF Observer
<1>2. ASSUME NEW a \in Artifacts, Evict(a) PROVE TypeOK'
  BY <1>2 DEF Evict, Undisturbed, ArchiveStates
<1>3. ASSUME NEW v \in Releases, Damage(v) PROVE TypeOK'
  BY <1>3 DEF Damage, Undisturbed, PackageStates
<1>4. QED
  BY <1>1, <1>2, <1>3

LEMMA NextType == TypeOK /\ [Next]_vars => TypeOK'
<1> SUFFICES ASSUME TypeOK, [Next]_vars PROVE TypeOK'
  OBVIOUS
<1>1. CASE Next
  BY <1>1, CallerType, WorkerType, OpenCloseType, OutsideType
     DEF Next, Outside
<1>2. CASE UNCHANGED vars
  BY <1>2 DEF TypeOK, vars, disk, worker, observer, history
<1>3. QED
  BY <1>1, <1>2

\* Every variable keeps its type: the record and the live operation hold only
\* supported fields, and the counters stay within their bounds.
THEOREM TypeCorrect == Spec => []TypeOK
BY InitType, NextType, PTL DEF Spec

----------------------------------------------------------------------------
(* Control: an active state and a running operation go together, and a     *)
(* cancelled operation stays stopped until it ends.                        *)

Control ==
    /\ NeverWedged
    /\ ~alive => ~Running /\ ~closed /\ watch = "none" /\ op.installed = None
    /\ record.op.id \in 0..ops
    /\ op.id \in 0..ops
    /\ cancelAsked \subseteq 1..ops
    /\ Locked \/ ~Running => ~stopped
    /\ Running /\ op.id \in cancelAsked => stopped

\* What finishLocked does, apart from types.
LEMMA FinishEffect ==
    ASSUME NEW o \in Operation, NEW state \in RestStates, Finish(o, state)
    PROVE  /\ op'.state \in RestStates /\ ~Active(op')
           /\ op'.installed = o.installed
           /\ op'.owner = o.owner
           /\ op'.request = o.request
           /\ op'.id = o.id
           /\ record' = record \/ record' = [version |-> 2, op |-> op']
           /\ notified' = (watch # "none")
           /\ pc' = "idle" /\ stopped' = FALSE /\ pending' = {}
           /\ staging' = Nothing
<1>1. /\ op'.state \in RestStates
      /\ op'.installed = o.installed
      /\ op'.owner = o.owner
      /\ op'.request = o.request
      /\ op'.id = o.id
  BY DEF Finish, Operation, RestStates
<1>2. ~Active(op')
  BY <1>1 DEF Active, ActiveStates, RestStates
<1>3. QED
  BY <1>1, <1>2 DEF Finish, Publish, Notify, Complete

\* What Publish does to the fields of the record.
LEMMA PublishEffect ==
    ASSUME NEW o, Publish(o)
    PROVE  /\ record'.version = 2 /\ record'.op = o
           /\ notified' = (watch # "none")
BY DEF Publish, Notify

LEMMA InitControl == Init => Control
<1> SUFFICES ASSUME Init PROVE Control
  OBVIOUS
<1>1. op.state = "available" /\ op.id = 0 /\ op.installed = None
  BY DEF Init, Blank
<1>2. record.op.id = 0
  BY DisksAssumption DEF Init, LegacyDisk
<1>3. QED
  BY <1>1, <1>2
     DEF Init, Control, NeverWedged, Active, ActiveStates, Running, Locked

\* Caller steps, by whether they finish the operation, start one, or neither.
LEMMA CallerControl ==
    ASSUME TypeOK, Control, NEW c \in Callers, Caller(c) PROVE Control'
<1> USE DEF Control, NeverWedged, Running, Locked
<1>1. ASSUME NEW o \in Operation, NEW state \in RestStates,
             Finish(o, state), o.id \in 0..ops',
             ops' \in {ops, ops + 1}, alive' = alive, alive,
             closed' \in BOOLEAN, cancelAsked' \subseteq 1..ops'
      PROVE  Control'
  <2>1. ops \in Nat
    BY DEF TypeOK
  <2>2. record' = record \/ record'.op.id = o.id
    <3>1. op'.id = o.id
          /\ (record' = record \/ record' = [version |-> 2, op |-> op'])
      BY <1>1, FinishEffect
    <3>2. QED
      BY <3>1
  <2>3. record.op.id \in 0..ops'
    BY <1>1, <2>1
  <2>4. record'.op.id \in 0..ops'
    BY <1>1, <2>2, <2>3
  <2>5. QED
    BY <1>1, <2>1, <2>4, FinishEffect DEF Active
<1>2. ASSUME NEW r \in Requests, StartReady(c, r) PROVE Control'
  <2>1. op'.state = "ready" /\ op'.id = op.id
    BY <1>2 DEF StartReady, TypeOK, Operation
  <2>2. record'.op = op'
    BY <1>2 DEF StartReady, Publish
  <2>3. QED
    BY <1>2, <2>1, <2>2
       DEF StartReady, Admits, Active, ActiveStates, worker, history
<1>3. ASSUME NEW r \in Requests, NEW s \in Sources, Start(c, r, s)
      PROVE  Control'
  <2> DEFINE o == Request(c, r, s)
  <2>1. /\ ops \in Nat /\ ops' = ops + 1 /\ alive /\ alive' = alive
        /\ cancelAsked' = cancelAsked /\ cancelAsked \subseteq 1..ops
        /\ pc = "idle" /\ closed' = closed
    BY <1>3 DEF Start, Admits, TypeOK
  <2>2. o.id = ops + 1 /\ Active(o)
    BY DEF Request, Active, ActiveStates
  <2>3. CASE Accept(c, r, s)
    <3>1. op' = o /\ record'.op = o /\ pc' \in {"upload", "begin"}
          /\ stopped' = stopped
      BY <2>3 DEF Accept, Publish
    <3>2. o.id \notin cancelAsked' /\ record'.op.id \in 0..ops'
          /\ op'.id \in 0..ops' /\ cancelAsked' \subseteq 1..ops'
      BY <2>1, <2>2, <3>1
    <3>3. QED
      BY <2>1, <2>2, <3>1, <3>2 DEF Active
  <2>4. CASE Refuse(c, r, s)
    <3>1. o \in Operation
      <4>1. ops + 1 \in 0..MaxOps
        BY <1>3, BoundsAssumption DEF Start, TypeOK
      <4>2. op.installed \in Releases \cup {None} /\ release \in Releases
        BY DEF TypeOK, Operation
      <4>3. (IF s = "upload" THEN "receiving" ELSE "downloading") \in States
        BY DEF States, ActiveStates
      <4>4. QED
        BY <4>1, <4>2, <4>3 DEF Request, Operation
    <3>2. "failed" \in RestStates /\ Finish(o, "failed")
      BY <2>4 DEF RestStates, Refuse
    <3>3. o.id \in 0..ops' /\ cancelAsked' \subseteq 1..ops'
          /\ closed' \in BOOLEAN
      BY <2>1, <2>2 DEF TypeOK
    <3>4. QED
      BY <1>1, <2>1, <3>1, <3>2, <3>3
  <2>5. QED
    BY <1>3, <2>3, <2>4 DEF Start
<1>4. ASSUME WriteChunk(c) \/ (\E e \in SUBSET Artifacts : CompleteUpload(c, e))
      PROVE  Control'
  <2> DEFINE o == [op EXCEPT !.state = "verifying"]
  <2>1. /\ op \in Operation /\ o \in Operation /\ o.id = op.id
        /\ "failed" \in RestStates /\ pc = "upload" /\ alive
        /\ UNCHANGED <<alive, closed, ops, cancelAsked, watch>>
    BY <1>4 DEF TypeOK, Operation, States, ActiveStates, RestStates,
                WriteChunk, CompleteUpload, Authorized, Admits, history
  <2>2. CASE Finish(op, "failed") \/ Finish(o, "failed")
    BY <1>1, <2>1, <2>2 DEF TypeOK
  <2>3. CASE UNCHANGED <<record, op, stopped, pc>>
    BY <2>1, <2>3
  <2>4. CASE op' = o /\ Publish(op') /\ pc' = "parse" /\ stopped' = stopped
    <3>1. Active(op') /\ op'.id = op.id /\ record'.op = op'
      BY <2>1, <2>4 DEF Active, ActiveStates, Publish, Operation
    <3>2. QED
      BY <2>1, <2>4, <3>1
  <2>5. QED
    BY <1>4, <2>2, <2>3, <2>4 DEF WriteChunk, CompleteUpload
<1>5. ASSUME Cancel(c) PROVE Control'
  <2>1. op.id \in 1..ops /\ ops \in Nat
    BY <1>5 DEF Cancel, Authorized, TypeOK
  <2>2. CASE pc = "upload"
    <3>1. Finish(op, "cancelled") /\ "cancelled" \in RestStates
      BY <1>5, <2>2 DEF Cancel, Stop, RestStates
    <3>2. QED
      BY <1>1, <1>5, <2>1, <3>1 DEF Cancel, Authorized, Admits, TypeOK
  <2>3. CASE pc # "upload"
    BY <1>5, <2>1, <2>3 DEF Cancel, Stop, Authorized, Admits
  <2>4. QED
    BY <2>2, <2>3
<1>6. QED
  BY <1>2, <1>3, <1>4, <1>5 DEF Caller, Upload

\* Worker steps keep the operation's identity; only Stop sets the context.
LEMMA WorkerControl ==
    ASSUME TypeOK, Control, Worker PROVE Control'
<1> USE DEF Control, NeverWedged, Running, Locked
<1>0. /\ Running /\ alive
      /\ UNCHANGED <<alive, closed, ops, cancelAsked, watch>>
      /\ op \in Operation
  BY DEF Worker, Checking, Downloading, Installing, Validating, Stage, Plan,
         Fetched, Parse, EntriesRead, Union, Prepare, Mark, Err, Step, Fetch,
         ReadEntry, Extract, Validate, Fail, Commit, Replace, Rename, Select,
         history, observer, TypeOK, Fallible
<1>1. ASSUME NEW state \in RestStates, Finish(op, state) PROVE Control'
  <2>1. record' = record \/ record'.op.id = op.id
    <3>1. op'.id = op.id
          /\ (record' = record \/ record' = [version |-> 2, op |-> op'])
      BY <1>0, <1>1, FinishEffect
    <3>2. QED
      BY <3>1
  <2>2. QED
    BY <1>0, <1>1, <2>1, FinishEffect DEF Active
<1>2. ASSUME NEW from, NEW state \in ActiveStates,
             NEW to \in {"plan", "fetch", "extract", "validating"},
             Stage(from, state, to)
      PROVE  Control'
  <2>1. op'.state = state /\ op'.id = op.id
    BY <1>0, <1>2 DEF Stage, Operation
  <2>2. record' = record \/ record'.op = op'
    BY <1>2 DEF Stage, Publish, Unpublished
  <2>3. pc' \in {to, "failing"} /\ stopped' = stopped
    BY <1>2 DEF Stage
  <2>4. record'.op.id \in 0..ops'
    BY <1>0, <2>1, <2>2
  <2>5. QED
    BY <1>0, <2>1, <2>3, <2>4 DEF Active
<1>3. ASSUME UNCHANGED <<record, op, stopped>>,
             pc' \in {"failing", "planned", "fetch", "install", "entries",
                      "union", "extract", "prepared", "mark", "commit"}
      PROVE  Control'
  BY <1>0, <1>3
<1>4. CASE Checking \/ Downloading \/ Installing \/ Validating
  BY <1>2, <1>4
     DEF Checking, Downloading, Installing, Validating, ActiveStates
<1>5. CASE \/ Plan \/ Fetched \/ Parse \/ EntriesRead \/ Union \/ Prepare
           \/ Mark \/ Err \/ Validate
           \/ \E a \in Artifacts : Fetch(a) \/ ReadEntry(a) \/ Extract(a)
  BY <1>3, <1>5
     DEF Plan, Fetched, Parse, EntriesRead, Union, Prepare, Mark, Err, Step,
         Fetch, ReadEntry, Extract, Validate, disk
<1>6. CASE Fail
  BY <1>1, <1>6 DEF Fail, RestStates
<1>7. CASE Commit \/ Replace \/ Rename
  <2>1. CASE \E state \in RestStates : Finish(op, state)
    BY <1>1, <2>1
  <2>2. CASE UNCHANGED <<record, op, stopped>>
             /\ pc' \in {"replace", "rename", "select"} /\ ~stopped
    BY <1>0, <2>2
  <2>3. QED
    BY <1>7, <2>1, <2>2 DEF Commit, Replace, Rename, RestStates, disk
<1>8. CASE Select
  <2>1. CASE Finish(op, "failed")
    BY <1>1, <2>1 DEF RestStates
  <2>2. CASE /\ op' = [op EXCEPT !.installed = release, !.state = "ready"]
             /\ Publish(op')
             /\ Complete
    <3>1. op'.state = "ready" /\ op'.id = op.id /\ record'.op = op'
      BY <1>0, <2>2 DEF Operation, Publish
    <3>2. QED
      BY <1>0, <2>2, <3>1 DEF Complete, Active, ActiveStates
  <2>3. QED
    BY <1>8, <2>1, <2>2 DEF Select
<1>9. QED
  BY <1>4, <1>5, <1>6, <1>7, <1>8 DEF Worker

\* Opening interrupts, so no active state is left without a worker.
LEMMA OpenEffect ==
    ASSUME TypeOK, NEW v \in Releases, Open(v)
    PROVE  \E o \in Adopted(v) :
             /\ op' = Settled(Renewed(v, o))
             /\ op' \in Operation
             /\ ~Active(op')
             /\ op'.installed = o.installed
             /\ op'.id \in {0, record.op.id}
             /\ \/ op'.owner = None
                \/ /\ record.version # 0
                   /\ op'.owner = record.op.owner
                   /\ op'.request = record.op.request
             /\ IF Upgrades(o) THEN Publish(op') ELSE Unpublished
<1>1. PICK o \in Adopted(v) :
             /\ op' = Settled(Renewed(v, o))
             /\ IF Upgrades(o) THEN Publish(op') ELSE Unpublished
  BY DEF Open
<1>2. op' \in Operation
  BY <1>1, OpenType
<1>3. o \in Operation /\ Renewed(v, o) \in Operation
  <2>1. Blank(v) \in Operation
    BY BoundsAssumption DEF Blank, Operation, States, RestStates
  <2>2. Saved(v) \in Operation
    BY <2>1 DEF Saved, TypeOK, Record
  <2>3. AdoptRetired(v, Saved(v)) \in Operation
    BY <2>1, <2>2 DEF AdoptRetired, Operation, States, RestStates
  <2>4. LegacySelections(v, Saved(v)) \subseteq Releases \cup {None}
    BY <2>2, KnownReleases DEF LegacySelections, Operation
  <2>5. o \in Operation
    BY <2>2, <2>3, <2>4 DEF Adopted, Operation
  <2>6. QED
    BY <2>1, <2>5 DEF Renewed, Operation
<1>4. /\ o.id \in {0, record.op.id}
      /\ \/ o.owner = None
         \/ /\ record.version # 0
            /\ o.owner = record.op.owner
            /\ o.request = record.op.request
  <2>1. Blank(v).id = 0 /\ Blank(v).owner = None
    BY DEF Blank
  <2>2. CASE o = AdoptRetired(v, Saved(v))
    BY <2>1, <2>2 DEF AdoptRetired, Blank
  <2>3. CASE /\ o.id = Saved(v).id /\ o.owner = Saved(v).owner
             /\ o.request = Saved(v).request
    BY <2>1, <2>3 DEF Saved
  <2>4. Saved(v) \in Operation
    BY BoundsAssumption
       DEF Saved, TypeOK, Record, Blank, Operation, States, RestStates
  <2>5. QED
    BY <2>2, <2>3, <2>4 DEF Adopted, Operation
<1>5. LET p == Renewed(v, o)
      IN  /\ p.installed = o.installed
          /\ p.id \in {0, o.id}
          /\ p.owner = None \/ (p.owner = o.owner /\ p.request = o.request)
  BY <1>3 DEF Renewed, Blank
<1>6. LET p == Renewed(v, o)
      IN  /\ op'.installed = p.installed
          /\ op'.id = p.id
          /\ op'.owner = p.owner
          /\ op'.request = p.request
          /\ ~Active(op')
  BY <1>1, <1>3 DEF Settled, Operation, Active, ActiveStates
<1>7. QED
  BY <1>1, <1>2, <1>4, <1>5, <1>6

LEMMA NextControl ==
    TypeOK /\ Control /\ [Next]_vars => Control'
<1> SUFFICES ASSUME TypeOK, Control, [Next]_vars PROVE Control'
  OBVIOUS
<1> USE DEF Control, NeverWedged, Running, Locked
<1>1. ASSUME NEW v \in Releases, Open(v) PROVE Control'
  <2>1. ~Active(op') /\ op'.id \in {0, record.op.id}
        /\ (record' = record \/ record'.op = op')
    BY <1>1, OpenEffect DEF Publish, Unpublished
  <2>2. op'.id \in 0..ops /\ record'.op.id \in 0..ops
    BY <2>1 DEF TypeOK
  <2>3. /\ alive' /\ pc' = "idle" /\ ~stopped
        /\ UNCHANGED <<ops, cancelAsked, stopped>>
    BY <1>1 DEF Open, worker
  <2>4. ~stopped'
    BY <2>3
  <2>5. QED
    BY <2>1, <2>2, <2>3, <2>4 DEF Active
<1>2. ASSUME CloseBegin PROVE Control'
  <2>1. /\ alive /\ alive' = alive /\ closed' = TRUE /\ op \in Operation
        /\ UNCHANGED <<ops, cancelAsked>>
    BY <1>2 DEF CloseBegin, Admits, history, TypeOK
  <2>2. CASE Active(op) /\ pc = "upload"
    <3>1. Finish(op, "interrupted") /\ "interrupted" \in RestStates
      BY <1>2, <2>2 DEF CloseBegin, Stop, RestStates
    <3>2. record' = record \/ record'.op = op'
      BY <3>1 DEF Finish, Publish
    <3>3. record'.op.id \in 0..ops'
      BY <2>1, <3>1, <3>2, FinishEffect
    <3>4. QED
      BY <2>1, <3>1, <3>3, FinishEffect DEF Active
  <2>3. CASE Active(op) /\ pc # "upload"
    BY <1>2, <2>1, <2>3 DEF CloseBegin, Stop, Admits
  <2>4. CASE ~Active(op)
    BY <1>2, <2>1, <2>4 DEF CloseBegin, worker
  <2>5. QED
    BY <2>2, <2>3, <2>4
<1>3. ASSUME CloseEnd \/ Crash PROVE Control'
  <2>1. Forget
    BY <1>3 DEF CloseEnd, Crash
  <2>2. op'.state = "available" /\ op'.id = 0 /\ op'.installed = None
    BY <2>1 DEF Forget, Blank
  <2>3. pc' = "idle" /\ record' = record /\ ops' = ops
        /\ cancelAsked' = cancelAsked
    BY <2>1 DEF Forget, Complete, disk, history
  <2>4. stopped' = FALSE
    BY <2>1 DEF Forget, Complete
  <2>5. alive' = FALSE /\ closed' = FALSE /\ watch' = "none"
    BY <2>1 DEF Forget
  <2>6. 0 \in 0..ops
    BY DEF TypeOK
  <2>7. record'.op.id \in 0..ops' /\ op'.id \in 0..ops'
        /\ cancelAsked' \subseteq 1..ops'
    BY <2>2, <2>3, <2>6
  <2>8. NeverWedged' /\ ~Running'
    BY <2>2, <2>3 DEF Active, ActiveStates
  <2>9. ~stopped' /\ ~closed'
    BY <2>4, <2>5
  <2>10. QED
    BY <2>2, <2>5, <2>7, <2>8, <2>9
<1>4. ASSUME Observer \/ (\E a \in Artifacts : Evict(a))
               \/ (\E v \in Releases : Damage(v))
      PROVE  Control'
  <2>1. /\ UNCHANGED <<op, pc, record, ops, cancelAsked>>
        /\ stopped' = stopped /\ alive' = alive /\ closed' = closed
    BY <1>4 DEF Observer, Observing, Watch, Wake, Snapshot, Evict, Damage,
                Undisturbed, disk, worker, history
  <2>2. alive \/ watch' = watch
    BY <1>4 DEF Observer, Observing, Watch, Wake, Snapshot, Evict, Damage,
                Undisturbed, observer
  <2>3. alive' \/ watch' = watch
    BY <2>1, <2>2
  <2>4. QED
    BY <2>1, <2>3 DEF Active
<1>5. ASSUME UNCHANGED vars PROVE Control'
  BY <1>5 DEF vars, disk, worker, observer, history
<1>6. QED
  BY <1>1, <1>2, <1>3, <1>4, <1>5, CallerControl, WorkerControl
     DEF Next, Outside

\* Who is working, and what it has been asked: the bookkeeping that the other
\* invariants rest on.
THEOREM ControlHolds == Spec => []Control
BY InitType, NextType, InitControl, NextControl, TypeCorrect, PTL DEF Spec

\* A state that names work in progress always has somebody working: no Start
\* can be answered with ErrBusy for ever.
THEOREM NeverWedgedHolds == Spec => []NeverWedged
BY ControlHolds, PTL DEF Control

\* An accepted Cancel wins against install's activation at whatever point it
\* is accepted, including between validation and the final lock.
THEOREM CancelledHolds == Spec => CancelledNeverActivates
<1> DEFINE A == op.id \in cancelAsked =>
                  /\ pc' # "select"
                  /\ (pc = "select" => UNCHANGED record.op.installed)
<1>1. ASSUME TypeOK, Control, [Next]_vars PROVE [A]_vars
  <2>1. ASSUME op.id \in cancelAsked PROVE ~Locked
    BY <1>1, <2>1 DEF Control, Locked, Running
  <2>2. ASSUME pc' = "select", pc # "select" PROVE pc = "rename"
    BY <1>1, <2>2
       DEF Next, Caller, Upload, StartReady, Start, Accept, Refuse, Finish,
           Complete, WriteChunk, CompleteUpload, Cancel, Stop, CloseBegin,
           CloseEnd, Crash, Forget, Open, Worker, Checking, Downloading,
           Installing, Validating, Stage, Plan, Fetched, Parse, EntriesRead,
           Union, Prepare, Mark, Err, Step, Fetch, ReadEntry, Extract,
           Validate, Fail, Commit, Replace, Rename, Select, Observer,
           Observing, Watch, Wake, Snapshot, Outside, Evict, Damage,
           Undisturbed, vars, disk, worker, observer, history
  <2>3. QED
    BY <2>1, <2>2 DEF Locked
<1>2. QED
  BY <1>1, TypeCorrect, ControlHolds, PTL
     DEF Spec, CancelledNeverActivates

\* An update under any release leaves every package that resolves in place.
THEOREM ResolvingHolds == Spec => ResolvingIsKept
<1> DEFINE A == \A v \in Releases : Resolves(v) /\ ~Resolves(v)' => Damage(v)
<1>1. ASSUME TypeOK, [Next]_vars PROVE [A]_vars
  <2> SUFFICES ASSUME NEW v \in Releases, Resolves(v), ~Resolves(v)'
               PROVE  Damage(v)
    OBVIOUS
  <2> USE DEF Resolves
  <2>1. ~UNCHANGED packages
    OBVIOUS
  <2>2. ASSUME Replace PROVE FALSE
    BY <1>1, <2>1, <2>2 DEF Replace, TypeOK
  <2>3. ASSUME Rename PROVE FALSE
    BY <1>1, <2>1, <2>3 DEF Rename, Staged, TypeOK
  <2>4. ASSUME NEW w \in Releases, Damage(w) PROVE w = v
    BY <1>1, <2>4 DEF Damage, TypeOK
  <2>5. ASSUME Next, ~Replace, ~Rename
        PROVE  \E w \in Releases : Damage(w)
    BY <2>1, <2>5
       DEF Next, Caller, Upload, StartReady, Start, WriteChunk,
           CompleteUpload, Cancel, CloseBegin, CloseEnd, Crash, Forget, Open,
           Worker, Checking, Downloading, Installing, Validating, Stage, Plan,
           Fetched, Parse, EntriesRead, Union, Prepare, Mark, Err, Step, Fetch,
           ReadEntry, Extract, Validate, Fail, Commit, Select, Observer,
           Observing, Watch, Wake, Snapshot, Outside, Evict, disk
  <2>6. Next
    BY <1>1, <2>1 DEF vars, disk
  <2>7. QED
    BY <2>2, <2>3, <2>4, <2>5, <2>6
<1>2. QED
  BY <1>1, TypeCorrect, PTL DEF Spec, ResolvingIsKept

----------------------------------------------------------------------------
(* Verified: what the worker has in hand at each phase.                    *)

Verified ==
    /\ NoUnverifiedActivation
    /\ \A a \in Artifacts : staging.content[a] # "corrupt"
    /\ pc \in {"planned", "fetch"} =>
         \A a \in Artifacts : archives[a] = "corrupt" => a \in pending
    /\ pc \in {"install", "extract", "prepared", "validating", "mark",
               "commit", "replace", "rename"} =>
         \A a \in Artifacts : archives[a] # "corrupt"
    /\ pc \in {"prepared", "validating", "mark", "commit", "replace",
               "rename"} =>
         \A a \in Artifacts : staging.content[a] # "absent"
    /\ pc \in {"mark", "commit", "replace", "rename"} => staging.validated

LEMMA InitVerified == Init => Verified
<1> SUFFICES ASSUME Init PROVE Verified
  OBVIOUS
<1>1. packages \in [Releases -> PackageStates \ {"tainted"}]
  BY DisksAssumption DEF Init, LegacyDisk
<1>2. QED
  BY <1>1 DEF Init, Verified, NoUnverifiedActivation, Nothing

LEMMA NextVerified ==
    TypeOK /\ Verified /\ [Next]_vars => Verified'
<1> SUFFICES ASSUME TypeOK, Verified, [Next]_vars PROVE Verified'
  OBVIOUS
<1> USE DEF Verified, NoUnverifiedActivation
<1>1. ASSUME pc' = "idle", staging' = Nothing, packages' = packages
      PROVE  Verified'
  BY <1>1 DEF Nothing
<1>2. ASSUME UNCHANGED <<staging, packages>>, pc' \in {"failing", "upload",
               "begin", "plan", "parse", "entries", "union", "select"}
      PROVE  Verified'
  BY <1>2
<1>3. ASSUME UNCHANGED <<pc, staging, packages, archives, pending>>
      PROVE  Verified'
  BY <1>3
<1>4. ASSUME NEW o, NEW state, Finish(o, state), packages' = packages
      PROVE  Verified'
  BY <1>1, <1>4 DEF Finish, Complete
<1>5. ASSUME NEW c \in Callers, Caller(c) PROVE Verified'
  <2>1. ASSUME NEW r \in Requests, StartReady(c, r) PROVE Verified'
    BY <1>3, <2>1 DEF StartReady, worker
  <2>2. ASSUME NEW r \in Requests, NEW x \in Sources, Start(c, r, x)
        PROVE  Verified'
    BY <1>2, <1>4, <2>2 DEF Start, Accept, Refuse
  <2>3. ASSUME WriteChunk(c) PROVE Verified'
    BY <1>3, <1>4, <2>3 DEF WriteChunk
  <2>4. ASSUME NEW e \in SUBSET Artifacts, CompleteUpload(c, e)
        PROVE  Verified'
    BY <1>2, <1>4, <2>4 DEF CompleteUpload
  <2>5. ASSUME Cancel(c) PROVE Verified'
    BY <1>3, <1>4, <2>5 DEF Cancel, Stop
  <2>6. QED
    BY <1>5, <2>1, <2>2, <2>3, <2>4, <2>5 DEF Caller, Upload
<1>6. ASSUME Worker PROVE Verified'
  <2>1. CASE Checking \/ Downloading \/ Installing \/ Validating
    BY <2>1 DEF Checking, Downloading, Installing, Validating, Stage
  <2>2. CASE Err \/ Parse \/ EntriesRead
    BY <1>2, <2>2 DEF Err, Parse, EntriesRead, Step, disk
  <2>3. CASE Plan
    BY <2>3 DEF Plan, Step, Missing, disk
  <2>4. ASSUME NEW a \in Artifacts, Fetch(a) \/ ReadEntry(a)
        PROVE  Verified'
    BY <2>4 DEF Fetch, ReadEntry, TypeOK
  <2>5. CASE Fetched \/ Union
    BY <2>5 DEF Fetched, Union, Step, Missing, disk
  <2>6. ASSUME NEW a \in Artifacts, Extract(a) PROVE Verified'
    BY <2>6 DEF Extract, Step, TypeOK, disk
  <2>7. CASE Prepare \/ Mark
    BY <2>7 DEF Prepare, Mark, Step, disk
  <2>8. CASE Validate
    <3>1. staging'.content = staging.content /\ staging'.validated
      BY <2>8 DEF Validate, TypeOK
    <3>2. QED
      BY <2>8, <3>1 DEF Validate, Step, disk
  <2>9. CASE Fail
    BY <1>4, <2>9 DEF Fail
  <2>10. CASE Commit
    BY <1>4, <2>10 DEF Commit, disk
  <2>11. CASE Replace
    <3>1. CASE Finish(op, "failed") /\ UNCHANGED packages
      BY <1>4, <3>1
    <3>2. CASE /\ packages' = IF Resolves(release) THEN packages
                              ELSE [packages EXCEPT ![release] = "absent"]
               /\ pc' = "rename"
               /\ UNCHANGED <<staging, archives>>
      <4>1. \A v \in Releases : packages'[v] # "tainted"
        BY <3>2 DEF TypeOK
      <4>2. QED
        BY <2>11, <3>2, <4>1 DEF Replace
    <3>3. QED
      BY <2>11, <3>1, <3>2 DEF Replace
  <2>12. CASE Rename
    <3>1. CASE Finish(op, "failed") /\ UNCHANGED packages
      BY <1>4, <3>1
    <3>2. CASE /\ packages' = [packages EXCEPT ![release] = Staged]
               /\ pc' = "select" /\ UNCHANGED staging
      <4>1. Staged = "usable"
        BY <2>12 DEF Staged, Rename, TypeOK, ArchiveStates
      <4>2. \A v \in Releases : packages'[v] # "tainted"
        BY <3>2, <4>1 DEF TypeOK
      <4>3. QED
        BY <3>2, <4>2
    <3>3. QED
      BY <2>12, <3>1, <3>2 DEF Rename
  <2>13. CASE Select
    BY <1>1, <1>4, <2>13 DEF Select, Complete
  <2>14. QED
    BY <1>6, <2>1, <2>2, <2>3, <2>4, <2>5, <2>6, <2>7, <2>8, <2>9, <2>10,
       <2>11, <2>12, <2>13 DEF Worker
<1>7. ASSUME NEW v \in Releases, Open(v) PROVE Verified'
  BY <1>3, <1>7 DEF Open, worker
<1>8. ASSUME CloseBegin PROVE Verified'
  BY <1>3, <1>4, <1>8 DEF CloseBegin, Stop, worker
<1>9. ASSUME CloseEnd \/ Crash PROVE Verified'
  BY <1>1, <1>9 DEF CloseEnd, Crash, Forget, Complete, disk
<1>10. ASSUME Observer PROVE Verified'
  BY <1>3, <1>10
     DEF Observer, Observing, Watch, Wake, Snapshot, disk, worker
<1>11. ASSUME NEW a \in Artifacts, Evict(a) PROVE Verified'
  BY <1>11 DEF Evict, Undisturbed, worker, TypeOK
<1>12. ASSUME NEW v \in Releases, Damage(v) PROVE Verified'
  BY <1>12 DEF Damage, Undisturbed, worker, TypeOK
<1>13. ASSUME UNCHANGED vars PROVE Verified'
  BY <1>3, <1>13 DEF vars, disk, worker
<1>14. QED
  BY <1>5, <1>6, <1>7, <1>8, <1>9, <1>10, <1>11, <1>12, <1>13
     DEF Next, Outside

\* Whatever is cancelled, evicted, retried or interrupted, a directory that
\* resolves was unpacked from verified archives and validated.
THEOREM NoUnverifiedActivationHolds == Spec => []NoUnverifiedActivation
<1>1. Spec => []Verified
  BY InitVerified, NextVerified, TypeCorrect, PTL DEF Spec
<1>2. QED
  BY <1>1, PTL DEF Verified

----------------------------------------------------------------------------
(* Selection: what the record selects, and what an older record implies.   *)

Usable(d) == d \in Releases /\ d \notin harmed => Resolves(d)

Selection ==
    /\ SelectionUsable
    /\ SelectionDurable
    /\ record.version \in {0, 1} => record.op.installed = None
    /\ record.version = 1 =>
         ~alive /\ (record.op.state = "ready" => Usable(record.op.package))
    /\ \A v \in Releases : packages[v] = "damaged" => v \in harmed
    /\ pc = "select" => Usable(release)

LEMMA InitSelection == Init => Selection
<1> SUFFICES ASSUME Init PROVE Selection
  OBVIOUS
<1>1. PICK d \in Disks : record = d.record /\ packages = d.packages
  BY DEF Init
<1>2. /\ record \in Record /\ record.op.installed = None
      /\ packages \in [Releases -> {"absent", "damaged", "usable"}]
      /\ (record.version = 1 /\ record.op.state = "ready"
            => packages[record.op.package] # "absent")
  BY <1>1, DisksAssumption DEF LegacyDisk, PackageStates
<1>3. record.op.package \in Releases
  BY <1>2 DEF Record, Operation
<1>4. harmed = {v \in Releases : packages[v] = "damaged"}
      /\ pc = "idle" /\ alive = FALSE
  BY DEF Init
<1>5. \A v \in Releases : packages[v] # "absent" => Usable(v)
  BY <1>2, <1>4 DEF Usable, Resolves
<1>6. QED
  BY <1>2, <1>3, <1>4, <1>5, ReleasesAssumption
     DEF Selection, SelectionUsable, SelectionDurable, Usable

\* A step that keeps the directories and the live selection may write the
\* record or not, but what it writes carries that selection.
LEMMA KeepSelection ==
    ASSUME TypeOK, Selection, alive,
           UNCHANGED <<packages, harmed, alive, release>>,
           op'.installed = op.installed,
           record' = record \/ (record'.version = 2 /\ record'.op = op'),
           pc' # "select"
    PROVE  Selection'
<1>1. \A v : Usable(v)' <=> Usable(v)
  BY DEF Usable, Resolves
<1>2. record.version = 1 => FALSE
  BY DEF Selection
<1>3. CASE record' = record
  BY <1>1, <1>2, <1>3
     DEF Selection, SelectionUsable, SelectionDurable, Usable, Resolves
<1>4. CASE record'.version = 2 /\ record'.op = op'
  <2>1. record'.op.installed = op.installed
    BY <1>4
  <2>2. op.installed # None => Usable(op.installed)
    BY DEF Selection, SelectionUsable, SelectionDurable, Usable
  <2>3. SelectionUsable' /\ SelectionDurable'
    BY <1>1, <1>4, <2>1, <2>2, ReleasesAssumption
       DEF SelectionUsable, SelectionDurable, Usable, Resolves
  <2>4. QED
    BY <1>1, <1>4, <2>3 DEF Selection
<1>5. QED
  BY <1>3, <1>4

\* A step that selects the current release, which is in place.
LEMMA SelectSelection ==
    ASSUME TypeOK, Selection, alive, Usable(release),
           UNCHANGED <<packages, harmed, alive, release>>,
           op'.installed = release, record'.version = 2, record'.op = op',
           pc' # "select"
    PROVE  Selection'
<1>1. \A v : Usable(v)' <=> Usable(v)
  BY DEF Usable, Resolves
<1>2. record'.op.installed = release
  OBVIOUS
<1>3. QED
  BY <1>1, <1>2
     DEF Selection, SelectionUsable, SelectionDurable, Usable, Resolves

LEMMA OpenSelection ==
    ASSUME TypeOK, Control, Selection, NEW v \in Releases, Open(v)
    PROVE  Selection'
<1>1. PICK o \in Adopted(v) :
        /\ op'.installed = o.installed
        /\ op' \in Operation
        /\ IF Upgrades(o) THEN Publish(op') ELSE Unpublished
  BY OpenEffect
<1>2. /\ UNCHANGED <<packages, harmed>> /\ alive' /\ ~alive
      /\ pc' = "idle"
  BY DEF Open, worker, Control, Running
<1>3. \A d : Usable(d)' <=> Usable(d)
  BY <1>2 DEF Usable, Resolves
<1>4. CASE record.version = 2
  <2>1. record' = record
    BY <1>1, <1>4 DEF Upgrades, Unpublished
  <2>2. op'.installed \in {None, record.op.installed}
    <3>1. o = Saved(v) \/ o = AdoptRetired(v, Saved(v))
      BY <1>4 DEF Adopted
    <3>2. Saved(v) = record.op
      BY <1>4 DEF Saved
    <3>3. AdoptRetired(v, Saved(v)).installed \in {None, record.op.installed}
      BY <3>2 DEF AdoptRetired, Blank
    <3>4. QED
      BY <1>1, <3>1, <3>2, <3>3
  <2>3. QED
    BY <1>2, <1>3, <1>4, <2>1, <2>2
       DEF Selection, SelectionUsable, SelectionDurable, Usable, Resolves
<1>5. CASE record.version \in {0, 1}
  <2>1. /\ Saved(v).installed = None
        /\ Saved(v).package \in Releases
        /\ (Saved(v).state = "ready" => Usable(Saved(v).package))
    BY <1>5 DEF Saved, Blank, Selection, TypeOK, Record, Operation
  <2>2. o.installed # None => Usable(o.installed)
    <3>1. CASE o = AdoptRetired(v, Saved(v))
      BY <2>1, <3>1 DEF AdoptRetired, Blank
    <3>2. CASE \E d \in LegacySelections(v, Saved(v)) :
                 o = [Saved(v) EXCEPT !.installed = d]
      <4>1. PICK d \in LegacySelections(v, Saved(v)) :
                 o = [Saved(v) EXCEPT !.installed = d]
        BY <3>2
      <4>2. Saved(v) \in Operation
        BY BoundsAssumption
           DEF Saved, TypeOK, Record, Blank, Operation, States, RestStates
      <4>3. o.installed = d
        BY <4>1, <4>2 DEF Operation
      <4>4. d # None => Usable(d)
        <5>1. CASE Saved(v).state = "ready"
          BY <2>1, <5>1 DEF LegacySelections
        <5>2. CASE Saved(v).state # "ready"
          <6>1. \A i \in DOMAIN Known[v] : Known[v][i] \in Releases
            BY KnownReleases
          <6>2. \/ d = None
                \/ d \in Releases /\ (Resolves(d) \/ packages[d] # "absent")
            BY <5>2, <6>1 DEF LegacySelections
          <6>3. \A w \in Releases : packages[w] # "absent" => Usable(w)
            BY DEF Usable, Resolves, Selection, TypeOK, PackageStates
          <6>4. QED
            BY <6>2, <6>3 DEF Usable
        <5>3. QED
          BY <5>1, <5>2
      <4>5. QED
        BY <4>3, <4>4
    <3>3. QED
      BY <1>5, <3>1, <3>2 DEF Adopted
  <2>4. CASE Upgrades(o)
    <3>1. record'.version = 2 /\ record'.op = op'
      BY <1>1, <2>4 DEF Publish
    <3>2. record'.op.installed = o.installed
      BY <1>1, <3>1
    <3>3. QED
      BY <1>1, <1>2, <1>3, <2>2, <3>1, <3>2, ReleasesAssumption
         DEF Selection, SelectionUsable, SelectionDurable, Usable, Resolves
  <2>5. CASE ~Upgrades(o)
    <3>1. record' = record /\ record.version = 0 /\ op'.installed = None
      BY <1>1, <1>5, <2>5 DEF Upgrades, Unpublished
    <3>2. QED
      BY <1>2, <1>3, <3>1
         DEF Selection, SelectionUsable, SelectionDurable, Usable, Resolves
  <2>6. QED
    BY <2>4, <2>5
<1>6. QED
  BY <1>4, <1>5 DEF TypeOK, Record

LEMMA FinishSelection ==
    ASSUME TypeOK, Selection, alive,
           UNCHANGED <<packages, harmed, alive, release>>,
           NEW o \in Operation, NEW state \in RestStates, Finish(o, state),
           o.installed = op.installed
    PROVE  Selection'
<1>1. op'.installed = op.installed /\ pc' = "idle"
      /\ (record' = record \/ record' = [version |-> 2, op |-> op'])
  BY FinishEffect
<1>2. QED
  BY <1>1, KeepSelection

LEMMA CallerSelection ==
    ASSUME TypeOK, Control, Selection, NEW c \in Callers, Caller(c)
    PROVE  Selection'
<1>0. op \in Operation /\ "failed" \in RestStates /\ release \in Releases
  BY DEF TypeOK, RestStates
<1>1. ASSUME NEW r \in Requests, StartReady(c, r) PROVE Selection'
  <2>1. /\ alive /\ Resolves(release) /\ op'.installed = release
        /\ record'.version = 2 /\ record'.op = op' /\ pc' # "select"
        /\ UNCHANGED <<packages, harmed, alive, release>>
    BY <1>0, <1>1
       DEF StartReady, Admits, Locked, Publish, Operation, worker, history
  <2>2. QED
    BY <2>1, SelectSelection DEF Usable
<1>2. ASSUME NEW r \in Requests, NEW s \in Sources, Start(c, r, s)
      PROVE  Selection'
  <2> DEFINE o == Request(c, r, s)
  <2>1. alive /\ UNCHANGED <<packages, harmed, alive, release>>
    BY <1>2 DEF Start, Admits
  <2>2. o.installed = op.installed /\ o \in Operation
    <3>1. ops + 1 \in 0..MaxOps
      BY <1>2, BoundsAssumption DEF Start, TypeOK
    <3>2. (IF s = "upload" THEN "receiving" ELSE "downloading") \in States
      BY DEF States, ActiveStates
    <3>3. op.installed \in Releases \cup {None}
      BY DEF TypeOK, Operation
    <3>4. QED
      BY <1>0, <3>1, <3>2, <3>3 DEF Request, Operation
  <2>3. CASE Accept(c, r, s)
    <3>1. op' = o /\ record'.version = 2 /\ record'.op = op'
          /\ pc' # "select"
      BY <2>3 DEF Accept, Publish
    <3>2. QED
      BY <2>1, <2>2, <3>1, KeepSelection
  <2>4. CASE Refuse(c, r, s)
    BY <1>0, <2>1, <2>2, <2>4, FinishSelection DEF Refuse
  <2>5. QED
    BY <1>2, <2>3, <2>4 DEF Start
<1>3. ASSUME WriteChunk(c) \/ (\E e \in SUBSET Artifacts : CompleteUpload(c, e))
      PROVE  Selection'
  <2> DEFINE o == [op EXCEPT !.state = "verifying"]
  <2>1. /\ alive /\ UNCHANGED <<packages, harmed, alive, release>>
        /\ pc = "upload" /\ o \in Operation /\ o.installed = op.installed
    BY <1>0, <1>3 DEF WriteChunk, CompleteUpload, Authorized, Admits, history,
                      Operation, States, ActiveStates
  <2>2. CASE Finish(op, "failed") \/ Finish(o, "failed")
    BY <1>0, <2>1, <2>2, FinishSelection
  <2>3. CASE UNCHANGED <<record, op, pc>>
    BY <2>1, <2>3, KeepSelection
  <2>4. CASE op' = o /\ Publish(op') /\ pc' = "parse"
    <3>1. record'.version = 2 /\ record'.op = op'
      BY <2>4 DEF Publish
    <3>2. QED
      BY <2>1, <2>4, <3>1, KeepSelection
  <2>5. QED
    BY <1>3, <2>2, <2>3, <2>4 DEF WriteChunk, CompleteUpload
<1>4. ASSUME Cancel(c) PROVE Selection'
  <2>1. alive /\ ~Locked /\ UNCHANGED <<packages, harmed, alive, release>>
    BY <1>4 DEF Cancel, Authorized, Admits
  <2>2. CASE Finish(op, "cancelled")
    BY <1>0, <2>1, <2>2, FinishSelection DEF RestStates
  <2>3. CASE UNCHANGED <<record, op, pc>>
    BY <2>1, <2>3, KeepSelection DEF Locked
  <2>4. QED
    BY <1>4, <2>2, <2>3 DEF Cancel, Stop
<1>5. QED
  BY <1>1, <1>2, <1>3, <1>4 DEF Caller, Upload

LEMMA WorkerSelection ==
    ASSUME TypeOK, Control, Selection, Worker
    PROVE  Selection'
<1>0. /\ alive /\ op \in Operation /\ release \in Releases
      /\ UNCHANGED <<alive, release>>
  BY DEF Worker, Checking, Downloading, Installing, Validating, Stage, Plan,
         Fetched, Parse, EntriesRead, Union, Prepare, Mark, Err, Step, Fetch,
         ReadEntry, Extract, Validate, Fail, Commit, Replace, Rename, Select,
         TypeOK, Control, Running, Fallible
<1>1. ASSUME NEW state \in RestStates, Finish(op, state),
             UNCHANGED <<packages, harmed>>
      PROVE  Selection'
  BY <1>0, <1>1, FinishSelection
<1>2. ASSUME UNCHANGED <<record, op, packages, harmed>>, pc' # "select"
      PROVE  Selection'
  BY <1>0, <1>2, KeepSelection
<1>3. CASE Checking \/ Downloading \/ Installing \/ Validating
  <2>1. ASSUME NEW from, NEW state \in ActiveStates,
               NEW to \in {"plan", "fetch", "extract", "validating"},
               Stage(from, state, to)
        PROVE  Selection'
    <3>1. /\ op'.installed = op.installed /\ pc' # "select"
          /\ record' = record \/ (record'.version = 2 /\ record'.op = op')
          /\ UNCHANGED <<packages, harmed>>
      BY <1>0, <2>1 DEF Stage, Publish, Unpublished, Operation, history
    <3>2. QED
      BY <1>0, <3>1, KeepSelection
  <2>2. QED
    BY <1>3, <2>1
       DEF Checking, Downloading, Installing, Validating, ActiveStates
<1>4. CASE \/ Plan \/ Fetched \/ Parse \/ EntriesRead \/ Union \/ Prepare
           \/ Mark \/ Err \/ Validate
           \/ \E a \in Artifacts : Fetch(a) \/ ReadEntry(a) \/ Extract(a)
  BY <1>2, <1>4
     DEF Plan, Fetched, Parse, EntriesRead, Union, Prepare, Mark, Err, Step,
         Fetch, ReadEntry, Extract, Validate, disk, history
<1>5. CASE Fail
  BY <1>1, <1>5 DEF Fail, RestStates, history
<1>6. CASE Commit
  BY <1>1, <1>2, <1>6 DEF Commit, RestStates, disk, history
<1>7. CASE Replace
  <2>1. CASE Finish(op, "failed") /\ UNCHANGED packages
    BY <1>1, <1>7, <2>1 DEF Replace, RestStates, history
  <2>2. CASE /\ packages' = IF Resolves(release) THEN packages
                            ELSE [packages EXCEPT ![release] = "absent"]
             /\ UNCHANGED <<record, op, harmed>>
             /\ pc' = "rename"
    <3>1. \A v \in Releases : Resolves(v) => Resolves(v)'
      BY <2>2 DEF Resolves, TypeOK
    <3>2. \A v \in Releases : packages'[v] = "damaged" => v \in harmed'
      BY <2>2 DEF Selection, TypeOK
    <3>3. \A v : Usable(v) => Usable(v)'
      BY <2>2, <3>1 DEF Usable
    <3>4. QED
      BY <1>0, <2>2, <3>1, <3>2, <3>3
         DEF Selection, SelectionUsable, SelectionDurable, TypeOK, Record,
             Operation
  <2>3. QED
    BY <1>7, <2>1, <2>2 DEF Replace, history
<1>8. CASE Rename
  <2>1. CASE Finish(op, "failed") /\ UNCHANGED <<packages, harmed>>
    BY <1>1, <1>8, <2>1 DEF Rename, RestStates
  <2>2. CASE /\ packages' = [packages EXCEPT ![release] = Staged]
             /\ harmed' = harmed \ {release}
             /\ UNCHANGED <<record, op>>
    <3>1. Staged \in {"usable", "tainted"}
      BY DEF Staged
    <3>2. \A v \in Releases :
            /\ packages'[v] = IF v = release THEN Staged ELSE packages[v]
            /\ v \in harmed' <=> v \in harmed /\ v # release
      BY <1>0, <2>2 DEF TypeOK
    <3>3. \A v : Usable(v) => Usable(v)'
      BY <3>1, <3>2 DEF Usable, Resolves
    <3>4. Usable(release)'
      BY <1>0, <3>1, <3>2 DEF Usable, Resolves
    <3>5. \A v \in Releases : packages'[v] = "damaged" => v \in harmed'
      BY <3>1, <3>2 DEF Selection
    <3>6. QED
      BY <1>0, <2>2, <3>3, <3>4, <3>5
         DEF Selection, SelectionUsable, SelectionDurable, Usable
  <2>3. QED
    BY <1>8, <2>1, <2>2 DEF Rename
<1>9. CASE Select
  <2>1. UNCHANGED <<packages, harmed>>
    BY <1>9 DEF Select, history
  <2>2. CASE Finish(op, "failed")
    BY <1>1, <2>1, <2>2 DEF RestStates
  <2>3. CASE /\ op' = [op EXCEPT !.installed = release, !.state = "ready"]
             /\ Publish(op')
             /\ Complete
    <3>1. /\ op'.installed = release /\ record'.version = 2
          /\ record'.op = op' /\ pc' # "select"
      BY <1>0, <2>3 DEF Operation, Publish, Complete
    <3>2. Usable(release)
      BY <1>9 DEF Select, Selection
    <3>3. QED
      BY <1>0, <2>1, <3>1, <3>2, SelectSelection
  <2>4. QED
    BY <1>9, <2>2, <2>3 DEF Select
<1>10. QED
  BY <1>3, <1>4, <1>5, <1>6, <1>7, <1>8, <1>9 DEF Worker

LEMMA NextSelection ==
    TypeOK /\ Control /\ Selection /\ [Next]_vars => Selection'
<1> SUFFICES ASSUME TypeOK, Control, Selection, [Next]_vars
             PROVE  Selection'
  OBVIOUS
<1>1. ASSUME CloseBegin PROVE Selection'
  <2>1. /\ alive /\ ~Locked /\ UNCHANGED <<packages, harmed, alive, release>>
        /\ op \in Operation /\ "interrupted" \in RestStates
    BY <1>1 DEF CloseBegin, Admits, history, TypeOK, RestStates
  <2>2. CASE Finish(op, "interrupted")
    BY <2>1, <2>2, FinishSelection
  <2>3. CASE UNCHANGED <<record, op, pc>>
    BY <2>1, <2>3, KeepSelection DEF Locked
  <2>4. QED
    BY <1>1, <2>2, <2>3 DEF CloseBegin, Stop, worker
<1>2. ASSUME CloseEnd \/ Crash PROVE Selection'
  <2>1. /\ UNCHANGED <<record, packages, harmed, release>>
        /\ alive' = FALSE /\ pc' = "idle"
    BY <1>2 DEF CloseEnd, Crash, Forget, Complete, disk, history
  <2>2. QED
    BY <2>1 DEF Selection, SelectionUsable, SelectionDurable, Usable, Resolves
<1>3. ASSUME UNCHANGED <<record, op, alive, packages, harmed, release, pc>>
      PROVE  Selection'
  BY <1>3 DEF Selection, SelectionUsable, SelectionDurable, Usable, Resolves
<1>4. ASSUME NEW v \in Releases, Damage(v) PROVE Selection'
  <2>1. \A w \in Releases :
          /\ packages'[w] = IF w = v THEN "damaged" ELSE packages[w]
          /\ w \in harmed' <=> w \in harmed \/ w = v
    BY <1>4 DEF Damage, TypeOK
  <2>2. \A w : Usable(w) => Usable(w)'
    BY <2>1 DEF Usable, Resolves
  <2>3. \A w \in Releases : packages'[w] = "damaged" => w \in harmed'
    BY <2>1 DEF Selection
  <2>4. QED
    BY <1>4, <2>2, <2>3
       DEF Damage, Undisturbed, worker, Selection, SelectionUsable,
           SelectionDurable, Usable
<1>5. ASSUME Observer \/ (\E a \in Artifacts : Evict(a)) \/ UNCHANGED vars
      PROVE  Selection'
  BY <1>3, <1>5
     DEF Observer, Observing, Watch, Wake, Snapshot, Evict, Undisturbed,
         vars, disk, worker, observer, history
<1>6. QED
  BY <1>1, <1>2, <1>4, <1>5, OpenSelection, CallerSelection, WorkerSelection
     DEF Next, Outside

\* The selection in memory, the recorded one and the package directories agree.
THEOREM SelectionHolds == Spec => []Selection
BY InitSelection, NextSelection, TypeCorrect, ControlHolds, PTL DEF Spec

\* The recorded selection resolves unless it was damaged from outside.
THEOREM SelectionUsableHolds == Spec => []SelectionUsable
BY SelectionHolds, PTL DEF Selection

\* What Directory hands out is what a crash and a restart would find.
THEOREM SelectionDurableHolds == Spec => []SelectionDurable
BY SelectionHolds, PTL DEF Selection

\* Both, for every crash, restart and release: the selection survives.
THEOREM SelectionKeptHolds == Spec => []SelectionKept
BY SelectionUsableHolds, SelectionDurableHolds, PTL DEF SelectionKept

----------------------------------------------------------------------------
(* Requests: the last accepted request stays on record until another takes *)
(* its place, so that its repetition is recognized after a crash too.      *)

Requested(o) == <<o.owner, o.request>>

Remembered ==
    accepted # None => /\ record.version = 2
                       /\ Requested(record.op) = accepted
                       /\ alive => Requested(op) = accepted

\* A step that keeps the live operation's request, whatever it writes.
LEMMA KeepRequest ==
    ASSUME Remembered, alive, accepted' \in {None, accepted},
           accepted' = None \/ Requested(op') = Requested(op),
           record' = record \/ (record'.version = 2 /\ record'.op = op')
    PROVE  Remembered'
BY DEF Remembered, Requested

LEMMA NextRemembered ==
    TypeOK /\ Control /\ Remembered /\ [Next]_vars => Remembered'
<1> SUFFICES ASSUME TypeOK, Control, Remembered, [Next]_vars
             PROVE  Remembered'
  OBVIOUS
<1>0. op \in Operation /\ "failed" \in RestStates
  BY DEF TypeOK, RestStates
<1>1. ASSUME alive, NEW o \in Operation, NEW state \in RestStates,
             Finish(o, state), accepted' \in {None, accepted},
             accepted' = None \/ Requested(o) = Requested(op)
      PROVE  Remembered'
  <2>1. Requested(op') = Requested(o)
        /\ (record' = record \/ record' = [version |-> 2, op |-> op'])
    BY <1>1, FinishEffect DEF Requested
  <2>2. QED
    BY <1>1, <2>1, KeepRequest
<1>2. ASSUME UNCHANGED <<record, op, alive, accepted>> PROVE Remembered'
  BY <1>2 DEF Remembered, Requested
<1>3. ASSUME NEW c \in Callers, Caller(c) PROVE Remembered'
  <2>0. alive
    BY <1>3 DEF Caller, Upload, StartReady, Start, WriteChunk, CompleteUpload,
                Cancel, Authorized, Admits
  <2>1. ASSUME NEW r \in Requests, StartReady(c, r) PROVE Remembered'
    <3>1. Requested(op') = Requested(op) /\ accepted' = accepted
          /\ record'.version = 2 /\ record'.op = op'
      BY <1>0, <2>1 DEF StartReady, Publish, Operation, Requested, history
    <3>2. QED
      BY <2>0, <3>1, KeepRequest
  <2>2. ASSUME NEW r \in Requests, NEW s \in Sources, Start(c, r, s)
        PROVE  Remembered'
    <3>1. CASE Accept(c, r, s)
      BY <3>1 DEF Accept, Publish, Request, Remembered, Requested
    <3>2. CASE Refuse(c, r, s)
      BY <3>2 DEF Refuse, Remembered
    <3>3. QED
      BY <2>2, <3>1, <3>2 DEF Start
  <2>3. ASSUME WriteChunk(c) PROVE Remembered'
    BY <1>0, <1>1, <1>2, <2>0, <2>3 DEF WriteChunk, history
  <2>4. ASSUME NEW e \in SUBSET Artifacts, CompleteUpload(c, e)
        PROVE  Remembered'
    <3> DEFINE o == [op EXCEPT !.state = "verifying"]
    <3>1. o \in Operation /\ Requested(o) = Requested(op)
      BY <1>0 DEF Operation, Requested, States, ActiveStates
    <3>2. CASE Finish(o, "failed")
      BY <1>0, <1>1, <2>0, <2>4, <3>1, <3>2 DEF CompleteUpload, history
    <3>3. CASE op' = o /\ Publish(op')
      <4>1. record'.version = 2 /\ record'.op = op' /\ accepted' = accepted
        BY <2>4, <3>3 DEF Publish, CompleteUpload, history
      <4>2. QED
        BY <2>0, <3>1, <3>3, <4>1, KeepRequest
    <3>4. QED
      BY <2>4, <3>2, <3>3 DEF CompleteUpload
  <2>5. ASSUME Cancel(c) PROVE Remembered'
    BY <1>0, <1>1, <1>2, <2>0, <2>5 DEF Cancel, Stop, RestStates
  <2>6. QED
    BY <1>3, <2>1, <2>2, <2>3, <2>4, <2>5 DEF Caller, Upload
<1>4. ASSUME Worker PROVE Remembered'
  <2>0. alive /\ UNCHANGED <<alive, accepted>>
    BY <1>4
       DEF Worker, Checking, Downloading, Installing, Validating, Stage, Plan,
           Fetched, Parse, EntriesRead, Union, Prepare, Mark, Err, Step,
           Fetch, ReadEntry, Extract, Validate, Fail, Commit, Replace, Rename,
           Select, Control, Running, Fallible, history
  <2>1. ASSUME NEW from, NEW state \in ActiveStates,
               NEW to \in {"plan", "fetch", "extract", "validating"},
               Stage(from, state, to)
        PROVE  Remembered'
    <3>1. Requested(op') = Requested(op)
          /\ (record' = record \/ (record'.version = 2 /\ record'.op = op'))
      BY <1>0, <2>1 DEF Stage, Publish, Unpublished, Operation, Requested
    <3>2. QED
      BY <2>0, <3>1, KeepRequest
  <2>2. CASE Checking \/ Downloading \/ Installing \/ Validating
    BY <2>1, <2>2
       DEF Checking, Downloading, Installing, Validating, ActiveStates
  <2>3. ASSUME NEW state \in RestStates, Finish(op, state)
        PROVE  Remembered'
    BY <1>0, <1>1, <2>0, <2>3
  <2>4. CASE UNCHANGED <<record, op>>
    BY <1>2, <2>0, <2>4
  <2>5. CASE Fail \/ Commit \/ Replace \/ Rename
    BY <2>3, <2>4, <2>5 DEF Fail, Commit, Replace, Rename, RestStates, disk
  <2>6. CASE Select
    <3>1. CASE op' = [op EXCEPT !.installed = release, !.state = "ready"]
               /\ Publish(op')
      <4>1. Requested(op') = Requested(op)
            /\ record'.version = 2 /\ record'.op = op'
        BY <1>0, <3>1 DEF Publish, Operation, Requested
      <4>2. QED
        BY <2>0, <4>1, KeepRequest
    <3>2. QED
      BY <2>3, <2>6, <3>1 DEF Select, RestStates
  <2>7. QED
    BY <1>4, <2>2, <2>4, <2>5, <2>6
       DEF Worker, Plan, Fetched, Parse, EntriesRead, Union, Prepare, Mark,
           Err, Step, Fetch, ReadEntry, Extract, Validate, disk
<1>5. ASSUME NEW v \in Releases, Open(v) PROVE Remembered'
  <2>1. PICK o \in Adopted(v) :
          /\ \/ op'.owner = None
             \/ /\ op'.owner = record.op.owner
                /\ op'.request = record.op.request
          /\ IF Upgrades(o) THEN Publish(op') ELSE Unpublished
    BY <1>5, OpenEffect
  <2>2. accepted' = IF op'.owner = None THEN None ELSE accepted
    BY <1>5 DEF Open
  <2>3. record' = record \/ (record'.version = 2 /\ record'.op = op')
    BY <2>1 DEF Publish, Unpublished
  <2>4. QED
    BY <2>1, <2>2, <2>3 DEF Remembered, Requested
<1>6. ASSUME CloseBegin PROVE Remembered'
  BY <1>0, <1>1, <1>2, <1>6
     DEF CloseBegin, Admits, Stop, RestStates, history, worker
<1>7. ASSUME CloseEnd \/ Crash PROVE Remembered'
  BY <1>7 DEF CloseEnd, Crash, Forget, Remembered, disk, history
<1>8. ASSUME \/ Observer \/ (\E a \in Artifacts : Evict(a))
             \/ (\E v \in Releases : Damage(v)) \/ UNCHANGED vars
      PROVE  Remembered'
  BY <1>2, <1>8
     DEF Observer, Observing, Watch, Wake, Snapshot, Evict, Damage,
         Undisturbed, vars, disk, history
<1>9. QED
  BY <1>3, <1>4, <1>5, <1>6, <1>7, <1>8 DEF Next, Outside

\* The record names the last accepted request whatever crashed in between.
THEOREM RememberedHolds == Spec => []Remembered
<1>1. Init => Remembered
  BY DEF Init, Remembered
<1>2. QED
  BY <1>1, NextRemembered, TypeCorrect, ControlHolds, PTL DEF Spec

\* A repeated Start never runs a second operation, across crashes too.
THEOREM RetryHolds == Spec => RetryStartsNothing
<1> DEFINE A == ops' # ops /\ Running' => <<op'.owner, op'.request>> # accepted
<1>1. ASSUME TypeOK, Control, Remembered, [Next]_vars PROVE [A]_vars
  <2>1. ASSUME NEW c \in Callers, NEW r \in Requests, NEW s \in Sources,
               Start(c, r, s)
        PROVE  A
    <3>1. CASE Accept(c, r, s)
      <4>1. op'.owner = c /\ op'.request = r
        BY <3>1 DEF Accept, Request
      <4>2. alive /\ ~SameRequest(c, r)
        BY <2>1 DEF Start, Admits
      <4>3. CASE accepted = None
        BY <4>1, <4>3, OwnersAssumption
      <4>4. CASE accepted # None
        <5>1. accepted = <<op.owner, op.request>>
          BY <1>1, <4>2, <4>4 DEF Remembered, Requested
        <5>2. QED
          BY <4>1, <4>2, <5>1 DEF SameRequest
      <4>5. QED
        BY <4>3, <4>4
    <3>2. CASE Refuse(c, r, s)
      BY <3>2 DEF Refuse, Finish, Complete, Running
    <3>3. QED
      BY <2>1, <3>1, <3>2 DEF Start
  <2>2. \/ ops' = ops
        \/ \E c \in Callers, r \in Requests, s \in Sources : Start(c, r, s)
    BY <1>1
       DEF Next, Caller, Upload, StartReady, WriteChunk, CompleteUpload,
           Cancel, CloseBegin, CloseEnd, Crash, Forget, Open, Worker,
           Checking, Downloading, Installing, Validating, Stage, Plan,
           Fetched, Parse, EntriesRead, Union, Prepare, Mark, Err, Step,
           Fetch, ReadEntry, Extract, Validate, Fail, Commit, Replace, Rename,
           Select, Observer, Observing, Watch, Wake, Snapshot, Outside, Evict,
           Damage, Undisturbed, vars, disk, worker, observer, history
  <2>3. QED
    BY <2>1, <2>2
<1>2. QED
  BY <1>1, TypeCorrect, ControlHolds, RememberedHolds, PTL
     DEF Spec, RetryStartsNothing

\* What callers may rely on: an accepted Cancel and a repeated Start both hold,
\* across crashes, restarts and lost answers.
THEOREM RequestsHonouredHolds == Spec => RequestsHonoured
BY CancelledHolds, RetryHolds DEF RequestsHonoured

----------------------------------------------------------------------------
(* The observer.                                                           *)

LEMMA NextObserver ==
    TypeOK /\ Control /\ ObserverNotStale /\ [Next]_vars => ObserverNotStale'
<1> SUFFICES ASSUME TypeOK, Control, ObserverNotStale, [Next]_vars
             PROVE  ObserverNotStale'
  OBVIOUS
<1> USE DEF ObserverNotStale
<1>1. ASSUME watch' = watch, notified' = (watch # "none")
      PROVE  ObserverNotStale'
  BY <1>1
<1>2. ASSUME pc' # "idle" \/ ~alive' \/ watch' # "waiting" \/ notified'
      PROVE  ObserverNotStale'
  BY <1>2 DEF Running
<1>3. ASSUME UNCHANGED <<op, alive, pc, observer>> PROVE ObserverNotStale'
  BY <1>3 DEF Running, observer
<1>4. ASSUME NEW o, NEW state, Finish(o, state), watch' = watch
      PROVE  ObserverNotStale'
  BY <1>1, <1>4 DEF Finish, Publish, Notify
<1>5. ASSUME NEW c \in Callers, Caller(c) PROVE ObserverNotStale'
  <2>1. ASSUME NEW r \in Requests, StartReady(c, r)
        PROVE  ObserverNotStale'
    BY <1>1, <2>1 DEF StartReady, Publish, Notify
  <2>2. ASSUME NEW r \in Requests, NEW x \in Sources, Start(c, r, x)
        PROVE  ObserverNotStale'
    BY <1>2, <1>4, <2>2 DEF Start, Accept, Refuse
  <2>3. ASSUME WriteChunk(c) PROVE ObserverNotStale'
    BY <1>2, <1>4, <2>3 DEF WriteChunk
  <2>4. ASSUME NEW e \in SUBSET Artifacts, CompleteUpload(c, e)
        PROVE  ObserverNotStale'
    BY <1>2, <1>4, <2>4 DEF CompleteUpload
  <2>5. ASSUME Cancel(c) PROVE ObserverNotStale'
    <3>1. pc # "idle"
      BY <2>5 DEF Cancel, Control, NeverWedged, Running
    <3>2. QED
      BY <1>2, <1>4, <2>5, <3>1 DEF Cancel, Stop
  <2>6. QED
    BY <1>5, <2>1, <2>2, <2>3, <2>4, <2>5 DEF Caller, Upload
<1>6. ASSUME Worker PROVE ObserverNotStale'
  <2>1. CASE \/ Checking \/ Downloading \/ Installing \/ Validating
             \/ Plan \/ Fetched \/ Parse \/ EntriesRead \/ Union \/ Prepare
             \/ Mark \/ Err \/ Validate
             \/ \E a \in Artifacts : Fetch(a) \/ ReadEntry(a) \/ Extract(a)
    BY <1>2, <2>1
       DEF Checking, Downloading, Installing, Validating, Stage, Plan,
           Fetched, Parse, EntriesRead, Union, Prepare, Mark, Err, Step,
           Fetch, ReadEntry, Extract, Validate
  <2>2. CASE Fail \/ Commit \/ Replace \/ Rename
    BY <1>2, <1>4, <2>2 DEF Fail, Commit, Replace, Rename
  <2>3. CASE Select
    BY <1>1, <1>4, <2>3 DEF Select, Publish, Notify
  <2>4. QED
    BY <1>6, <2>1, <2>2, <2>3 DEF Worker
<1>7. ASSUME NEW v \in Releases, Open(v) PROVE ObserverNotStale'
  BY <1>2, <1>7 DEF Open, Control
<1>8. ASSUME CloseBegin PROVE ObserverNotStale'
  <2>1. CASE Active(op)
    <3>1. pc # "idle"
      BY <2>1 DEF Control, NeverWedged, Running
    <3>2. QED
      BY <1>2, <1>4, <1>8, <2>1, <3>1 DEF CloseBegin, Stop
  <2>2. CASE ~Active(op)
    BY <1>3, <1>8, <2>2 DEF CloseBegin, worker, observer
  <2>3. QED
    BY <2>1, <2>2
<1>9. ASSUME CloseEnd \/ Crash PROVE ObserverNotStale'
  BY <1>2, <1>9 DEF CloseEnd, Crash, Forget
<1>10. ASSUME Observer PROVE ObserverNotStale'
  BY <1>10 DEF Observer, Observing, Watch, Wake, Snapshot
<1>11. ASSUME \/ (\E a \in Artifacts : Evict(a))
              \/ (\E v \in Releases : Damage(v)) \/ UNCHANGED vars
       PROVE  ObserverNotStale'
  BY <1>3, <1>11 DEF Evict, Damage, Undisturbed, vars, worker
<1>12. QED
  BY <1>5, <1>6, <1>7, <1>8, <1>9, <1>10, <1>11 DEF Next, Outside

\* Notifications may be coalesced, but the last one is never lost.
THEOREM ObserverHolds == Spec => []ObserverNotStale
<1>1. Init => ObserverNotStale
  BY DEF Init, ObserverNotStale
<1>2. QED
  BY <1>1, NextObserver, TypeCorrect, ControlHolds, PTL DEF Spec

----------------------------------------------------------------------------
(* The contract.                                                           *)

\* The initial state of Preparation is one of the contract.
LEMMA InitContract == Init => Contract!Init
<1> SUFFICES ASSUME Init PROVE Contract!Init
  OBVIOUS
<1>1. record.op.installed = None /\ op.installed = None /\ ~alive
      /\ release \in Releases
  BY DisksAssumption DEF Init, LegacyDisk, Blank
<1>2. QED
  BY <1>1 DEF Contract!Init

\* Steps that end, begin or carry on an operation without a new selection.
LEMMA PhaseSteps ==
    ASSUME TypeOK, Control, alive, alive' = alive, release' = release,
           packages' = packages, op'.installed = op.installed,
           record' = record \/ record'.op = op'
    PROVE  /\ Running /\ pc' = "idle" => Contract!GiveUp
           /\ ~Running /\ (~Running' \/ (~Locked' /\ ~stopped'))
                => Contract!Begin
           /\ Running /\ ~Locked /\ Running' /\ ~Locked' /\ stopped' = stopped
                => Contract!Work
<1>1. record'.op.installed \in {record.op.installed, op.installed}
  OBVIOUS
<1>2. {v \in Releases : Resolves(v)}' = {v \in Releases : Resolves(v)}
  BY DEF Resolves
<1> USE <1>1, <1>2 DEF Contract!Write, Running, Locked
<1>3. ASSUME Running, pc' = "idle" PROVE Contract!GiveUp
  BY <1>3 DEF Contract!GiveUp
<1>4. ASSUME ~Running, ~Running' \/ (~Locked' /\ ~stopped')
      PROVE  Contract!Begin
  BY <1>4 DEF Contract!Begin
<1>5. ASSUME Running, ~Locked, Running', ~Locked', stopped' = stopped
      PROVE  Contract!Work
  BY <1>5 DEF Contract!Work
<1>6. QED
  BY <1>3, <1>4, <1>5

\* Finishing gives the operation up, or refuses one that never began.
LEMMA FinishContract ==
    ASSUME TypeOK, Control, alive, alive' = alive, release' = release,
           packages' = packages, NEW o \in Operation, NEW state \in RestStates,
           Finish(o, state), o.installed = op.installed
    PROVE  Contract!GiveUp \/ Contract!Begin
<1>1. /\ op'.installed = op.installed /\ pc' = "idle"
      /\ record' = record \/ record' = [version |-> 2, op |-> op']
  BY FinishEffect
<1>2. record' = record \/ record'.op = op'
  BY <1>1
<1>3. ~Running'
  BY <1>1 DEF Running
<1>4. QED
  BY <1>1, <1>2, <1>3, PhaseSteps

\* Steps that the contract does not see.
LEMMA StutterContract ==
    ASSUME UNCHANGED <<record, packages, alive, release, op, pc, stopped>>
    PROVE  UNCHANGED Contract!vars
BY DEF Contract!vars, Resolves, Running, Locked

LEMMA CallerContract ==
    ASSUME TypeOK, Control, NEW c \in Callers, Caller(c)
    PROVE  [Contract!Next]_Contract!vars
<1>0. /\ alive /\ ~Locked /\ op \in Operation /\ "failed" \in RestStates
      /\ UNCHANGED <<alive, release, packages>> /\ release \in Releases
  BY DEF Caller, Upload, StartReady, Start, WriteChunk, CompleteUpload, Cancel,
         Authorized, Admits, TypeOK, RestStates
<1>1. ASSUME NEW r \in Requests, StartReady(c, r) PROVE Contract!Select
  <2>1. /\ op'.installed = release /\ record'.op.installed = release
        /\ ~Running /\ pc' = pc /\ Resolves(release)
    BY <1>0, <1>1
       DEF StartReady, Publish, Operation, worker, Control, NeverWedged
  <2>2. {v \in Releases : Resolves(v)}' = {v \in Releases : Resolves(v)}
    BY <1>0 DEF Resolves
  <2>3. QED
    BY <1>0, <2>1, <2>2 DEF Contract!Select, Running
<1>2. ASSUME NEW r \in Requests, NEW s \in Sources, Start(c, r, s)
      PROVE  Contract!Next
  <2> DEFINE o == Request(c, r, s)
  <2>1. o.installed = op.installed /\ o \in Operation
    <3>1. ops + 1 \in 0..MaxOps
      BY <1>2, BoundsAssumption DEF Start, TypeOK
    <3>2. (IF s = "upload" THEN "receiving" ELSE "downloading") \in States
      BY DEF States, ActiveStates
    <3>3. op.installed \in Releases \cup {None}
      BY DEF TypeOK, Operation
    <3>4. QED
      BY <1>0, <3>1, <3>2, <3>3 DEF Request, Operation
  <2>2. CASE Accept(c, r, s)
    <3>1. /\ op' = o /\ record'.op = op' /\ pc' \in {"upload", "begin"}
          /\ stopped' = stopped
      BY <2>2 DEF Accept, Publish
    <3>2. ~Running /\ ~stopped
      BY <1>2 DEF Start, Control, NeverWedged
    <3>3. ~Locked' /\ ~stopped'
      BY <3>1, <3>2 DEF Locked
    <3>4. Contract!Begin
      BY <1>0, <2>1, <3>1, <3>2, <3>3, PhaseSteps
    <3>5. QED
      BY <3>4 DEF Contract!Next
  <2>3. CASE Refuse(c, r, s)
    BY <1>0, <2>1, <2>3, FinishContract DEF Refuse, Contract!Next
  <2>4. QED
    BY <1>2, <2>2, <2>3 DEF Start
<1>3. ASSUME WriteChunk(c) PROVE [Contract!Next]_Contract!vars
  <2>1. CASE Finish(op, "failed")
    BY <1>0, <2>1, FinishContract DEF Contract!Next
  <2>2. CASE UNCHANGED <<record, op, pc, stopped>>
    BY <1>0, <2>2, StutterContract
  <2>3. QED
    BY <1>3, <2>1, <2>2 DEF WriteChunk
<1>4. ASSUME NEW e \in SUBSET Artifacts, CompleteUpload(c, e)
      PROVE  Contract!Next
  <2> DEFINE o == [op EXCEPT !.state = "verifying"]
  <2>1. o \in Operation /\ o.installed = op.installed
    BY <1>0 DEF Operation, States, ActiveStates
  <2>2. CASE Finish(o, "failed")
    BY <1>0, <2>1, <2>2, FinishContract DEF Contract!Next
  <2>3. CASE op' = o /\ Publish(op') /\ pc' = "parse" /\ stopped' = stopped
    <3>1. record'.op = op' /\ Running /\ Running' /\ ~Locked'
      BY <1>4, <2>3 DEF Publish, CompleteUpload, Running, Locked
    <3>2. Contract!Work
      BY <1>0, <2>1, <2>3, <3>1, PhaseSteps
    <3>3. QED
      BY <3>2 DEF Contract!Next
  <2>4. QED
    BY <1>4, <2>2, <2>3 DEF CompleteUpload
<1>5. ASSUME Cancel(c) PROVE [Contract!Next]_Contract!vars
  <2>1. CASE Finish(op, "cancelled")
    BY <1>0, <2>1, FinishContract DEF Contract!Next, RestStates
  <2>2. CASE stopped' = TRUE /\ UNCHANGED <<record, op, pc>>
    <3>1. Running
      BY <1>5 DEF Cancel, Control, NeverWedged
    <3>2. {v \in Releases : Resolves(v)}' = {v \in Releases : Resolves(v)}
      BY <1>0 DEF Resolves
    <3>3. Contract!Stop \/ UNCHANGED Contract!vars
      BY <1>0, <2>2, <3>1, <3>2
         DEF Contract!Stop, Contract!vars, Running, Locked, TypeOK
    <3>4. QED
      BY <3>3 DEF Contract!Next
  <2>3. QED
    BY <1>5, <2>1, <2>2 DEF Cancel, Stop
<1>6. QED
  BY <1>1, <1>2, <1>3, <1>4, <1>5 DEF Caller, Upload, Contract!Next

LEMMA WorkerContract ==
    ASSUME TypeOK, Control, Worker
    PROVE  [Contract!Next]_Contract!vars
<1>0. /\ alive /\ op \in Operation /\ release \in Releases /\ Running
      /\ UNCHANGED <<alive, release>>
  BY DEF Worker, Checking, Downloading, Installing, Validating, Stage, Plan,
         Fetched, Parse, EntriesRead, Union, Prepare, Mark, Err, Step, Fetch,
         ReadEntry, Extract, Validate, Fail, Commit, Replace, Rename, Select,
         TypeOK, Control, Running, Fallible
<1>1. ASSUME NEW state \in RestStates, Finish(op, state), packages' = packages
      PROVE  Contract!Next
  BY <1>0, <1>1, FinishContract DEF Contract!Next
<1>2. CASE Checking \/ Downloading \/ Installing \/ Validating
  <2>1. ASSUME NEW from \in {"begin", "planned", "install", "prepared"},
               NEW state \in ActiveStates,
               NEW to \in {"plan", "fetch", "extract", "validating"},
               Stage(from, state, to)
        PROVE  Contract!Next
    <3>1. /\ op'.installed = op.installed /\ packages' = packages
          /\ record' = record \/ record'.op = op'
          /\ ~Locked /\ Running' /\ ~Locked' /\ stopped' = stopped
      BY <1>0, <2>1
         DEF Stage, Publish, Unpublished, Operation, Locked, Running
    <3>2. Contract!Work
      BY <1>0, <3>1, PhaseSteps
    <3>3. QED
      BY <3>2 DEF Contract!Next
  <2>2. QED
    BY <1>2, <2>1
       DEF Checking, Downloading, Installing, Validating, ActiveStates
<1>3. CASE \/ Plan \/ Fetched \/ Parse \/ EntriesRead \/ Union \/ Prepare
           \/ Mark \/ Err \/ Validate
           \/ \E a \in Artifacts : Fetch(a) \/ ReadEntry(a) \/ Extract(a)
  <2>1. /\ UNCHANGED <<record, op, packages, stopped>>
        /\ ~Locked /\ ~Locked' /\ Running'
    BY <1>3
       DEF Plan, Fetched, Parse, EntriesRead, Union, Prepare, Mark, Err, Step,
           Fetch, ReadEntry, Extract, Validate, disk, Locked, Running,
           Fallible
  <2>2. {v \in Releases : Resolves(v)}' = {v \in Releases : Resolves(v)}
    BY <2>1 DEF Resolves
  <2>3. QED
    BY <1>0, <2>1, <2>2 DEF Contract!vars, Running, Locked
<1>4. CASE Fail
  BY <1>1, <1>4 DEF Fail, RestStates
<1>5. CASE Commit
  <2>1. CASE Finish(op, "cancelled") /\ packages' = packages
    BY <1>1, <2>1 DEF RestStates
  <2>2. CASE /\ ~stopped /\ pc' = "replace"
             /\ UNCHANGED <<record, packages, op, stopped>>
    <3>1. {v \in Releases : Resolves(v)}' = {v \in Releases : Resolves(v)}
      BY <2>2 DEF Resolves
    <3>2. Contract!Commit
      BY <1>0, <1>5, <2>2, <3>1 DEF Commit, Contract!Commit, Running, Locked
    <3>3. QED
      BY <3>2 DEF Contract!Next
  <2>3. QED
    BY <1>5, <2>1, <2>2 DEF Commit, disk
<1>6. CASE Replace
  <2>1. CASE Finish(op, "failed") /\ packages' = packages
    BY <1>1, <2>1 DEF RestStates
  <2>2. CASE /\ packages' = IF Resolves(release) THEN packages
                            ELSE [packages EXCEPT ![release] = "absent"]
             /\ pc' = "rename" /\ UNCHANGED <<record, op, stopped>>
    <3>1. {v \in Releases : Resolves(v)}' = {v \in Releases : Resolves(v)}
      BY <1>0, <2>2 DEF Resolves, TypeOK
    <3>2. UNCHANGED Contract!vars
      BY <1>0, <1>6, <2>2, <3>1 DEF Contract!vars, Replace, Running, Locked
    <3>3. QED
      BY <3>2
  <2>3. QED
    BY <1>6, <2>1, <2>2 DEF Replace
<1>7. CASE Rename
  <2>1. CASE Finish(op, "failed") /\ packages' = packages
    BY <1>1, <2>1 DEF RestStates
  <2>2. CASE /\ packages' = [packages EXCEPT ![release] = Staged]
             /\ pc' = "select" /\ UNCHANGED <<record, op, stopped>>
    <3>1. Staged \in {"usable", "tainted"}
      BY DEF Staged
    <3>2. {v \in Releases : Resolves(v)}'
            = {v \in Releases : Resolves(v)} \cup {release}
      BY <1>0, <2>2, <3>1 DEF Resolves, TypeOK
    <3>3. Contract!Place
      BY <1>0, <1>7, <2>2, <3>2 DEF Contract!Place, Rename, Running, Locked
    <3>4. QED
      BY <3>3 DEF Contract!Next
  <2>3. QED
    BY <1>7, <2>1, <2>2 DEF Rename
<1>8. CASE Select
  <2>1. packages' = packages
    BY <1>8 DEF Select
  <2>2. CASE Finish(op, "failed")
    BY <1>1, <2>1, <2>2 DEF RestStates
  <2>3. CASE /\ op' = [op EXCEPT !.installed = release, !.state = "ready"]
             /\ Publish(op')
             /\ Complete
    <3>1. /\ op'.installed = release /\ record'.op.installed = release
          /\ pc' = "idle" /\ pc = "select"
      BY <1>0, <1>8, <2>3 DEF Select, Operation, Publish, Complete
    <3>2. {v \in Releases : Resolves(v)}' = {v \in Releases : Resolves(v)}
      BY <2>1 DEF Resolves
    <3>3. Contract!Select
      BY <1>0, <3>1, <3>2 DEF Contract!Select, Running, Locked
    <3>4. QED
      BY <3>3 DEF Contract!Next
  <2>4. QED
    BY <1>8, <2>2, <2>3 DEF Select
<1>9. QED
  BY <1>2, <1>3, <1>4, <1>5, <1>6, <1>7, <1>8 DEF Worker

LEMMA NextContract ==
    TypeOK /\ Control /\ Selection /\ [Next]_vars
      => [Contract!Next]_Contract!vars
<1> SUFFICES ASSUME TypeOK, Control, Selection, [Next]_vars
             PROVE  [Contract!Next]_Contract!vars
  OBVIOUS
<1>1. ASSUME NEW v \in Releases, Open(v) PROVE Contract!Up
  <2>1. PICK o \in Adopted(v) :
          /\ op'.installed = o.installed /\ op' \in Operation
          /\ IF Upgrades(o) THEN Publish(op') ELSE Unpublished
    BY <1>1, OpenEffect
  <2>2. /\ ~alive /\ alive' /\ pc' = "idle" /\ release' = v
        /\ packages' = packages
    BY <1>1 DEF Open, worker, Control, Running
  <2>3. {w \in Releases : Resolves(w)}' = {w \in Releases : Resolves(w)}
    BY <2>2 DEF Resolves
  <2>4. op'.installed \in Releases \cup {None}
    BY <2>1 DEF Operation
  <2>5. \/ /\ op'.installed \in {record.op.installed, None}
           /\ record'.op.installed = record.op.installed
        \/ /\ record.op.installed = None
           /\ record'.op.installed = op'.installed
    <3>1. CASE record.version = 2
      <4>1. record' = record
        BY <2>1, <3>1 DEF Upgrades, Unpublished
      <4>2. Saved(v) = record.op
        BY <3>1 DEF Saved
      <4>3. o = Saved(v) \/ o = AdoptRetired(v, Saved(v))
        BY <3>1 DEF Adopted
      <4>4. AdoptRetired(v, Saved(v)).installed \in {None, record.op.installed}
        BY <4>2 DEF AdoptRetired, Blank
      <4>5. QED
        BY <2>1, <4>1, <4>2, <4>3, <4>4
    <3>2. CASE record.version \in {0, 1}
      <4>1. record.op.installed = None
        BY <3>2 DEF Selection
      <4>2. CASE Upgrades(o)
        <5>1. record'.op = op'
          BY <2>1, <4>2 DEF Publish
        <5>2. QED
          BY <4>1, <5>1
      <4>3. CASE ~Upgrades(o)
        BY <2>1, <3>2, <4>1, <4>3 DEF Upgrades, Unpublished
      <4>4. QED
        BY <4>2, <4>3
    <3>3. QED
      BY <3>1, <3>2 DEF TypeOK, Record
  <2>6. QED
    BY <2>2, <2>3, <2>4, <2>5 DEF Contract!Up, Running
<1>2. ASSUME CloseBegin PROVE [Contract!Next]_Contract!vars
  <2>1. /\ alive /\ ~Locked /\ op \in Operation /\ "interrupted" \in RestStates
        /\ UNCHANGED <<alive, release, packages>>
    BY <1>2 DEF CloseBegin, Admits, TypeOK, RestStates
  <2>2. CASE Finish(op, "interrupted")
    BY <2>1, <2>2, FinishContract DEF Contract!Next
  <2>3. CASE Active(op) /\ stopped' = TRUE /\ UNCHANGED <<record, op, pc>>
    <3>1. Running
      BY <2>3 DEF Control, NeverWedged
    <3>2. {v \in Releases : Resolves(v)}' = {v \in Releases : Resolves(v)}
      BY <2>1 DEF Resolves
    <3>3. Contract!Stop \/ UNCHANGED Contract!vars
      BY <2>1, <2>3, <3>1, <3>2
         DEF Contract!Stop, Contract!vars, Running, Locked, TypeOK
    <3>4. QED
      BY <3>3 DEF Contract!Next
  <2>4. CASE UNCHANGED <<record, op, worker>>
    BY <2>1, <2>4, StutterContract DEF worker
  <2>5. QED
    BY <1>2, <2>2, <2>3, <2>4 DEF CloseBegin, Stop, worker
<1>3. ASSUME CloseEnd \/ Crash PROVE Contract!Down
  <2>1. /\ alive /\ ~alive' /\ op'.installed = None
        /\ UNCHANGED <<record, packages, release>>
    BY <1>3 DEF CloseEnd, Crash, Forget, Blank, disk
  <2>2. {v \in Releases : Resolves(v)}' = {v \in Releases : Resolves(v)}
    BY <2>1 DEF Resolves
  <2>3. QED
    BY <2>1, <2>2 DEF Contract!Down, Running
<1>4. ASSUME NEW v \in Releases, Damage(v) PROVE Contract!Harm(v)
  <2>1. {w \in Releases : Resolves(w)}' = {w \in Releases : Resolves(w)} \ {v}
    BY <1>4 DEF Damage, Resolves, TypeOK
  <2>2. QED
    BY <1>4, <2>1
       DEF Damage, Undisturbed, Contract!Harm, worker, Running, Locked
<1>5. ASSUME Observer \/ (\E a \in Artifacts : Evict(a)) \/ UNCHANGED vars
      PROVE  UNCHANGED Contract!vars
  BY <1>5, StutterContract
     DEF Observer, Observing, Watch, Wake, Snapshot, Evict, Undisturbed,
         vars, disk, worker
<1>6. QED
  BY <1>1, <1>2, <1>3, <1>4, <1>5, CallerContract, WorkerContract
     DEF Next, Outside, Contract!Next

\* Every behaviour of the Manager is one of the contract: selections change
\* atomically, to a recipe that resolves, and never for a stopped operation.
THEOREM ContractHolds == Spec => ImplementsContract
BY InitContract, NextContract, TypeCorrect, ControlHolds, SelectionHolds, PTL
   DEF Spec, ImplementsContract, Contract!Spec

----------------------------------------------------------------------------
(* XpraInput, of the invariant in XpraInvariant: what the handlers do to a world. *)

\* The parts of a world
LEMMA LoopFields ==
  ASSUME NEW w \in Loops
  PROVE  /\ w.viewers \in [Viewers -> [open : BOOLEAN, failed : BOOLEAN]]
         /\ w.order \in Schedule /\ w.toolkit \in Modules /\ w.xim \in Focuses
         /\ w.toApp \in Seq(XpraEvent) /\ w.req \in [Stamps -> XpraRequest]
         /\ w.order.queue \subseteq Stamps /\ w.order.pending \in Stamps \cup {0}
         /\ w.order.token \in ICs \cup {"toolkit", None} /\ w.order.draining \in BOOLEAN /\ w.order.closed \in BOOLEAN
         /\ w.toolkit.module \in {"none", "ready", "unsupported"} /\ w.toolkit.last \in 0..MaxMarker
         /\ w.toolkit.text.op \in Stamps \cup {0} /\ w.toolkit.text.number \in 0..MaxMarker
         /\ w.toolkit.text.held \in BOOLEAN
         /\ w.xim.focused \in ICs \cup {None} /\ w.xim.supported \subseteq ICs /\ w.xim.cancelled \subseteq ICs
         /\ w.xim.ic \in ICs \cup {None} /\ w.xim.left \in 0..MaxFragments /\ w.xim.lost \in BOOLEAN
  BY DEF Loops, Schedule, Modules, Focuses

\* The parts of a request
LEMMA RequestFields ==
  ASSUME NEW w \in Loops, NEW s \in Stamps
  PROVE  /\ w.req[s] \in XpraRequest /\ w.req[s].owner \in Viewers \cup {0} /\ w.req[s].kind \in {"none", "text", "down"}
         /\ w.req[s].size \in 1..MaxFragments
         /\ w.req[s].status \in {"none", "queued", "issued", "confirmed", "failed", "refused"}
         /\ w.req[s].heard \in {"nothing", "success", "failure"}
  BY LoopFields DEF XpraRequest

\* What of a request stays
SameAsked(w, x, s) == /\ x.req[s].owner = w.req[s].owner /\ x.req[s].kind = w.req[s].kind
                         /\ x.req[s].size = w.req[s].size
\* No answer is owed to those of S any more.
Ends(w, x, S) == \A s \in Stamps :
  /\ SameAsked(w, x, s)
  /\ s \in S => x.req[s].status = IF w.req[s].status = "queued" THEN "refused" ELSE "failed"
  /\ s \notin S => x.req[s].status = w.req[s].status
OpenOnes(w) == {s \in Stamps : w.req[s].status \in {"queued", "issued"}}

\* GiveUp ends the requests it names, and nothing else.
LEMMA GaveUp ==
  ASSUME NEW w \in Loops, NEW S, NEW x, x = Xpra!GiveUp(w, S)
  PROVE  /\ x \in Loops /\ x.viewers = w.viewers /\ x.order = w.order /\ x.toolkit = w.toolkit
         /\ x.xim = w.xim /\ x.toApp = w.toApp
         /\ Ends(w, x, S) /\ \A s \in Stamps : x.req[s].heard = w.req[s].heard
<1>1. PICK r : r = [s \in Stamps |->
     IF s \in S THEN [w.req[s] EXCEPT !.status = IF w.req[s].status = "queued" THEN "refused" ELSE "failed"] ELSE w.req[s]]
  OBVIOUS
<1>2. x = [w EXCEPT !.req = r]
  BY <1>1 DEF Xpra!GiveUp
<1>3. ASSUME NEW s \in Stamps
      PROVE  r[s] \in XpraRequest /\ r[s].owner = w.req[s].owner /\ r[s].kind = w.req[s].kind
             /\ r[s].size = w.req[s].size /\ r[s].heard = w.req[s].heard
             /\ (s \in S => r[s].status = IF w.req[s].status = "queued" THEN "refused" ELSE "failed")
             /\ (s \notin S => r[s].status = w.req[s].status)
  <2>1. w.req[s] \in XpraRequest
    BY RequestFields
  <2>2. CASE s \in S
    <3>1. PICK t : t = IF w.req[s].status = "queued" THEN "refused" ELSE "failed"
      OBVIOUS
    <3>2. r[s] = [w.req[s] EXCEPT !.status = t]
      BY <1>1, <2>2, <3>1
    <3>3. t \in {"refused", "failed"}
      BY <3>1
    <3>4. QED
      BY <2>1, <2>2, <3>1, <3>2, <3>3 DEF XpraRequest
  <2>3. CASE s \notin S
    BY <1>1, <2>1, <2>3
  <2>4. QED
    BY <2>2, <2>3
<1>4. r \in [Stamps -> XpraRequest]
  <2>1. DOMAIN r = Stamps /\ r = [s \in Stamps |-> r[s]]
    BY <1>1
  <2>2. QED
    BY <1>3, <2>1
<1>5. x \in Loops /\ x.req = r /\ x.viewers = w.viewers /\ x.order = w.order /\ x.toolkit = w.toolkit
      /\ x.xim = w.xim /\ x.toApp = w.toApp
  BY <1>2, <1>4 DEF Loops
<1>6. QED
  BY <1>3, <1>5 DEF Ends, SameAsked

\* The text has left its adapter, and nobody waits for it.
Freed(w, x) ==
  /\ x \in Loops /\ x.viewers = w.viewers /\ x.toApp = w.toApp /\ x.req = w.req
  /\ x.order = [w.order EXCEPT !.pending = 0]
  /\ x.toolkit.module = w.toolkit.module /\ x.toolkit.last = w.toolkit.last
  /\ x.toolkit.text.op = 0 /\ x.toolkit.text.number <= w.toolkit.last /\ x.xim.ic = None
  /\ x.xim.focused = w.xim.focused /\ x.xim.supported = w.xim.supported /\ x.xim.lost = w.xim.lost
  /\ w.xim.cancelled \subseteq x.xim.cancelled /\ (w.xim.ic # None => w.xim.ic \in x.xim.cancelled)

\* CancelText frees the adapter of the text, and of no more.
LEMMA Cancelled ==
  ASSUME NEW w \in Loops, Adapted(w), NEW y, y = Xpra!CancelText([w EXCEPT !.order.pending = 0])
  PROVE  Freed(w, y)
<1> USE XpraAssumption
<1>1. PICK c : c = [w EXCEPT !.order.pending = 0]
  OBVIOUS
<1>2. c \in Loops /\ c.order = [w.order EXCEPT !.pending = 0] /\ c.order \in Schedule
      /\ c.viewers = w.viewers /\ c.toolkit = w.toolkit /\ c.xim = w.xim /\ c.toApp = w.toApp /\ c.req = w.req
      /\ c.order.token = w.order.token
  BY <1>1 DEF Loops, Schedule
<1>3. y = Xpra!CancelText(c)
  BY <1>1
<1>4. CASE w.order.token \in ICs
  <2>1. w.toolkit.text.op = 0 /\ w.toolkit.text.number <= w.toolkit.last
    BY <1>4 DEF Adapted
  <2>2. CASE w.xim.ic = w.order.token
    <3>1. y = [c EXCEPT !.xim.ic = None, !.xim.left = 0, !.xim.cancelled = @ \cup {w.order.token}]
      BY <1>2, <1>3, <1>4, <2>2 DEF Xpra!CancelText, Xpra!CancelXim
    <3>2. PICK f : f = [w.xim EXCEPT !.ic = None, !.left = 0, !.cancelled = @ \cup {w.order.token}]
      OBVIOUS
    <3>3. w.xim \in Focuses /\ 0 \in 0..MaxFragments /\ w.xim.cancelled \cup {w.order.token} \in SUBSET ICs
      BY <1>4, LoopFields
    <3>4. /\ f.ic = None /\ f.focused = w.xim.focused /\ f.supported = w.xim.supported /\ f.left = 0
          /\ f.lost = w.xim.lost /\ f.cancelled = w.xim.cancelled \cup {w.order.token}
      BY <3>2, <3>3 DEF Focuses
    <3>8. f \in Focuses
      BY <3>2, <3>3 DEF Focuses
    <3>5. y = [c EXCEPT !.xim = f]
      BY <1>2, <3>1, <3>2 DEF Loops
    <3>6. y \in Loops /\ y.xim = f /\ y.viewers = c.viewers /\ y.order = c.order /\ y.toolkit = c.toolkit
          /\ y.toApp = c.toApp /\ y.req = c.req
      BY <1>2, <3>5, <3>8 DEF Loops
    <3>7. QED
      BY <1>2, <2>1, <2>2, <3>4, <3>6 DEF Freed
  <2>3. CASE w.xim.ic # w.order.token
    <3>1. y = c
      BY <1>2, <1>3, <1>4, <2>3 DEF Xpra!CancelText, Xpra!CancelXim
    <3>2. w.xim.ic = None
      BY <2>3 DEF Adapted
    <3>3. QED
      BY <1>2, <2>1, <3>1, <3>2 DEF Freed
  <2>4. QED
    BY <2>2, <2>3
<1>5. CASE w.order.token \notin ICs
  <2>1. y = [c EXCEPT !.toolkit.text = Xpra!NoText]
    BY <1>2, <1>3, <1>5 DEF Xpra!CancelText, Xpra!CancelToolkit
  <2>2. w.xim.ic = None
    BY <1>5, LoopFields DEF Adapted
  <2>3. w.toolkit \in Modules /\ w.toolkit.last \in 0..MaxMarker /\ MaxMarker \in Nat
    BY LoopFields
  <2>4. PICK m : m = [w.toolkit EXCEPT !.text = Xpra!NoText]
    OBVIOUS
  <2>5. Xpra!NoText \in [op : Stamps \cup {0}, number : 0..MaxMarker, held : BOOLEAN]
        /\ Xpra!NoText.op = 0 /\ Xpra!NoText.number = 0
    BY <2>3 DEF Xpra!NoText
  <2>6. m \in Modules /\ m.module = w.toolkit.module /\ m.last = w.toolkit.last /\ m.text = Xpra!NoText
    BY <2>3, <2>4, <2>5 DEF Modules
  <2>7. y = [c EXCEPT !.toolkit = m]
    BY <1>2, <2>1, <2>4 DEF Loops
  <2>8. y \in Loops /\ y.xim = c.xim /\ y.viewers = c.viewers /\ y.order = c.order /\ y.toolkit = m
        /\ y.toApp = c.toApp /\ y.req = c.req
    BY <1>2, <2>6, <2>7 DEF Loops
  <2>9. m.text.number <= w.toolkit.last
    BY <2>3, <2>5, <2>6
  <2>10. QED
    BY <1>2, <2>2, <2>5, <2>6, <2>8, <2>9 DEF Freed
<1>6. QED
  BY <1>4, <1>5

\* CancelPending does so when a text is pending, and nothing otherwise.
LEMMA PendingCancelled ==
  ASSUME NEW w \in Loops, Adapted(w), NEW y, y = Xpra!CancelPending(w)
  PROVE  Freed(w, y)
<1>1. CASE w.order.pending = 0
  <2>1. y = w /\ w.order = [w.order EXCEPT !.pending = 0]
    BY <1>1, LoopFields DEF Xpra!CancelPending, Schedule
  <2>2. QED
    BY <1>1, <2>1 DEF Freed, Adapted
<1>2. CASE w.order.pending # 0
  BY <1>2, Cancelled DEF Xpra!CancelPending
<1>3. QED
  BY <1>1, <1>2

\* Requests were given up, and with them perhaps the text that was pending.
Cut(w, x) ==
  /\ x.toApp = w.toApp /\ w.toolkit.last <= x.toolkit.last /\ x.xim.supported = w.xim.supported
  /\ w.xim.cancelled \subseteq x.xim.cancelled /\ (w.xim.lost => x.xim.lost)
  /\ \A s \in Stamps :
       /\ SameAsked(w, x, s)
       /\ \/ x.req[s].status = w.req[s].status
          \/ w.req[s].status = "queued" /\ x.req[s].status = "refused"
          \/ w.req[s].status = "issued" /\ x.req[s].status = "failed"
  /\ \/ /\ x.toolkit.text.op = w.toolkit.text.op /\ x.order.pending = w.order.pending
        /\ w.toolkit.text.op # 0 => x.toolkit.text.number = w.toolkit.text.number
        /\ x.xim.ic = w.xim.ic /\ x.xim.left = w.xim.left
     \/ /\ x.order.pending = 0 /\ x.toolkit.text.op = 0 /\ x.xim.ic = None
        /\ w.xim.ic # None => w.xim.ic \in x.xim.cancelled
        /\ w.order.pending # 0 => x.req[w.order.pending].status \in {"failed", "refused"}

\* The events on their way
LEMMA EventPlaces ==
  ASSUME NEW w \in Loops
  PROVE  /\ Len(w.toApp) \in Nat
         /\ \A i \in 1..Len(w.toApp) : /\ w.toApp[i] \in XpraEvent /\ w.toApp[i].s \in Stamps
                                       /\ w.toApp[i].n \in 0..MaxMarker /\ w.toApp[i].ic \in ICs \cup {None}
<1>1. w.toApp \in Seq(XpraEvent)
  BY LoopFields
<1>2. Len(w.toApp) \in Nat /\ \A i \in 1..Len(w.toApp) : w.toApp[i] \in XpraEvent
  BY <1>1, LenProperties, ElementOfSeq
<1>3. QED
  BY <1>2 DEF XpraEvent

\* One that differs in the turn of the loop
LEMMA DrainingAlike ==
  ASSUME NEW h, NEW w, Core(w, h), NEW y \in Loops, NEW b \in BOOLEAN, y.order = [w.order EXCEPT !.draining = b],
         y.viewers = w.viewers, y.toolkit = w.toolkit, y.xim = w.xim, y.toApp = w.toApp, y.req = w.req
  PROVE  Core(y, h)
<1>1. w \in Loops /\ w.order \in Schedule
  BY LoopFields DEF Core
<1>2. y.order.queue = w.order.queue /\ y.order.pending = w.order.pending /\ y.order.token = w.order.token
      /\ y.order.closed = w.order.closed
  BY <1>1 DEF Schedule
<1>3. Stamped(y, h)
  BY <1>2 DEF Core, Stamped, Waits
<1>4. Bounded(y)
  BY <1>2 DEF Core, Bounded
<1>5. Owing(y)
  BY <1>2 DEF Core, Owing, Xpra!Available
<1>6. Sequenced(y)
  BY <1>2 DEF Core, Sequenced, Went, Waits
<1>7. Adapted(y)
  BY <1>2 DEF Core, Adapted
<1>8. Sent(y) /\ Shut(y)
  BY <1>2 DEF Core, Sent, Went, Shut
<1>9. QED
  BY <1>3, <1>4, <1>5, <1>6, <1>7, <1>8 DEF Core

\* The loop of drain was entered, or left.
Turned(w, y, h) ==
  /\ Core(y, h) /\ Draining(y)
  /\ y.viewers = w.viewers /\ y.toolkit = w.toolkit /\ y.xim = w.xim /\ y.toApp = w.toApp /\ y.req = w.req
  /\ y.order.queue = w.order.queue /\ y.order.pending = w.order.pending /\ y.order.closed = w.order.closed
  /\ y.order.token = w.order.token

\* The loop is entered or left: all that was in order stays so.
LEMMA Drained ==
  ASSUME NEW h, NEW w, Core(w, h), NEW y, y = Xpra!Drains(w)
  PROVE  Turned(w, y, h)
<1>1. w \in Loops /\ w.order \in Schedule
  BY LoopFields DEF Core
<1>2. PICK b : b = (w.order.queue # {} /\ w.order.pending = 0 /\ ~w.order.closed)
  OBVIOUS
<1>3. b \in BOOLEAN
  BY <1>2
<1>4. y = [w EXCEPT !.order.draining = b]
  BY <1>2 DEF Xpra!Drains
<1>5. PICK o : o = [w.order EXCEPT !.draining = b]
  OBVIOUS
<1>6. o \in Schedule /\ o.draining = b /\ o.queue = w.order.queue /\ o.pending = w.order.pending /\ o.closed = w.order.closed
        /\ o.token = w.order.token
  BY <1>1, <1>3, <1>5 DEF Schedule
<1>7. y = [w EXCEPT !.order = o]
  BY <1>1, <1>4, <1>5 DEF Loops
<1>8. y \in Loops /\ y.order = o /\ y.viewers = w.viewers /\ y.toolkit = w.toolkit /\ y.xim = w.xim
      /\ y.toApp = w.toApp /\ y.req = w.req
  BY <1>1, <1>6, <1>7 DEF Loops
<1>9. Core(y, h)
  BY <1>3, <1>5, <1>8, DrainingAlike
<1>10. Draining(y)
  BY <1>2, <1>6, <1>8, Zenon DEF Draining
<1>11. QED
  BY <1>6, <1>8, <1>9, <1>10 DEF Turned

\* The requests that a viewer is owed an answer to
Mine(w, v) == {s \in Stamps : w.req[s].owner = v /\ w.req[s].status \in {"queued", "issued"}}

\* A viewer that gives no input any more: its requests end, its text is cancelled.
Silenced(w, x, v) ==
  /\ Loop(x) /\ Cut(w, x) /\ x.viewers = w.viewers /\ x.order.closed = w.order.closed
  /\ Ends(w, x, Mine(w, v)) /\ \A s \in Stamps : x.req[s].heard = w.req[s].heard

\* OrderedInput.invalidate ends what a lost viewer asked for.
LEMMA Invalidated ==
  ASSUME NEW h, NEW w, Core(w, h), Firm(w), NEW v, ~Xpra!Available(w, v),
         h \in Stamps => w.req[h].owner = v, NEW x, x = Xpra!Invalidate(w, v)
  PROVE  Silenced(w, x, v)
<1> USE XpraAssumption
<1>1. PICK c : c = IF w.order.pending \in Mine(w, v) THEN Xpra!CancelPending(w) ELSE w
  OBVIOUS
<1>2. PICK q : q = [c EXCEPT !.order.queue = {s \in @ : w.req[s].owner # v}]
  BY Zenon
<1>3. PICK g : g = Xpra!GiveUp(q, Mine(w, v))
  OBVIOUS
<1>4. x = Xpra!Drains(g)
  BY <1>1, <1>2, <1>3, Zenon DEF Xpra!Invalidate, Mine, Xpra!Open
<1>5. w \in Loops /\ Adapted(w) /\ Stamped(w, h) /\ Bounded(w) /\ Owing(w) /\ Sequenced(w) /\ Sent(w) /\ Shut(w)
  BY DEF Core
<1>7. /\ c \in Loops /\ c.viewers = w.viewers /\ c.toApp = w.toApp /\ c.req = w.req
      /\ c.order.queue = w.order.queue /\ c.order.closed = w.order.closed /\ c.order.token = w.order.token
      /\ c.toolkit.last = w.toolkit.last /\ c.xim.supported = w.xim.supported /\ c.xim.lost = w.xim.lost
      /\ c.xim.focused = w.xim.focused /\ w.xim.cancelled \subseteq c.xim.cancelled
      /\ \/ c.order.pending = w.order.pending /\ c.toolkit = w.toolkit /\ c.xim = w.xim /\ w.order.pending \notin Mine(w, v)
         \/ /\ c.order.pending = 0 /\ c.toolkit.text.op = 0 /\ c.toolkit.text.number <= c.toolkit.last
            /\ c.xim.ic = None /\ (w.xim.ic # None => w.xim.ic \in c.xim.cancelled) /\ w.order.pending \in Mine(w, v)
  <2>1. CASE w.order.pending \in Mine(w, v)
    <3>1. Freed(w, c)
      BY <1>1, <1>5, <2>1, PendingCancelled
    <3>2. w.order \in Schedule
      BY <1>5, LoopFields
    <3>3. c.order.queue = w.order.queue /\ c.order.closed = w.order.closed /\ c.order.token = w.order.token
          /\ c.order.pending = 0
      BY <3>1, <3>2 DEF Freed, Schedule
    <3>4. QED
      BY <2>1, <3>1, <3>3 DEF Freed
  <2>2. CASE w.order.pending \notin Mine(w, v)
    BY <1>1, <1>5, <2>2
  <2>3. QED
    BY <2>1, <2>2
<1>8. /\ q \in Loops /\ q.viewers = w.viewers /\ q.toApp = w.toApp /\ q.req = w.req /\ q.toolkit = c.toolkit
      /\ q.xim = c.xim /\ q.order.queue = {s \in w.order.queue : w.req[s].owner # v}
      /\ q.order.closed = w.order.closed /\ q.order.token = w.order.token /\ q.order.pending = c.order.pending
  <2>1. PICK o : o = [c.order EXCEPT !.queue = {s \in w.order.queue : w.req[s].owner # v}]
    OBVIOUS
  <2>2. c.order \in Schedule /\ w.order.queue \subseteq Stamps
    BY <1>5, <1>7, LoopFields
  <2>3. o \in Schedule /\ o.queue = {s \in w.order.queue : w.req[s].owner # v} /\ o.closed = w.order.closed
        /\ o.token = w.order.token /\ o.pending = c.order.pending
    BY <1>7, <2>1, <2>2 DEF Schedule
  <2>4. q = [c EXCEPT !.order = o]
    BY <1>2, <1>7, <2>1 DEF Loops
  <2>5. QED
    BY <1>7, <2>3, <2>4 DEF Loops
<1>9. /\ g \in Loops /\ g.viewers = w.viewers /\ g.toApp = w.toApp /\ g.order = q.order /\ g.toolkit = c.toolkit
      /\ g.xim = c.xim /\ Ends(w, g, Mine(w, v)) /\ \A s \in Stamps : g.req[s].heard = w.req[s].heard
  <2>3. q \in Loops
    BY <1>8
  <2>1. /\ g \in Loops /\ g.viewers = q.viewers /\ g.order = q.order /\ g.toolkit = q.toolkit
        /\ g.xim = q.xim /\ g.toApp = q.toApp
        /\ Ends(q, g, Mine(w, v)) /\ \A s \in Stamps : g.req[s].heard = q.req[s].heard
    BY <1>3, <2>3, GaveUp
  <2>2. QED
    BY <1>8, <2>1 DEF Ends, SameAsked
<1>10. ASSUME NEW s \in Stamps
       PROVE  /\ \/ g.req[s].status = w.req[s].status /\ s \notin Mine(w, v)
                 \/ w.req[s].status = "queued" /\ g.req[s].status = "refused" /\ s \in Mine(w, v)
                 \/ w.req[s].status = "issued" /\ g.req[s].status = "failed" /\ s \in Mine(w, v)
              /\ s \in Mine(w, v) <=> w.req[s].owner = v /\ w.req[s].status \in {"queued", "issued"}
  <2>1. s \in Mine(w, v) <=> w.req[s].owner = v /\ w.req[s].status \in {"queued", "issued"}
    BY DEF Mine
  <2>2. QED
    BY <1>9, <2>1 DEF Ends
<1>11. Stamped(g, 0)
  BY <1>5, <1>7, <1>8, <1>9, <1>10 DEF Stamped, Waits, Ends, SameAsked
<1>12. Bounded(g)
  <2>1. g.order.queue \subseteq w.order.queue
    BY <1>8, <1>9
  <2>2. IsFiniteSet(g.order.queue) /\ Cardinality(g.order.queue) <= Cardinality(w.order.queue)
    BY <1>5, <2>1, FS_Subset DEF Bounded
  <2>3. Cardinality(g.order.queue) \in Nat /\ Cardinality(w.order.queue) \in Nat
    BY <1>5, <2>2, FS_CardinalityType DEF Bounded
  <2>4. QED
    BY <1>5, <2>2, <2>3 DEF Bounded
<1>13. Owing(g)
  <2>1. SUFFICES ASSUME NEW s \in Stamps
                 PROVE  /\ g.req[s].status \in {"failed", "refused"} => ~Xpra!Available(g, g.req[s].owner) \/ g.order.closed
                        /\ g.req[s].heard = "success" => g.req[s].status = "confirmed"
                        /\ g.req[s].heard = "failure" => g.req[s].status \in {"refused", "failed"}
    BY DEF Owing
  <2>2. g.req[s].owner = w.req[s].owner /\ g.req[s].heard = w.req[s].heard /\ g.order.closed = w.order.closed
    BY <1>8, <1>9 DEF Ends, SameAsked
  <2>3. Xpra!Available(g, g.req[s].owner) <=> Xpra!Available(w, w.req[s].owner)
    BY <1>9, <2>2 DEF Xpra!Available
  <2>4. CASE g.req[s].status = w.req[s].status
    BY <1>5, <2>2, <2>3, <2>4 DEF Owing
  <2>5. CASE s \in Mine(w, v) /\ w.req[s].status \in {"queued", "issued"} /\ g.req[s].status \in {"refused", "failed"}
    <3>1. w.req[s].owner = v
      BY <2>5 DEF Mine
    <3>2. w.req[s].heard # "success"
      BY <1>5, <2>5 DEF Owing
    <3>3. QED
      BY <2>2, <2>3, <2>5, <3>1, <3>2
  <2>6. QED
    BY <1>10, <2>4, <2>5
<1>14. Sequenced(g)
  <2>1. ASSUME NEW s \in Stamps PROVE (Went(g, s) => Went(w, s)) /\ (Waits(g, s) => Waits(w, s))
    BY <1>10 DEF Went, Waits
  <2>2. \A s \in Stamps : g.req[s].owner = w.req[s].owner /\ g.req[s].kind = w.req[s].kind
    BY <1>9 DEF Ends, SameAsked
  <2>3. \A s \in Stamps : w.req[s].status = "confirmed" => g.req[s].status = "confirmed"
    BY <1>10
  <2>4. \A s \in Stamps : s = g.order.pending => s = w.order.pending
    BY <1>7, <1>8, <1>9
  <2>5. QED
    BY <1>5, <2>1, <2>2, <2>3, <2>4 DEF Sequenced
<1>15. Adapted(g)
  BY <1>5, <1>7, <1>8, <1>9 DEF Adapted
<1>16. Sent(g)
  <2>1. \A s \in Stamps : Went(w, s) => Went(g, s)
    BY <1>10 DEF Went
  <2>2. \A i \in 1..Len(w.toApp) : w.toApp[i].s \in Stamps
    BY <1>5, EventPlaces
  <2>3. g.toolkit.last = w.toolkit.last /\ (g.toolkit.text.op # 0 => g.toolkit.text = w.toolkit.text)
    BY <1>7, <1>9
  <2>4. QED
    BY <1>5, <1>9, <2>1, <2>2, <2>3 DEF Sent
<1>17. Shut(g)
  BY <1>5, <1>7, <1>8, <1>9 DEF Shut
<1>18. Core(g, 0)
  BY <1>9, <1>11, <1>12, <1>13, <1>14, <1>15, <1>16, <1>17 DEF Core
<1>19. Firm(g)
  <2>1. CASE g.order.pending # 0
    <3>1. g.order.pending = w.order.pending /\ w.order.pending \notin Mine(w, v) /\ g.toolkit = w.toolkit /\ g.xim = w.xim
          /\ w.order.pending \in Stamps
      BY <1>5, <1>7, <1>8, <1>9, <2>1, LoopFields
    <3>2. g.req[w.order.pending].status = w.req[w.order.pending].status
          /\ g.req[w.order.pending].kind = w.req[w.order.pending].kind
      BY <1>9, <1>10, <3>1 DEF Ends, SameAsked
    <3>3. QED
      BY <2>1, <3>1, <3>2 DEF Firm
  <2>2. QED
    BY <2>1 DEF Firm
<1>24. Turned(g, x, 0)
  BY <1>4, <1>18, Drained
<1>20. /\ Core(x, 0) /\ Draining(x) /\ x.viewers = g.viewers /\ x.toolkit = g.toolkit /\ x.xim = g.xim
       /\ x.toApp = g.toApp /\ x.req = g.req /\ x.order.pending = g.order.pending /\ x.order.closed = g.order.closed
  BY <1>24 DEF Turned
<1>21. Firm(x)
  BY <1>19, <1>20 DEF Firm
<1>22. Cut(w, x)
  <2>1. w.order.pending # 0 /\ w.order.pending \in Mine(w, v) => x.req[w.order.pending].status = "failed"
    <3> SUFFICES ASSUME w.order.pending # 0, w.order.pending \in Mine(w, v)
                 PROVE  x.req[w.order.pending].status = "failed"
      OBVIOUS
    <3>1. w.order.pending \in Stamps /\ w.req[w.order.pending].status = "issued"
      BY DEF Firm, Mine
    <3>2. g.req[w.order.pending].status = "failed"
      BY <1>10, <3>1
    <3>3. QED
      BY <1>20, <3>2
  <2>2. \A s \in Stamps : SameAsked(w, x, s)
    BY <1>9, <1>20 DEF Ends, SameAsked
  <2>3. \A s \in Stamps :
          \/ x.req[s].status = w.req[s].status
          \/ w.req[s].status = "queued" /\ x.req[s].status = "refused"
          \/ w.req[s].status = "issued" /\ x.req[s].status = "failed"
    BY <1>10, <1>20
  <2>4. x.toApp = w.toApp /\ w.toolkit.last <= x.toolkit.last /\ x.xim.supported = w.xim.supported
        /\ w.xim.cancelled \subseteq x.xim.cancelled /\ (w.xim.lost => x.xim.lost)
    BY <1>5, <1>7, <1>9, <1>20, LoopFields
  <2>5. \/ /\ x.toolkit.text = w.toolkit.text /\ x.order.pending = w.order.pending
           /\ x.xim.ic = w.xim.ic /\ x.xim.left = w.xim.left
        \/ /\ x.order.pending = 0 /\ x.toolkit.text.op = 0 /\ x.xim.ic = None
           /\ w.xim.ic # None => w.xim.ic \in x.xim.cancelled
           /\ w.order.pending # 0 => x.req[w.order.pending].status = "failed"
    BY <1>7, <1>8, <1>9, <1>20, <2>1
  <2>6. QED
    BY <2>2, <2>3, <2>4, <2>5 DEF Cut
<1>23. QED
  BY <1>8, <1>9, <1>20, <1>21, <1>22 DEF Silenced, Loop, Ends, SameAsked

\* Viewers that give less input than before
LEMMA LessAvailable ==
  ASSUME NEW h, NEW w, Core(w, h), NEW y \in Loops, y.order = w.order, y.toolkit = w.toolkit, y.xim = w.xim,
         y.toApp = w.toApp, y.req = w.req,
         \A v \in Viewers : Xpra!Available(y, v) => Xpra!Available(w, v)
  PROVE  Core(y, h)
<1>1. Stamped(w, h) /\ Owing(w)
  BY DEF Core
<1>2. Stamped(y, h)
  BY <1>1 DEF Stamped, Waits
<1>3. Owing(y)
  <2> SUFFICES ASSUME NEW s \in Stamps
               PROVE  /\ y.req[s].status \in {"failed", "refused"} => ~Xpra!Available(y, y.req[s].owner) \/ y.order.closed
                      /\ y.req[s].heard = "success" => y.req[s].status = "confirmed"
                      /\ y.req[s].heard = "failure" => y.req[s].status \in {"refused", "failed"}
    BY DEF Owing
  <2>1. w.req[s].status \in {"failed", "refused"} => w.req[s].owner \in Viewers
    BY <1>1 DEF Stamped
  <2>2. QED
    BY <1>1, <2>1 DEF Owing
<1>4. Bounded(y) /\ Adapted(y) /\ Shut(y)
  BY DEF Core, Bounded, Adapted, Shut
<1>5. Sequenced(y)
  BY DEF Core, Sequenced, Went, Waits
<1>6. Sent(y)
  BY DEF Core, Sent, Went
<1>7. QED
  BY <1>2, <1>3, <1>4, <1>5, <1>6 DEF Core

\* A viewer loses its authority, or its connection.
LEMMA ViewerLost ==
  ASSUME NEW h, NEW w, Core(w, h), NEW v \in Viewers, NEW y,
         \/ y = [w EXCEPT !.viewers[v].failed = TRUE]
         \/ y = [w EXCEPT !.viewers[v].open = FALSE]
  PROVE  /\ Core(y, h) /\ ~Xpra!Available(y, v) /\ y.order = w.order /\ y.toolkit = w.toolkit /\ y.xim = w.xim
         /\ y.toApp = w.toApp /\ y.req = w.req
<1>1. w \in Loops /\ w.viewers \in [Viewers -> [open : BOOLEAN, failed : BOOLEAN]]
  BY LoopFields DEF Core
<1>2. PICK u : /\ u = [w.viewers[v] EXCEPT !.failed = TRUE] \/ u = [w.viewers[v] EXCEPT !.open = FALSE]
               /\ y = [w EXCEPT !.viewers = [w.viewers EXCEPT ![v] = u]]
  BY <1>1 DEF Loops
<1>3. u \in [open : BOOLEAN, failed : BOOLEAN] /\ ~(u.open /\ ~u.failed)
  BY <1>1, <1>2
<1>4. PICK o : o = [w.viewers EXCEPT ![v] = u]
  OBVIOUS
<1>5. o \in [Viewers -> [open : BOOLEAN, failed : BOOLEAN]] /\ o[v] = u /\ \A t \in Viewers : t # v => o[t] = w.viewers[t]
  BY <1>1, <1>3, <1>4
<1>6. y \in Loops /\ y.viewers = o /\ y.order = w.order /\ y.toolkit = w.toolkit /\ y.xim = w.xim
      /\ y.toApp = w.toApp /\ y.req = w.req
  BY <1>1, <1>2, <1>4, <1>5 DEF Loops
<1>7. ~Xpra!Available(y, v)
  BY <1>3, <1>5, <1>6 DEF Xpra!Available
<1>8. \A t \in Viewers : Xpra!Available(y, t) => Xpra!Available(w, t)
  BY <1>5, <1>6, <1>7 DEF Xpra!Available
<1>9. Core(y, h)
  BY <1>6, <1>8, LessAvailable
<1>10. QED
  BY <1>6, <1>7, <1>9

\* What is given up of a world is given up of one that is like it.
LEMMA CutAlike ==
  ASSUME NEW w, NEW y, NEW x, Cut(y, x), y.toApp = w.toApp, y.req = w.req, y.xim = w.xim, y.toolkit = w.toolkit,
         y.order.pending = w.order.pending
  PROVE  Cut(w, x)
  BY DEF Cut, SameAsked

\* One request is in another state, or its viewer has heard of it.
Reset(w, x, s, r) ==
  /\ x \in Loops /\ x.viewers = w.viewers /\ x.order = w.order /\ x.toolkit = w.toolkit /\ x.xim = w.xim
  /\ x.toApp = w.toApp /\ x.req[s] = r /\ \A t \in Stamps : t # s => x.req[t] = w.req[t]

\* An update of one request is a Reset.
LEMMA RequestBecomes ==
  ASSUME NEW w \in Loops, NEW s \in Stamps, NEW r \in XpraRequest, NEW x, x = [w EXCEPT !.req[s] = r]
  PROVE  Reset(w, x, s, r)
<1>1. w.req \in [Stamps -> XpraRequest]
  BY LoopFields
<1>2. PICK q : q = [w.req EXCEPT ![s] = r]
  OBVIOUS
<1>3. q \in [Stamps -> XpraRequest] /\ q[s] = r /\ \A t \in Stamps : t # s => q[t] = w.req[t]
  BY <1>1, <1>2
<1>4. x = [w EXCEPT !.req = q]
  BY <1>2 DEF Loops
<1>5. QED
  BY <1>3, <1>4 DEF Loops, Reset

\* The viewer of a request that ended hears of its failure.
LEMMA FailureHeard ==
  ASSUME NEW w, Loop(w), NEW s \in Stamps, w.req[s].status \in {"refused", "failed"},
         NEW x, x = [w EXCEPT !.req[s].heard = "failure"]
  PROVE  /\ Loop(x) /\ x.order = w.order /\ x.toolkit = w.toolkit /\ x.xim = w.xim /\ x.toApp = w.toApp
         /\ \A t \in Stamps : SameAsked(w, x, t) /\ x.req[t].status = w.req[t].status
<1>1. w \in Loops /\ w.req[s] \in XpraRequest
  BY RequestFields DEF Loop, Core
<1>2. PICK r : r = [w.req[s] EXCEPT !.heard = "failure"]
  OBVIOUS
<1>3. r \in XpraRequest /\ r.owner = w.req[s].owner /\ r.kind = w.req[s].kind /\ r.size = w.req[s].size
      /\ r.status = w.req[s].status /\ r.heard = "failure"
  BY <1>1, <1>2 DEF XpraRequest
<1>4. x = [w EXCEPT !.req[s] = r]
  BY <1>1, <1>2 DEF Loops
<1>14. Reset(w, x, s, r)
  BY <1>1, <1>3, <1>4, RequestBecomes
<1>5. /\ x \in Loops /\ x.viewers = w.viewers /\ x.order = w.order /\ x.toolkit = w.toolkit /\ x.xim = w.xim
      /\ x.toApp = w.toApp /\ x.req[s] = r /\ \A t \in Stamps : t # s => x.req[t] = w.req[t]
  BY <1>14 DEF Reset
<1>6. \A t \in Stamps : SameAsked(w, x, t) /\ x.req[t].status = w.req[t].status
  BY <1>3, <1>5 DEF SameAsked
<1>7. Stamped(x, 0)
  BY <1>5, <1>6 DEF Loop, Core, Stamped, Waits, SameAsked
<1>8. Owing(x)
  <2>1. Owing(w)
    BY DEF Loop, Core
  <2> SUFFICES ASSUME NEW t \in Stamps
               PROVE  /\ x.req[t].status \in {"failed", "refused"} => ~Xpra!Available(x, x.req[t].owner) \/ x.order.closed
                      /\ x.req[t].heard = "success" => x.req[t].status = "confirmed"
                      /\ x.req[t].heard = "failure" => x.req[t].status \in {"refused", "failed"}
    BY DEF Owing
  <2>2. x.req[t].owner = w.req[t].owner /\ x.req[t].status = w.req[t].status
    BY <1>6 DEF SameAsked
  <2>3. \A v : Xpra!Available(x, v) <=> Xpra!Available(w, v)
    BY <1>5 DEF Xpra!Available
  <2>4. CASE t = s
    BY <1>3, <1>5, <2>1, <2>2, <2>3, <2>4 DEF Owing
  <2>5. CASE t # s
    BY <1>5, <2>1, <2>2, <2>3, <2>5 DEF Owing
  <2>6. QED
    BY <2>4, <2>5
<1>9. Bounded(x) /\ Adapted(x) /\ Shut(x) /\ Draining(x)
  BY <1>5 DEF Loop, Core, Bounded, Adapted, Shut, Draining
<1>10. Sequenced(x)
  BY <1>5, <1>6 DEF Loop, Core, Sequenced, Went, Waits, SameAsked
<1>11. Sent(x)
  BY <1>1, <1>5, <1>6, EventPlaces DEF Loop, Core, Sent, Went
<1>12. Firm(x)
  BY <1>1, <1>5, <1>6, LoopFields DEF Loop, Firm, SameAsked
<1>13. QED
  BY <1>5, <1>6, <1>7, <1>8, <1>9, <1>10, <1>11, <1>12 DEF Loop, Core

\* A handler gave requests up.
Yields(w, x) == Loop(x) /\ Cut(w, x)

\* InputDispatch.reject, of a request that is open or of none
Rejects(w, x, v) == Yields(w, x) /\ Ends(w, x, Mine(w, v)) /\ (w.order.pending = 0 => x.order.pending = 0)

\* A rejection ends all that its viewer asked for.
LEMMA Rejected ==
  ASSUME NEW h, NEW w, Core(w, h), Firm(w), NEW v \in Viewers, h \in Stamps => w.req[h].owner = v,
         NEW s, s = 0 \/ s \in Mine(w, v), NEW x, x = Xpra!Reject(w, v, s)
  PROVE  Rejects(w, x, v)
<1>1. PICK f, r : f = [w EXCEPT !.viewers[v].failed = TRUE] /\ r = Xpra!Invalidate(f, v)
  OBVIOUS
<1>2. /\ Core(f, h) /\ ~Xpra!Available(f, v) /\ f.order = w.order /\ f.toolkit = w.toolkit /\ f.xim = w.xim
      /\ f.toApp = w.toApp /\ f.req = w.req
  BY <1>1, ViewerLost
<1>3. Firm(f) /\ Mine(f, v) = Mine(w, v) /\ (h \in Stamps => f.req[h].owner = v)
  BY <1>2 DEF Firm, Mine
<1>10. Silenced(f, r, v)
  BY <1>1, <1>2, <1>3, Invalidated
<1>4. Loop(r) /\ Cut(f, r) /\ Ends(f, r, Mine(f, v))
  BY <1>10 DEF Silenced
<1>5. Cut(w, r) /\ Ends(w, r, Mine(w, v))
  BY <1>2, <1>3, <1>4, CutAlike DEF Ends, SameAsked
<1>6. w.order.pending = 0 => r.order.pending = 0
  BY <1>5 DEF Cut
<1>7. CASE s # 0 /\ w.viewers[v].open
  <2>1. s \in Stamps /\ r.req[s].status \in {"refused", "failed"}
    BY <1>5, <1>7 DEF Ends, Mine
  <2>2. x = [r EXCEPT !.req[s].heard = "failure"]
    BY <1>1, <1>7 DEF Xpra!Reject
  <2>3. /\ Loop(x) /\ x.order = r.order /\ x.toolkit = r.toolkit /\ x.xim = r.xim /\ x.toApp = r.toApp
        /\ \A t \in Stamps : SameAsked(r, x, t) /\ x.req[t].status = r.req[t].status
    BY <1>4, <2>1, <2>2, FailureHeard
  <2>4. w.order.pending \in Stamps \cup {0}
    BY LoopFields DEF Core
  <2>5. Cut(w, x)
    BY <1>5, <2>3, <2>4 DEF Cut, SameAsked
  <2>6. Ends(w, x, Mine(w, v))
    BY <1>5, <2>3 DEF Ends, SameAsked
  <2>7. QED
    BY <1>6, <2>3, <2>5, <2>6 DEF Yields, Rejects
<1>8. CASE ~(s # 0 /\ w.viewers[v].open)
  <2>1. x = r
    BY <1>1, <1>8 DEF Xpra!Reject
  <2>2. QED
    BY <1>4, <1>5, <1>6, <2>1 DEF Yields, Rejects
<1>9. QED
  BY <1>7, <1>8

\* The text that is pending, or was popped to be, is not delivered: it leaves its
\* adapter, and its viewer gives no input any more.
Undelivered(w, x) == Yields(w, x) /\ x.order.pending = 0

\* What ended in a world ended in one with the same requests.
LEMMA EndsAlike == ASSUME NEW w, NEW y, NEW x, NEW S, Ends(w, y, S), x.req = y.req PROVE Ends(w, x, S)
  BY DEF Ends, SameAsked

\* A request in hand, or out of its adapter, whose viewer gives no input any more
Loose(c, s) ==
  /\ s \in Stamps /\ c.order.pending = 0 /\ s \notin c.order.queue
  /\ c.req[s].status \in {"queued", "issued"} /\ ~Xpra!Available(c, c.req[s].owner)
Drops(c, x, s) == Loop(x) /\ Cut(c, x) /\ x.order.pending = 0 /\ x.req[s].status \in {"refused", "failed"}

\* It is given up.
LEMMA Dropped ==
  ASSUME NEW c, NEW s, Core(c, s), Loose(c, s), NEW x, x = Xpra!Drains(Xpra!GiveUp(c, {s}))
  PROVE  Drops(c, x, s)
<1> USE XpraAssumption
<1>20. PICK S : S = {s}
  OBVIOUS
<1>21. \A t \in Stamps : t \in S <=> t = s
  BY <1>20
<1>1. PICK g : g = Xpra!GiveUp(c, S)
  OBVIOUS
<1>2. x = Xpra!Drains(g)
  BY <1>1, <1>20
<1>3. c \in Loops /\ s \in Stamps /\ c.order.pending = 0 /\ s \notin c.order.queue
      /\ c.req[s].status \in {"queued", "issued"} /\ ~Xpra!Available(c, c.req[s].owner)
  BY DEF Core, Loose
<1>4. /\ g \in Loops /\ g.viewers = c.viewers /\ g.order = c.order /\ g.toolkit = c.toolkit
      /\ g.xim = c.xim /\ g.toApp = c.toApp
      /\ Ends(c, g, S) /\ \A t \in Stamps : g.req[t].heard = c.req[t].heard
  BY <1>1, <1>3, GaveUp
<1>5. ASSUME NEW t \in Stamps
      PROVE  /\ \/ g.req[t].status = c.req[t].status /\ t # s
                \/ c.req[t].status = "queued" /\ g.req[t].status = "refused" /\ t = s
                \/ c.req[t].status = "issued" /\ g.req[t].status = "failed" /\ t = s
             /\ g.req[t].owner = c.req[t].owner /\ g.req[t].kind = c.req[t].kind
  BY <1>3, <1>4, <1>21 DEF Ends, SameAsked
<1>6. ~Xpra!Available(g, c.req[s].owner)
  BY <1>3, <1>4 DEF Xpra!Available
<1>7. Stamped(g, 0)
  BY <1>3, <1>4, <1>5 DEF Core, Stamped, Waits
<1>8. Bounded(g)
  BY <1>4 DEF Core, Bounded
<1>9. Owing(g)
  <2>1. Owing(c)
    BY DEF Core
  <2> SUFFICES ASSUME NEW t \in Stamps
               PROVE  /\ g.req[t].status \in {"failed", "refused"} => ~Xpra!Available(g, g.req[t].owner) \/ g.order.closed
                      /\ g.req[t].heard = "success" => g.req[t].status = "confirmed"
                      /\ g.req[t].heard = "failure" => g.req[t].status \in {"refused", "failed"}
    BY DEF Owing
  <2>2. g.req[t].heard = c.req[t].heard /\ g.req[t].owner = c.req[t].owner
        /\ (Xpra!Available(g, c.req[t].owner) <=> Xpra!Available(c, c.req[t].owner)) /\ g.order.closed = c.order.closed
    BY <1>4, <1>5 DEF Xpra!Available
  <2>3. QED
    BY <1>5, <1>6, <2>1, <2>2 DEF Owing
<1>10. Sequenced(g)
  <2>1. \A t \in Stamps : /\ (Went(g, t) => Went(c, t)) /\ (Waits(g, t) => Waits(c, t))
                          /\ (c.req[t].status = "confirmed" => g.req[t].status = "confirmed")
    BY <1>5 DEF Went, Waits
  <2>2. g.order.pending = 0
    BY <1>3, <1>4
  <2>3. Sequenced(c)
    BY DEF Core
  <2>4. QED
    BY <1>5, <2>1, <2>2, <2>3 DEF Sequenced
<1>11. Adapted(g) /\ Shut(g)
  BY <1>4 DEF Core, Adapted, Shut
<1>12. Sent(g)
  <2>1. \A t \in Stamps : Went(c, t) => Went(g, t)
    BY <1>5 DEF Went
  <2>2. \A i \in 1..Len(c.toApp) : c.toApp[i].s \in Stamps
    BY <1>3, EventPlaces
  <2>3. QED
    BY <1>4, <2>1, <2>2 DEF Core, Sent
<1>13. Core(g, 0) /\ g.order.pending = 0
  BY <1>3, <1>4, <1>7, <1>8, <1>9, <1>10, <1>11, <1>12 DEF Core
<1>14. Turned(g, x, 0)
  BY <1>2, <1>13, Drained
<1>15. /\ Core(x, 0) /\ Draining(x) /\ x.viewers = g.viewers /\ x.toolkit = g.toolkit /\ x.xim = g.xim
       /\ x.toApp = g.toApp /\ x.req = g.req /\ x.order.pending = 0
  BY <1>13, <1>14 DEF Turned
<1>16. Loop(x)
  BY <1>15 DEF Loop, Firm
<1>17. Cut(c, x) /\ Ends(c, x, S)
  <2>1. Ends(c, x, S)
    BY <1>4, <1>15, EndsAlike
  <2>2. c.toolkit.last \in Nat
    BY <1>3, LoopFields
  <2>3. QED
    <3>1. \A t \in Stamps : SameAsked(c, x, t)
      BY <2>1 DEF Ends
    <3>2. \A t \in Stamps : \/ x.req[t].status = c.req[t].status
                            \/ c.req[t].status = "queued" /\ x.req[t].status = "refused"
                            \/ c.req[t].status = "issued" /\ x.req[t].status = "failed"
      BY <1>5, <1>15
    <3>3. x.toApp = c.toApp /\ c.toolkit.last <= x.toolkit.last /\ x.xim = c.xim /\ x.toolkit = c.toolkit
          /\ x.order.pending = c.order.pending
      BY <1>3, <1>4, <1>15, <2>2
    <3>4. QED
      BY <2>1, <3>1, <3>2, <3>3 DEF Cut
<1>18. x.req[s].status \in {"refused", "failed"}
  BY <1>3, <1>5, <1>15
<1>19. QED
  BY <1>15, <1>16, <1>17, <1>18 DEF Drops

\* A text is pending that is in hand, or was issued.
Owed(w, h) ==
  /\ w.order.pending \in Stamps /\ w.order.pending \notin w.order.queue
  /\ h = 0 \/ h = w.order.pending
  /\ w.req[w.order.pending].status \in {"queued", "issued"}

\* What completion makes of a world
Fails(w, x) == x = Xpra!Completed(w, FALSE)
Succeeds(w, x) == x = Xpra!Completed(w, TRUE)

\* Completion with an error
LEMMA NotCompleted ==
  ASSUME NEW h, NEW w, Core(w, h), Owed(w, h), NEW x, Fails(w, x)
  PROVE  Undelivered(w, x)
<1> USE XpraAssumption
<1>1. PICK s, v, c : s = w.order.pending /\ v = w.req[s].owner /\ c = Xpra!CancelText([w EXCEPT !.order.pending = 0])
  OBVIOUS
<1>2. w \in Loops /\ Adapted(w) /\ Stamped(w, h) /\ Bounded(w) /\ Owing(w) /\ Sequenced(w) /\ Sent(w) /\ Shut(w)
      /\ w.order \in Schedule
  BY LoopFields DEF Core
<1>3. Freed(w, c)
  BY <1>1, <1>2, Cancelled
<1>4. c.order.queue = w.order.queue /\ c.order.closed = w.order.closed /\ c.order.pending = 0
      /\ c.order.token = w.order.token /\ c.order.draining = w.order.draining
  BY <1>2, <1>3 DEF Freed, Schedule
<1>5. v \in Viewers /\ s \in Stamps /\ s # 0 /\ s \in Mine(w, v)
  BY <1>1, <1>2 DEF Stamped, Mine, Owed
<1>6. Core(c, s)
  <2>1. Stamped(c, s)
    BY <1>1, <1>2, <1>3, <1>4 DEF Stamped, Waits, Freed, Owed
  <2>2. Bounded(c)
    BY <1>2, <1>4 DEF Bounded
  <2>3. Owing(c)
    BY <1>2, <1>3, <1>4 DEF Owing, Xpra!Available, Freed
  <2>4. Sequenced(c)
    BY <1>2, <1>3, <1>4 DEF Sequenced, Went, Waits, Freed
  <2>5. Adapted(c)
    BY <1>2, <1>3, <1>4 DEF Adapted, Freed
  <2>6. Sent(c)
    BY <1>2, <1>3 DEF Sent, Went, Freed
  <2>7. Shut(c)
    BY <1>2, <1>4 DEF Shut
  <2>8. QED
    BY <1>3, <2>1, <2>2, <2>3, <2>4, <2>5, <2>6, <2>7 DEF Core, Freed
<1>7. Firm(c) /\ Mine(c, v) = Mine(w, v)
  BY <1>3, <1>4 DEF Firm, Mine, Freed
<1>8. ASSUME NEW y, Cut(c, y), y.req[s].status \in {"refused", "failed"}, y.order.pending = 0 PROVE Cut(w, y)
  <2>1. y.toolkit.text.op = 0 /\ y.xim.ic = None
    BY <1>3, <1>4, <1>8 DEF Cut, Freed
  <2>2. w.xim.ic # None => w.xim.ic \in y.xim.cancelled
    BY <1>3, <1>8 DEF Cut, Freed
  <2>4. w.xim.cancelled \subseteq y.xim.cancelled
    BY <1>3, <1>8 DEF Cut, Freed
  <2>5. y.toApp = w.toApp /\ w.toolkit.last <= y.toolkit.last /\ y.xim.supported = w.xim.supported
        /\ (w.xim.lost => y.xim.lost)
    BY <1>3, <1>8 DEF Cut, Freed
  <2>6. \A t \in Stamps :
       /\ SameAsked(w, y, t)
       /\ \/ y.req[t].status = w.req[t].status
          \/ w.req[t].status = "queued" /\ y.req[t].status = "refused"
          \/ w.req[t].status = "issued" /\ y.req[t].status = "failed"
    BY <1>3, <1>8 DEF Cut, SameAsked, Freed
  <2>7. QED
    BY <1>1, <1>8, <2>1, <2>2, <2>4, <2>5, <2>6 DEF Cut
<1>9. CASE Xpra!Available(w, v)
  <2>1. x = Xpra!Reject(c, v, s)
    BY <1>1, <1>9 DEF Xpra!Completed, Fails
  <2>2. c.req[s].owner = v /\ s \in Mine(c, v)
    BY <1>1, <1>3, <1>5, <1>7 DEF Freed
  <2>3. Rejects(c, x, v)
    BY <1>5, <1>6, <1>7, <2>1, <2>2, Rejected
  <2>4. Loop(x) /\ Cut(c, x) /\ Ends(c, x, Mine(c, v)) /\ x.order.pending = 0
    BY <1>4, <2>3 DEF Rejects, Yields
  <2>7. x.req[s].status \in {"refused", "failed"}
    BY <1>5, <2>2, <2>4 DEF Ends
  <2>5. Cut(w, x)
    BY <1>8, <2>4, <2>7
  <2>6. QED
    BY <2>4, <2>5 DEF Undelivered, Yields
<1>10. CASE ~Xpra!Available(w, v)
  <2>1. x = Xpra!Drains(Xpra!GiveUp(c, {s}))
    BY <1>1, <1>10 DEF Xpra!Completed, Fails
  <2>2. Loose(c, s)
    BY <1>1, <1>3, <1>4, <1>5, <1>10 DEF Loose, Freed, Owed, Xpra!Available
  <2>3. Drops(c, x, s)
    BY <1>6, <2>1, <2>2, Dropped
  <2>4. Loop(x) /\ Cut(c, x) /\ x.order.pending = 0 /\ x.req[s].status \in {"refused", "failed"}
    BY <2>3 DEF Drops
  <2>5. Cut(w, x)
    BY <1>8, <2>4
  <2>6. QED
    BY <2>4, <2>5 DEF Undelivered, Yields
<1>11. QED
  BY <1>9, <1>10

\* The text that is pending has left its adapter.
Landed(w) ==
  /\ w.order.pending \in Stamps /\ w.req[w.order.pending].status = "issued"
  /\ w.toolkit.text.op = 0 /\ w.xim.ic = None

\* It was confirmed.
Confirms(w, x) ==
  /\ Loop(x) /\ x.toApp = w.toApp /\ x.toolkit = w.toolkit /\ x.xim = w.xim /\ x.order.pending = 0
  /\ \A s \in Stamps : SameAsked(w, x, s)
  /\ \A s \in Stamps : x.req[s].status = IF s = w.order.pending THEN "confirmed" ELSE w.req[s].status

\* Completion without one
LEMMA Delivered ==
  ASSUME NEW w, Core(w, 0), Landed(w), NEW x, Succeeds(w, x)
  PROVE  Confirms(w, x)
<1> USE XpraAssumption
<1>1. PICK s, o, heard : s = w.order.pending /\ o = [w.order EXCEPT !.pending = 0]
        /\ heard = IF Xpra!Available(w, w.req[s].owner) THEN "success" ELSE "nothing"
  OBVIOUS
<1>2. /\ w \in Loops /\ Adapted(w) /\ Stamped(w, 0) /\ Bounded(w) /\ Owing(w) /\ Sequenced(w) /\ Sent(w) /\ Shut(w)
      /\ w.order \in Schedule
  BY LoopFields DEF Core
<1>3. s \in Stamps /\ w.req[s].status = "issued" /\ w.req[s] \in XpraRequest /\ w.toolkit.text.op = 0 /\ w.xim.ic = None
  BY <1>1, <1>2, RequestFields DEF Landed
<1>4. o \in Schedule /\ o.pending = 0 /\ o.queue = w.order.queue /\ o.closed = w.order.closed
  BY <1>1, <1>2 DEF Schedule
<1>5. PICK c : c = [w EXCEPT !.order = o]
  OBVIOUS
<1>6. /\ c \in Loops /\ c.order = o /\ c.viewers = w.viewers /\ c.toolkit = w.toolkit /\ c.xim = w.xim
      /\ c.toApp = w.toApp /\ c.req = w.req
  BY <1>2, <1>4, <1>5 DEF Loops
<1>7. PICK r : r = [w.req[s] EXCEPT !.status = "confirmed", !.heard = heard]
  OBVIOUS
<1>8. heard \in {"success", "nothing"}
  BY <1>1
<1>9. /\ r \in XpraRequest /\ r.status = "confirmed" /\ r.heard = heard /\ r.owner = w.req[s].owner
      /\ r.kind = w.req[s].kind /\ r.size = w.req[s].size
  BY <1>3, <1>7, <1>8 DEF XpraRequest
<1>10. PICK q : q = [c EXCEPT !.req[s] = r]
  OBVIOUS
<1>11. Reset(c, q, s, r)
  BY <1>3, <1>6, <1>9, <1>10, RequestBecomes
<1>12. /\ q \in Loops /\ q.viewers = w.viewers /\ q.order = o /\ q.toolkit = w.toolkit /\ q.xim = w.xim
       /\ q.toApp = w.toApp /\ q.req[s] = r /\ \A t \in Stamps : t # s => q.req[t] = w.req[t]
  BY <1>6, <1>11 DEF Reset
<1>13. \A t \in Stamps : /\ SameAsked(w, q, t)
                         /\ t # s => q.req[t].status = w.req[t].status
                         /\ t # s => q.req[t].heard = w.req[t].heard
  BY <1>9, <1>12 DEF SameAsked
<1>14. q.req[s].status = "confirmed" /\ q.req[s].heard \in {"success", "nothing"}
  BY <1>8, <1>9, <1>12
<1>15. x = Xpra!Drains(q)
  <2>1. x = Xpra!Drains([[w EXCEPT !.order.pending = 0] EXCEPT !.req[s].status = "confirmed", !.req[s].heard = heard])
    BY <1>1, Zenon DEF Succeeds, Xpra!Completed
  <2>2. c = [w EXCEPT !.order.pending = 0]
    BY <1>1, <1>2, <1>5 DEF Loops
  <2>3. q = [c EXCEPT !.req[s].status = "confirmed", !.req[s].heard = heard]
    <3>1. PICK r0, q0 : r0 = [w.req[s] EXCEPT !.status = "confirmed"] /\ q0 = [c EXCEPT !.req[s] = r0]
      OBVIOUS
    <3>2. r0 \in XpraRequest /\ r = [r0 EXCEPT !.heard = heard]
      BY <1>3, <1>7, <3>1 DEF XpraRequest
    <3>3. Reset(c, q0, s, r0)
      BY <1>3, <1>6, <3>1, <3>2, RequestBecomes
    <3>4. q0 \in Loops /\ q0.req[s] = r0 /\ q0 = [c EXCEPT !.req[s].status = "confirmed"]
      BY <1>3, <1>6, <3>1, <3>3 DEF Loops, Reset
    <3>5. [q0 EXCEPT !.req[s].heard = heard] = [q0 EXCEPT !.req[s] = r]
      BY <3>2, <3>4 DEF Loops
    <3>6. [q0 EXCEPT !.req[s] = r] = q
      BY <1>3, <1>6, <1>10, <3>1 DEF Loops
    <3>7. QED
      BY <3>4, <3>5, <3>6, Zenon
  <2>4. QED
    BY <2>1, <2>2, <2>3
<1>16. Stamped(q, 0)
  BY <1>1, <1>2, <1>3, <1>4, <1>12, <1>13, <1>14 DEF Stamped, Waits, SameAsked
<1>17. Bounded(q) /\ Shut(q)
  BY <1>2, <1>4, <1>12 DEF Bounded, Shut
<1>18. Owing(q)
  <2> SUFFICES ASSUME NEW t \in Stamps
               PROVE  /\ q.req[t].status \in {"failed", "refused"} => ~Xpra!Available(q, q.req[t].owner) \/ q.order.closed
                      /\ q.req[t].heard = "success" => q.req[t].status = "confirmed"
                      /\ q.req[t].heard = "failure" => q.req[t].status \in {"refused", "failed"}
    BY DEF Owing
  <2>1. CASE t = s
    BY <1>14, <2>1
  <2>2. CASE t # s
    BY <1>2, <1>4, <1>12, <1>13, <2>2 DEF Owing, Xpra!Available, SameAsked
  <2>3. QED
    BY <2>1, <2>2
<1>19. Sequenced(q)
  <2>1. \A t \in Stamps : /\ (Went(q, t) => Went(w, t)) /\ (Waits(q, t) => Waits(w, t))
                          /\ (w.req[t].status = "confirmed" => q.req[t].status = "confirmed")
    BY <1>3, <1>13, <1>14 DEF Went, Waits
  <2>2. \A t \in Stamps : q.req[t].owner = w.req[t].owner /\ q.req[t].kind = w.req[t].kind
    BY <1>13 DEF SameAsked
  <2>3. QED
    BY <1>2, <1>4, <1>12, <2>1, <2>2 DEF Sequenced
<1>20. Adapted(q)
  BY <1>2, <1>3, <1>4, <1>12 DEF Adapted
<1>21. Sent(q)
  <2>1. \A t \in Stamps : Went(w, t) => Went(q, t)
    BY <1>13, <1>14 DEF Went
  <2>2. \A i \in 1..Len(w.toApp) : w.toApp[i].s \in Stamps
    BY <1>2, EventPlaces
  <2>3. QED
    BY <1>2, <1>12, <2>1, <2>2 DEF Sent
<1>22. Turned(q, x, 0)
  BY <1>12, <1>15, <1>16, <1>17, <1>18, <1>19, <1>20, <1>21, Drained DEF Core
<1>23. /\ Core(x, 0) /\ Draining(x) /\ x.viewers = q.viewers /\ x.toolkit = q.toolkit /\ x.xim = q.xim
       /\ x.toApp = q.toApp /\ x.req = q.req /\ x.order.pending = 0
  BY <1>4, <1>12, <1>22 DEF Turned
<1>24. Loop(x)
  BY <1>23 DEF Loop, Firm
<1>25. \A t \in Stamps : SameAsked(w, x, t)
  BY <1>13, <1>23 DEF SameAsked
<1>26. \A t \in Stamps : x.req[t].status = IF t = w.order.pending THEN "confirmed" ELSE w.req[t].status
  BY <1>1, <1>13, <1>14, <1>23
<1>27. QED
  BY <1>12, <1>23, <1>24, <1>25, <1>26 DEF Confirms

\* The server ends: the scheduler, and the connections of its adapters.
LEMMA ServerClosed ==
  ASSUME NEW w, Loop(w), ~w.order.draining,
         NEW x, x = Xpra!AdaptersClosed(Xpra!GiveUp(Xpra!OrderClosed(w), OpenOnes(w)))
  PROVE  Yields(w, x)
<1> USE XpraAssumption
<1>1. /\ w \in Loops /\ Adapted(w) /\ Stamped(w, 0) /\ Bounded(w) /\ Owing(w) /\ Sequenced(w) /\ Sent(w)
      /\ w.order \in Schedule
  BY LoopFields DEF Loop, Core
<1>2. PICK o : o = [w.order EXCEPT !.closed = TRUE, !.queue = {}]
  OBVIOUS
<1>3. o \in Schedule /\ o.closed = TRUE /\ o.queue = {} /\ o.pending = w.order.pending /\ o.token = w.order.token
      /\ o.draining = w.order.draining
  BY <1>1, <1>2 DEF Schedule
<1>4. PICK k : k = [w EXCEPT !.order = o]
  OBVIOUS
<1>5. /\ k \in Loops /\ k.order = o /\ k.viewers = w.viewers /\ k.toolkit = w.toolkit /\ k.xim = w.xim
      /\ k.toApp = w.toApp /\ k.req = w.req
  BY <1>1, <1>3, <1>4 DEF Loops
<1>6. PICK c : c = Xpra!OrderClosed(w)
  OBVIOUS
<1>7. c = Xpra!CancelPending(k)
  <2>1. k = [w EXCEPT !.order.closed = TRUE, !.order.queue = {}]
    BY <1>1, <1>2, <1>4 DEF Loops
  <2>2. QED
    BY <1>6, <2>1 DEF Xpra!OrderClosed
<1>8. Adapted(k)
  BY <1>1, <1>3, <1>5 DEF Adapted
<1>9. Freed(k, c)
  BY <1>5, <1>7, <1>8, PendingCancelled
<1>10. /\ c \in Loops /\ c.viewers = w.viewers /\ c.toApp = w.toApp /\ c.req = w.req
       /\ c.order = [o EXCEPT !.pending = 0]
       /\ c.toolkit.last = w.toolkit.last /\ c.toolkit.text.op = 0 /\ c.toolkit.text.number <= w.toolkit.last
       /\ c.xim.ic = None /\ c.xim.supported = w.xim.supported /\ w.xim.cancelled \subseteq c.xim.cancelled
       /\ (w.xim.ic # None => w.xim.ic \in c.xim.cancelled)
  BY <1>5, <1>9 DEF Freed
<1>11. c.order.pending = 0 /\ c.order.queue = {} /\ c.order.closed = TRUE /\ c.order.draining = w.order.draining
  BY <1>3, <1>10 DEF Schedule
<1>12. PICK g : g = Xpra!GiveUp(c, OpenOnes(w))
  OBVIOUS
<1>13. /\ g \in Loops /\ g.viewers = c.viewers /\ g.order = c.order /\ g.toolkit = c.toolkit
       /\ g.xim = c.xim /\ g.toApp = c.toApp
       /\ Ends(c, g, OpenOnes(w)) /\ \A s \in Stamps : g.req[s].heard = c.req[s].heard
  <2>1. c \in Loops
    BY <1>10
  <2>2. QED
    BY <1>12, <2>1, GaveUp
<1>14. PICK m, f : m = [g.toolkit EXCEPT !.module = "none"] /\ f = [g.xim EXCEPT !.focused = None, !.lost = TRUE]
  OBVIOUS
<1>15. g.toolkit \in Modules /\ g.xim \in Focuses
  BY <1>13, LoopFields
<1>16. m \in Modules /\ m.last = g.toolkit.last /\ m.text = g.toolkit.text
  BY <1>14, <1>15 DEF Modules
<1>17. /\ f \in Focuses /\ f.focused = None /\ f.lost = TRUE /\ f.ic = g.xim.ic /\ f.supported = g.xim.supported
       /\ f.cancelled = g.xim.cancelled
  BY <1>14, <1>15 DEF Focuses
<1>18. x = [[g EXCEPT !.toolkit = m] EXCEPT !.xim = f]
  <2>1. x = Xpra!XimClosed(Xpra!BusClosed(g))
    BY <1>6, <1>12 DEF Xpra!AdaptersClosed
  <2>2. Xpra!BusClosed(g) = [g EXCEPT !.toolkit = m]
    BY <1>13, <1>14 DEF Xpra!BusClosed, Loops
  <2>3. PICK b : b = [g EXCEPT !.toolkit = m]
    OBVIOUS
  <2>4. b \in Loops /\ b.xim = g.xim
    BY <1>13, <1>16, <2>3 DEF Loops
  <2>5. [b EXCEPT !.xim.focused = None, !.xim.lost = TRUE] = [b EXCEPT !.xim = f]
    BY <1>14, <2>4 DEF Loops
  <2>6. QED
    BY <2>1, <2>2, <2>3, <2>5 DEF Xpra!XimClosed
<1>19. /\ x \in Loops /\ x.viewers = g.viewers /\ x.order = g.order /\ x.toolkit = m /\ x.xim = f
       /\ x.toApp = g.toApp /\ x.req = g.req
  BY <1>13, <1>16, <1>17, <1>18 DEF Loops
<1>20. ASSUME NEW s \in Stamps
       PROVE  /\ \/ x.req[s].status = w.req[s].status /\ w.req[s].status \notin {"queued", "issued"}
                 \/ w.req[s].status = "queued" /\ x.req[s].status = "refused"
                 \/ w.req[s].status = "issued" /\ x.req[s].status = "failed"
              /\ SameAsked(w, x, s) /\ x.req[s].heard = w.req[s].heard
  <2>1. s \in OpenOnes(w) <=> w.req[s].status \in {"queued", "issued"}
    BY DEF OpenOnes
  <2>2. QED
    BY <1>10, <1>13, <1>19, <2>1 DEF Ends, SameAsked
<1>21. /\ x.order.pending = 0 /\ x.order.queue = {} /\ x.order.closed = TRUE /\ ~x.order.draining
       /\ x.toolkit.last = w.toolkit.last /\ x.toolkit.text.op = 0 /\ x.toolkit.text.number <= w.toolkit.last
       /\ x.xim.ic = None /\ x.xim.supported = w.xim.supported /\ w.xim.cancelled \subseteq x.xim.cancelled
       /\ (w.xim.ic # None => w.xim.ic \in x.xim.cancelled)
       /\ x.xim.focused = None /\ x.xim.lost = TRUE /\ x.toApp = w.toApp
  BY <1>10, <1>11, <1>13, <1>16, <1>17, <1>19
<1>22. Stamped(x, 0)
  BY <1>1, <1>20, <1>21 DEF Stamped, Waits, SameAsked
<1>23. Bounded(x)
  <2>1. IsFiniteSet({}) /\ Cardinality({}) = 0
    BY FS_EmptySet
  <2>2. 0 <= MaxQueue
    OBVIOUS
  <2>3. QED
    BY <1>21, <2>1, <2>2 DEF Bounded
<1>24. Owing(x)
  BY <1>1, <1>20, <1>21 DEF Owing, SameAsked
<1>25. Sequenced(x)
  <2>1. \A t \in Stamps : /\ (Went(x, t) => Went(w, t)) /\ ~Waits(x, t)
                          /\ (w.req[t].status = "confirmed" => x.req[t].status = "confirmed")
    BY <1>20 DEF Went, Waits
  <2>2. \A t \in Stamps : x.req[t].owner = w.req[t].owner /\ x.req[t].kind = w.req[t].kind
    BY <1>20 DEF SameAsked
  <2>4. \A t \in Stamps : t # x.order.pending
    BY <1>21
  <2>5. Sequenced(w)
    BY <1>1
  <2>3. QED
    BY <2>1, <2>2, <2>4, <2>5 DEF Sequenced
<1>26. Adapted(x)
  BY <1>21 DEF Adapted
<1>27. Sent(x)
  <2>1. \A t \in Stamps : Went(w, t) => Went(x, t)
    BY <1>20 DEF Went
  <2>2. \A i \in 1..Len(w.toApp) : w.toApp[i].s \in Stamps
    BY <1>1, EventPlaces
  <2>3. QED
    BY <1>1, <1>21, <2>1, <2>2 DEF Sent
<1>28. Loop(x)
  BY <1>19, <1>21, <1>22, <1>23, <1>24, <1>25, <1>26, <1>27 DEF Loop, Core, Shut, Firm, Draining
<1>29. Cut(w, x)
  <2>1. w.order.pending # 0 => x.req[w.order.pending].status = "failed"
    <3> SUFFICES ASSUME w.order.pending # 0 PROVE x.req[w.order.pending].status = "failed"
      OBVIOUS
    <3>1. w.order.pending \in Stamps /\ w.req[w.order.pending].status = "issued"
      BY <1>1, LoopFields DEF Loop, Firm
    <3>2. QED
      BY <1>20, <3>1
  <2>2. \A s \in Stamps : SameAsked(w, x, s)
    BY <1>20
  <2>3. \A s \in Stamps :
          \/ x.req[s].status = w.req[s].status
          \/ w.req[s].status = "queued" /\ x.req[s].status = "refused"
          \/ w.req[s].status = "issued" /\ x.req[s].status = "failed"
    BY <1>20
  <2>4. w.toolkit.last <= x.toolkit.last
    BY <1>1, <1>21, LoopFields
  <2>5. QED
    BY <1>21, <2>1, <2>2, <2>3, <2>4 DEF Cut
<1>30. QED
  BY <1>28, <1>29 DEF Yields

\* A set of numbers has a least one: of the intervals up to its elements one
\* contains none of the others.
LEMMA Least ==
  ASSUME NEW T, T \subseteq Nat, T # {}
  PROVE  \E x \in T : \A y \in T : x <= y
<1>1. PICK m \in T : TRUE
  OBVIOUS
<1> DEFINE U == {t \in T : t <= m}
           F == {0..t : t \in U}
<1>2. U \subseteq Nat /\ m \in U
  <2>1. m \in Nat /\ m <= m
    BY <1>1
  <2>2. QED
    BY <1>1, <2>1
<1>3. F # {}
  BY <1>2
<1>4. F \subseteq FiniteSubsetsOf(0..m)
  <2>1. ASSUME NEW t \in U PROVE 0..t \in FiniteSubsetsOf(0..m)
    <3>1. t \in Nat /\ t <= m /\ m \in Nat
      BY <1>1, <2>1
    <3>2. IsFiniteSet(0..t) /\ 0..t \subseteq 0..m
      BY <3>1, FS_Interval
    <3>3. QED
      BY <3>2 DEF FiniteSubsetsOf
  <2>2. QED
    BY <2>1
<1>5. IsFiniteSet(0..m)
  BY <1>1, FS_Interval
<1>6. IsWellFoundedOn(StrictSubsetOrdering(0..m), FiniteSubsetsOf(0..m))
  BY <1>5, FS_StrictSubsetOrderingWellFounded
<1>7. \E X \in F : \A Y \in F : ~ (<<Y, X>> \in StrictSubsetOrdering(0..m))
  <2> HIDE DEF F, U
  <2>1. QED
    BY <1>3, <1>4, <1>6, WFMin
<1>8. PICK X \in F : \A Y \in F : ~ (<<Y, X>> \in StrictSubsetOrdering(0..m))
  BY <1>7
<1>9. PICK x \in U : X = 0..x
  BY <1>8
<1>10. ASSUME NEW y \in T PROVE x <= y
  <2>1. x \in Nat /\ y \in Nat /\ m \in Nat /\ x <= m
    BY <1>1, <1>2, <1>9
  <2>2. SUFFICES ASSUME y < x PROVE FALSE
    BY <2>1
  <2>3. y \in U /\ 0..y \in F
    BY <2>1, <2>2
  <2>4. 0..y \subseteq 0..x /\ x \in 0..x /\ x \notin 0..y
    BY <2>1, <2>2
  <2>5. 0..y \subseteq 0..x /\ 0..y # 0..x
    BY <2>4, Zenon
  <2>6. 0..y \in SUBSET (0..m) /\ 0..x \in SUBSET (0..m)
    BY <2>1, <2>2
  <2>7. <<0..y, 0..x>> \in StrictSubsetOrdering(0..m)
    BY <2>5, <2>6 DEF StrictSubsetOrdering
  <2>8. QED
    BY <1>8, <1>9, <2>3, <2>7
<1>11. QED
  BY <1>9, <1>10

\* What Min gives of stamps
LEMMA LeastStamp ==
  ASSUME NEW S, S \subseteq Stamps, S # {}
  PROVE  Xpra!Min(S) \in S /\ \A t \in S : Xpra!Min(S) <= t
<1>1. S \subseteq Nat
  BY XpraAssumption
<1>2. \E s \in S : \A t \in S : s <= t
  BY <1>1, Least
<1>3. QED
  BY <1>2 DEF Xpra!Min

\* The first of the queue is out of it, and in hand.
Pops(w, p, f) ==
  /\ Core(p, f) /\ ~p.order.closed /\ p.order.pending = 0 /\ f \notin p.order.queue
  /\ p.viewers = w.viewers /\ p.toolkit = w.toolkit /\ p.xim = w.xim /\ p.toApp = w.toApp /\ p.req = w.req
  /\ w.order.pending = 0 /\ w.toolkit.text.op = 0 /\ w.xim.ic = None
  /\ f \in Stamps /\ w.req[f].status = "queued" /\ w.req[f].owner \in Viewers /\ w.req[f].kind \in {"text", "down"}
  /\ \A t \in Stamps : Waits(w, t) => f <= t

\* The first of the queue, in hand, has everything that went before it.
LEMMA Popping ==
  ASSUME NEW w, Loop(w), w.order.draining, NEW f, f = Xpra!Min(w.order.queue),
         NEW p, p = [w EXCEPT !.order.queue = @ \ {f}]
  PROVE  Pops(w, p, f)
<1> USE XpraAssumption
<1>1. /\ w \in Loops /\ Adapted(w) /\ Stamped(w, 0) /\ Bounded(w) /\ Owing(w) /\ Sequenced(w) /\ Sent(w)
      /\ w.order \in Schedule /\ w.order.queue # {} /\ w.order.pending = 0 /\ ~w.order.closed
      /\ w.order.queue \subseteq Stamps
  BY LoopFields DEF Loop, Core, Draining
<1>2. f \in w.order.queue /\ \A t \in w.order.queue : f <= t
  BY <1>1, LeastStamp
<1>3. f \in Stamps /\ w.req[f].status = "queued" /\ w.req[f].owner \in Viewers /\ w.req[f].kind \in {"text", "down"}
  <2>1. f \in Stamps /\ w.req[f].status = "queued"
    BY <1>1, <1>2 DEF Stamped, Waits
  <2>2. QED
    BY <1>1, <2>1 DEF Stamped
<1>4. \A t \in Stamps : Waits(w, t) => f <= t
  BY <1>1, <1>2 DEF Stamped
<1>5. PICK o : o = [w.order EXCEPT !.queue = @ \ {f}]
  OBVIOUS
<1>6. o \in Schedule /\ o.queue = w.order.queue \ {f} /\ o.pending = 0 /\ o.closed = w.order.closed /\ o.token = w.order.token
  BY <1>1, <1>5 DEF Schedule
<1>7. p = [w EXCEPT !.order = o]
  BY <1>1, <1>5 DEF Loops
<1>8. /\ p \in Loops /\ p.order = o /\ p.viewers = w.viewers /\ p.toolkit = w.toolkit /\ p.xim = w.xim
      /\ p.toApp = w.toApp /\ p.req = w.req
  BY <1>1, <1>6, <1>7 DEF Loops
<1>9. Stamped(p, f)
  <2>1. \A t : t \in p.order.queue <=> t \in w.order.queue /\ t # f
    BY <1>6, <1>8
  <2>2. p.order.pending = w.order.pending
    BY <1>1, <1>6, <1>8
  <2>3. QED
    BY <1>1, <1>8, <2>1, <2>2 DEF Stamped, Waits
<1>10. Bounded(p)
  <2>1. p.order.queue \subseteq w.order.queue
    BY <1>6, <1>8
  <2>2. IsFiniteSet(p.order.queue) /\ Cardinality(p.order.queue) <= Cardinality(w.order.queue)
    BY <1>1, <2>1, FS_Subset DEF Bounded
  <2>3. Cardinality(p.order.queue) \in Nat /\ Cardinality(w.order.queue) \in Nat
    BY <1>1, <2>2, FS_CardinalityType DEF Bounded
  <2>4. QED
    BY <1>1, <2>2, <2>3 DEF Bounded
<1>15. p.order.pending = w.order.pending /\ p.order.token = w.order.token /\ p.order.closed = w.order.closed
  BY <1>1, <1>6, <1>8
<1>16. Adapted(p)
  BY <1>1, <1>8, <1>15 DEF Adapted
<1>17. Shut(p)
  BY <1>1, <1>6, <1>8 DEF Shut
<1>11. Owing(p)
  BY <1>1, <1>8, <1>15 DEF Owing, Xpra!Available
<1>12. Sequenced(p)
  BY <1>1, <1>8, <1>15 DEF Sequenced, Went, Waits
<1>18. Sent(p)
  BY <1>1, <1>8 DEF Sent, Went
<1>13. Core(p, f)
  BY <1>8, <1>9, <1>10, <1>11, <1>12, <1>16, <1>17, <1>18 DEF Core
<1>14. QED
  BY <1>1, <1>3, <1>4, <1>6, <1>8, <1>13 DEF Pops, Adapted

\* A world whose adapters have no text
Unloaded(w, y) ==
  /\ y \in Loops /\ y.viewers = w.viewers /\ y.order = w.order /\ y.req = w.req /\ y.toApp = w.toApp
  /\ w.toolkit.last <= y.toolkit.last /\ y.toolkit.text.op = 0 /\ y.toolkit.text.number <= y.toolkit.last
  /\ y.xim.ic = None /\ y.xim.focused \in y.xim.supported \cup {None} /\ (y.xim.lost => y.xim.focused = None)

\* Losing the text leaves the queue and the requests in order.
LEMMA UnloadedKeeps == ASSUME NEW h, NEW w, Core(w, h), NEW y, Unloaded(w, y) PROVE Core(y, h)
<1>1. w \in Loops /\ y \in Loops /\ w.toolkit.last \in Nat /\ y.toolkit.last \in Nat /\ w.toolkit.last <= y.toolkit.last
  BY XpraAssumption, LoopFields DEF Core, Unloaded
<1>2. Stamped(y, h) /\ Bounded(y) /\ Shut(y)
  BY DEF Core, Unloaded, Stamped, Bounded, Shut, Waits
<1>3. Owing(y) /\ Sequenced(y)
  BY DEF Core, Unloaded, Owing, Sequenced, Xpra!Available, Went, Waits
<1>4. Adapted(y)
  BY DEF Core, Unloaded, Adapted
<1>5. Sent(y)
  <2>1. \A i \in 1..Len(w.toApp) : w.toApp[i].n \in 0..MaxMarker
    BY <1>1, EventPlaces
  <2>2. \A i \in 1..Len(w.toApp) : w.toApp[i].what = "marker" => w.toApp[i].n <= y.toolkit.last
    BY <1>1, <2>1, XpraAssumption DEF Core, Sent
  <2>3. QED
    BY <2>2 DEF Core, Sent, Unloaded, Went
<1>6. QED
  BY <1>1, <1>2, <1>3, <1>4, <1>5 DEF Core

\* The request in hand is pending.
Pended(p, q, f, token) ==
  /\ Core(q, f) /\ Owed(q, f) /\ q.order.pending = f /\ q.order.token = token /\ ~q.order.draining /\ ~q.order.closed
  /\ q.order.queue = p.order.queue
  /\ q.viewers = p.viewers /\ q.toolkit = p.toolkit /\ q.xim = p.xim /\ q.toApp = p.toApp /\ q.req = p.req

\* The request in hand waits for its answer.
LEMMA Pending ==
  ASSUME NEW w, Loop(w), NEW f, NEW p, Pops(w, p, f), NEW token \in ICs \cup {"toolkit", None},
         NEW q, q = Xpra!Pends(p, f, token)
  PROVE  Pended(p, q, f, token)
<1> USE XpraAssumption
<1>1. /\ p \in Loops /\ Adapted(p) /\ Stamped(p, f) /\ Bounded(p) /\ Owing(p) /\ Sequenced(p) /\ Sent(p)
      /\ p.order \in Schedule /\ f \in Stamps /\ p.order.pending = 0 /\ ~p.order.closed /\ p.req[f].status = "queued"
      /\ f \notin p.order.queue
  BY LoopFields DEF Pops, Core
<1>2. PICK o : o = [p.order EXCEPT !.pending = f, !.token = token, !.draining = FALSE]
  OBVIOUS
<1>3. /\ o \in Schedule /\ o.queue = p.order.queue /\ o.pending = f /\ o.closed = p.order.closed /\ o.token = token
      /\ o.draining = FALSE
  BY <1>1, <1>2 DEF Schedule
<1>4. q = [p EXCEPT !.order = o]
  BY <1>1, <1>2 DEF Loops, Xpra!Pends
<1>5. /\ q \in Loops /\ q.order = o /\ q.viewers = p.viewers /\ q.toolkit = p.toolkit /\ q.xim = p.xim
      /\ q.toApp = p.toApp /\ q.req = p.req
  BY <1>1, <1>3, <1>4 DEF Loops
<1>6. Stamped(q, f)
  BY <1>1, <1>3, <1>5 DEF Stamped, Waits
<1>7. Bounded(q) /\ Owing(q) /\ Shut(q) /\ Sent(q)
  BY <1>1, <1>3, <1>5 DEF Bounded, Owing, Shut, Sent, Xpra!Available, Went
<1>8. Adapted(q)
  BY <1>1, <1>3, <1>5 DEF Adapted
<1>9. Sequenced(q)
  <2>1. \A s \in Stamps : Went(p, s) => s <= f
    BY <1>1 DEF Sequenced, Waits
  <2>2. \A s \in Stamps : (Went(q, s) <=> Went(p, s)) /\ (Waits(q, s) <=> Waits(p, s))
    BY <1>5 DEF Went, Waits
  <2>3. \A s : s = q.order.pending => s = f
    BY <1>3, <1>5
  <2>4. Sequenced(p)
    BY <1>1
  <2>5. \A s, t \in Stamps : Went(q, s) /\ Waits(q, t) => s < t
    BY <2>2, <2>4 DEF Sequenced
  <2>6. \A s, t \in Stamps : Went(q, s) /\ t = q.order.pending => s <= t
    BY <2>1, <2>2, <2>3
  <2>7. \A s, t \in Stamps : t < s /\ Went(q, s) /\ q.req[t].owner = q.req[s].owner /\ q.req[t].kind = "text"
            => q.req[t].status = "confirmed"
    BY <1>5, <2>2, <2>4 DEF Sequenced
  <2>8. QED
    BY <2>5, <2>6, <2>7 DEF Sequenced
<1>10. QED
  BY <1>1, <1>3, <1>5, <1>6, <1>7, <1>8, <1>9 DEF Core, Pended, Owed

(* Places of a sequence *)

\* r is q with e behind.
Behind(q, e, r) ==
  /\ Len(q) \in Nat /\ Len(r) = Len(q) + 1 /\ r[Len(r)] = e /\ Len(r) \in 1..Len(r)
  /\ \A i \in 1..Len(q) : i \in 1..Len(r) /\ i # Len(r) /\ r[i] = q[i]
  /\ \A i \in 1..Len(r) : i \in 1..Len(q) \/ i = Len(r)

\* An event put behind others
LEMMA Appended ==
  ASSUME NEW S, NEW q \in Seq(S), NEW e \in S, NEW r, r = Append(q, e)
  PROVE  r \in Seq(S) /\ Behind(q, e, r)
<1>1. /\ r \in Seq(S) /\ Len(r) = Len(q) + 1 /\ \A i \in 1..Len(q) : r[i] = q[i]
  BY AppendProperties
<1>2. r[Len(q) + 1] = e /\ Len(q) \in Nat
  BY AppendProperties, LenProperties
<1>3. \A i \in 1..Len(q) : i \in 1..Len(r) /\ i # Len(r)
  BY <1>1, <1>2
<1>4. \A i \in 1..Len(r) : i \in 1..Len(q) \/ i = Len(r)
  BY <1>1, <1>2
<1>5. QED
  BY <1>1, <1>2, <1>3, <1>4 DEF Behind

\* Two that are appended are appended one after the other.
LEMMA AppendedTwice ==
  ASSUME NEW S, NEW q \in Seq(S), NEW a \in S, NEW b \in S
  PROVE  q \o <<a, b>> = Append(Append(q, a), b)
<1>1. PICK u, v : u = q \o <<a, b>> /\ v = Append(Append(q, a), b)
  OBVIOUS
<1>2. Append(q, a) \in Seq(S) /\ Len(Append(q, a)) = Len(q) + 1 /\ Len(q) \in Nat
      /\ (\A i \in 1..Len(q) : Append(q, a)[i] = q[i]) /\ Append(q, a)[Len(q) + 1] = a
  BY AppendProperties, LenProperties
<1>3. v \in Seq(S) /\ Len(v) = Len(q) + 2 /\ v[Len(q) + 2] = b
      /\ \A i \in 1..(Len(q) + 1) : v[i] = Append(q, a)[i]
  BY <1>1, <1>2, AppendProperties, LenProperties
<1>4. <<a, b>> \in Seq(S) /\ Len(<<a, b>>) = 2
  OBVIOUS
<1>5. u \in Seq(S) /\ Len(u) = Len(q) + 2 /\ (\A i \in 1..Len(q) : u[i] = q[i])
      /\ u[Len(q) + 1] = a /\ u[Len(q) + 2] = b
  BY <1>1, <1>2, <1>4, ConcatProperties
<1>6. v[Len(q) + 1] = a /\ \A i \in 1..Len(q) : v[i] = q[i]
  BY <1>2, <1>3
<1>7. \A i \in 1..Len(u) : u[i] = v[i]
  BY <1>2, <1>3, <1>5, <1>6
<1>8. u = v
  BY <1>3, <1>5, <1>7, SeqEqual
<1>9. QED
  BY <1>1, <1>8

\* r is q without its first.
Behead(q, r) ==
  /\ Len(r) \in Nat /\ Len(q) = Len(r) + 1 /\ 1 \in 1..Len(q)
  /\ \A i \in 1..Len(r) : i + 1 \in 1..Len(q) /\ r[i] = q[i + 1]

\* The first event is read.
LEMMA Beheaded ==
  ASSUME NEW S, NEW q \in Seq(S), q # <<>>, NEW r, r = Tail(q)
  PROVE  r \in Seq(S) /\ Behead(q, r) /\ Head(q) = q[1] /\ q[1] \in S
<1>1. Len(q) \in Nat /\ Len(q) >= 1 /\ q[1] \in S /\ 1 \in 1..Len(q)
  BY LenProperties, EmptySeq
<1>2. r \in Seq(S) /\ Len(r) = Len(q) - 1 /\ (\A i \in 1..Len(r) : r[i] = q[i + 1]) /\ Head(q) = q[1]
  BY HeadTailProperties
<1>3. \A i \in 1..Len(r) : i + 1 \in 1..Len(q)
  BY <1>1, <1>2
<1>4. QED
  BY <1>1, <1>2, <1>3 DEF Behead

(* What is drained *)

\* The request in hand goes to the application: it is issued, or a key.
Going(p, q, f) ==
  /\ q \in Loops /\ q.viewers = p.viewers /\ q.order.queue = p.order.queue /\ ~q.order.closed
  /\ \/ q.req[f].status = "issued" /\ q.order.pending = f /\ p.req[f].kind = "text"
     \/ q.req[f].status = "confirmed" /\ q.order.pending = 0 /\ p.req[f].kind = "down"
  /\ \A s \in Stamps : /\ SameAsked(p, q, s) /\ q.req[s].heard = p.req[s].heard
                       /\ s # f => q.req[s].status = p.req[s].status
Ahead(p, q, f) ==
  /\ Stamped(q, 0) /\ Bounded(q) /\ Owing(q) /\ Sequenced(q) /\ Shut(q)
  /\ Went(q, f) /\ \A s \in Stamps : Went(p, s) => s < f /\ Went(q, s)

\* A request that goes leaves the loop in order.
LEMMA Goes ==
  ASSUME NEW w, NEW p, NEW f, Pops(w, p, f), Xpra!Available(p, p.req[f].owner), NEW q, Going(p, q, f)
  PROVE  Ahead(p, q, f)
<1> USE XpraAssumption
<1>1. /\ p \in Loops /\ Stamped(p, f) /\ Bounded(p) /\ Owing(p) /\ Sequenced(p)
      /\ f \in Stamps /\ p.order.pending = 0 /\ ~p.order.closed /\ p.req[f].status = "queued"
      /\ p.req[f].owner \in Viewers /\ f \notin p.order.queue
  BY DEF Pops, Core
<1>2. \A t \in Stamps : Waits(p, t) => f <= t
  BY DEF Pops, Waits
<1>3. /\ q \in Loops /\ q.viewers = p.viewers /\ q.order.queue = p.order.queue /\ ~q.order.closed
      /\ q.req[f].status \in {"issued", "confirmed"} /\ (q.order.pending = f \/ q.order.pending = 0)
      /\ (q.req[f].status = "issued" => q.order.pending = f /\ p.req[f].kind = "text")
  BY DEF Going
<1>4. \A s \in Stamps : /\ q.req[s].owner = p.req[s].owner /\ q.req[s].kind = p.req[s].kind /\ q.req[s].heard = p.req[s].heard
                        /\ s # f => q.req[s].status = p.req[s].status
  BY DEF Going, SameAsked
<1>5. \A s \in Stamps : /\ Went(q, s) <=> Went(p, s) \/ s = f
                        /\ Waits(q, s) <=> Waits(p, s) /\ s # f
                        /\ p.req[s].status = "confirmed" => q.req[s].status = "confirmed"
  BY <1>1, <1>3, <1>4 DEF Went, Waits
<1>6. \A s \in Stamps : Went(p, s) => s < f
  BY <1>1 DEF Sequenced, Waits
<1>7. Stamped(q, 0)
  <2> SUFFICES ASSUME NEW s \in Stamps
               PROVE  /\ q.req[s].status # "none" => q.req[s].owner \in Viewers /\ q.req[s].kind \in {"text", "down"}
                      /\ \A t \in Stamps : t < s /\ q.req[s].status # "none" => q.req[t].status # "none"
                      /\ s \in q.order.queue => Waits(q, s)
                      /\ Waits(q, s) => s \in q.order.queue \/ s = 0
                      /\ q.req[s].status = "issued" => s = q.order.pending \/ s = 0
                      /\ q.req[s].kind = "down" => q.req[s].status \notin {"issued", "failed"}
    BY DEF Stamped
  <2>1. \A t \in Stamps : p.req[t].status # "none" <=> q.req[t].status # "none"
    BY <1>1, <1>3, <1>4
  <2>2. /\ q.req[s].status # "none" => q.req[s].owner \in Viewers /\ q.req[s].kind \in {"text", "down"}
        /\ \A t \in Stamps : t < s /\ q.req[s].status # "none" => q.req[t].status # "none"
    BY <1>1, <1>4, <2>1 DEF Stamped
  <2>3. s \in q.order.queue => Waits(q, s)
    BY <1>1, <1>3, <1>5 DEF Stamped
  <2>4. Waits(q, s) => s \in q.order.queue
    BY <1>1, <1>3, <1>5 DEF Stamped
  <2>5. q.req[s].status = "issued" => s = q.order.pending
    <3>1. p.req[s].status # "issued"
      BY <1>1 DEF Stamped
    <3>2. QED
      BY <1>3, <1>4, <3>1
  <2>6. q.req[s].kind = "down" => q.req[s].status \notin {"issued", "failed"}
    BY <1>1, <1>3, <1>4 DEF Stamped
  <2>7. QED
    BY <2>2, <2>3, <2>4, <2>5, <2>6
<1>8. Bounded(q) /\ Shut(q)
  BY <1>1, <1>3 DEF Bounded, Shut
<1>9. Owing(q)
  <2> SUFFICES ASSUME NEW s \in Stamps
               PROVE  /\ q.req[s].status \in {"failed", "refused"} => ~Xpra!Available(q, q.req[s].owner) \/ q.order.closed
                      /\ q.req[s].heard = "success" => q.req[s].status = "confirmed"
                      /\ q.req[s].heard = "failure" => q.req[s].status \in {"refused", "failed"}
    BY DEF Owing
  <2>1. CASE s = f
    <3>1. p.req[f].heard \notin {"success", "failure"}
      BY <1>1 DEF Owing
    <3>2. QED
      BY <1>1, <1>3, <1>4, <2>1, <3>1
  <2>2. CASE s # f
    BY <1>1, <1>3, <1>4, <2>2 DEF Owing, Xpra!Available
  <2>3. QED
    BY <2>1, <2>2
<1>10. Sequenced(q)
  <2>1. ASSUME NEW s \in Stamps, NEW t \in Stamps, Went(q, s), Waits(q, t) PROVE s < t
    <3>1. Waits(p, t) /\ t # f /\ f <= t
      BY <1>2, <1>5, <2>1
    <3>2. CASE s = f
      BY <3>1, <3>2
    <3>3. CASE s # f
      BY <1>1, <1>5, <2>1, <3>1, <3>3 DEF Sequenced
    <3>4. QED
      BY <3>2, <3>3
  <2>2. ASSUME NEW s \in Stamps, NEW t \in Stamps, Went(q, s), t = q.order.pending PROVE s <= t
    <3>1. t = f /\ f \in Nat
      BY <1>1, <1>3, <2>2
    <3>2. s = f \/ s < f
      BY <1>5, <1>6, <2>2
    <3>3. s \in Nat
      OBVIOUS
    <3>4. QED
      BY <3>1, <3>2, <3>3
  <2>3. ASSUME NEW s \in Stamps, NEW t \in Stamps, t < s, Went(q, s), q.req[t].owner = q.req[s].owner, q.req[t].kind = "text"
        PROVE  q.req[t].status = "confirmed"
    <3>1. p.req[t].owner = p.req[s].owner /\ p.req[t].kind = "text"
      BY <1>4, <2>3
    <3>2. CASE s = f
      <4>1. p.req[t].status # "none"
        BY <1>1, <2>3, <3>2 DEF Stamped
      <4>2. p.req[t].status # "queued"
        <5>1. Waits(p, t) => f <= t
          BY <1>2
        <5>2. t \in Nat /\ f \in Nat /\ t < f
          BY <1>1, <2>3, <3>2
        <5>3. ~Waits(p, t)
          BY <5>1, <5>2
        <5>4. QED
          BY <5>3 DEF Waits
      <4>3. p.req[t].status # "issued"
        BY <1>1, <2>3, <3>2 DEF Stamped
      <4>4. p.req[t].status \notin {"failed", "refused"}
        BY <1>1, <3>1, <3>2 DEF Owing
      <4>5. p.req[t].status = "confirmed"
        BY <1>1, <4>1, <4>2, <4>3, <4>4, RequestFields
      <4>6. QED
        BY <1>5, <4>5
    <3>3. CASE s # f
      <4>1. Went(p, s)
        BY <1>5, <2>3, <3>3
      <4>2. p.req[t].status = "confirmed"
        BY <1>1, <2>3, <3>1, <4>1 DEF Sequenced
      <4>3. QED
        BY <1>5, <4>2
    <3>4. QED
      BY <3>2, <3>3
  <2>4. QED
    BY <2>1, <2>2, <2>3 DEF Sequenced
<1>11. QED
  BY <1>1, <1>5, <1>6, <1>7, <1>8, <1>9, <1>10 DEF Ahead

\* What is given up of a world whose adapters have no text any more is given up of
\* the world they had one in.
Emptied(w, y) ==
  /\ y \in Loops /\ y.req = w.req /\ y.toApp = w.toApp /\ y.xim.supported = w.xim.supported /\ (w.xim.lost => y.xim.lost)
  /\ w.xim.cancelled \subseteq y.xim.cancelled /\ w.toolkit.last <= y.toolkit.last /\ w.xim.ic = None
  /\ w.order.pending = 0 \/ w.order.pending = y.order.pending

\* A world that was cut has only less to send.
LEMMA CutBack ==
  ASSUME NEW w \in Loops, NEW y, Emptied(w, y), NEW x, Undelivered(y, x)
  PROVE  Yields(w, x)
<1> USE XpraAssumption
<1>1. Loop(x) /\ Cut(y, x) /\ x.order.pending = 0 /\ Adapted(x) /\ x \in Loops
  BY DEF Undelivered, Yields, Loop, Core
<1>2. w.toolkit.last \in Nat /\ y.toolkit.last \in Nat /\ x.toolkit.last \in Nat /\ w.order.pending \in Stamps \cup {0}
  BY <1>1, LoopFields DEF Emptied
<1>3. w.toolkit.last <= y.toolkit.last /\ y.toolkit.last <= x.toolkit.last
  BY <1>1 DEF Emptied, Cut
<1>4. w.toolkit.last <= x.toolkit.last
  BY <1>2, <1>3
<1>5. x.toolkit.text.op = 0 /\ x.xim.ic = None
  BY <1>1 DEF Adapted
<1>6. w.order.pending # 0 => x.req[w.order.pending].status \in {"failed", "refused"}
  BY <1>1 DEF Emptied, Cut
<1>7. /\ x.toApp = w.toApp /\ x.xim.supported = w.xim.supported
      /\ w.xim.cancelled \subseteq x.xim.cancelled /\ (w.xim.lost => x.xim.lost) /\ w.xim.ic = None
  BY <1>1 DEF Emptied, Cut
<1>8. \A s \in Stamps :
       /\ SameAsked(w, x, s)
       /\ \/ x.req[s].status = w.req[s].status
          \/ w.req[s].status = "queued" /\ x.req[s].status = "refused"
          \/ w.req[s].status = "issued" /\ x.req[s].status = "failed"
  BY <1>1 DEF Emptied, Cut, SameAsked
<1>9. Cut(w, x)
  BY <1>1, <1>4, <1>5, <1>6, <1>7, <1>8 DEF Cut
<1>10. QED
  BY <1>1, <1>9 DEF Yields

\* Events for the application, as the loop has sent them
Ordered(w, u) ==
  /\ \A i \in 1..Len(u) : Went(w, u[i].s)
  /\ \A i, j \in 1..Len(u) : i < j => u[i].s <= u[j].s
  /\ \A i \in 1..Len(u) : u[i].what = "marker" =>
       /\ u[i].n <= w.toolkit.last
       /\ w.toolkit.text.op # 0 /\ u[i].n = w.toolkit.text.number => u[i].s = w.toolkit.text.op
UpTo(u, f) == \A i \in 1..Len(u) : u[i].s \in Stamps /\ u[i].s <= f

\* What goes to the application is behind what went before.
LEMMA SentMore ==
  ASSUME NEW w, NEW f \in Stamps, Went(w, f), NEW u, Ordered(w, u), UpTo(u, f), NEW e, e.s = f,
         e.what = "marker" => /\ e.n <= w.toolkit.last
                              /\ w.toolkit.text.op # 0 /\ e.n = w.toolkit.text.number => e.s = w.toolkit.text.op,
         NEW r, Behind(u, e, r)
  PROVE  Ordered(w, r) /\ UpTo(r, f)
<1> USE XpraAssumption
<1>1. \A i \in 1..Len(r) : (i \in 1..Len(u) /\ r[i] = u[i]) \/ (i = Len(r) /\ r[i] = e)
  BY DEF Behind
<1>2. UpTo(r, f)
  BY <1>1 DEF UpTo
<1>3. ASSUME NEW i \in 1..Len(r), NEW j \in 1..Len(r), i < j PROVE r[i].s <= r[j].s
  <2>1. i # Len(r) /\ Len(r) \in Nat
    BY <1>3 DEF Behind
  <2>2. i \in 1..Len(u) /\ r[i] = u[i]
    BY <1>1, <2>1
  <2>3. CASE j = Len(r)
    BY <1>1, <2>2, <2>3 DEF UpTo, Behind
  <2>4. CASE j # Len(r)
    BY <1>1, <1>3, <2>2, <2>4 DEF Ordered
  <2>5. QED
    BY <2>3, <2>4
<1>4. \A i \in 1..Len(r) : Went(w, r[i].s)
  BY <1>1 DEF Ordered
<1>5. \A i \in 1..Len(r) : r[i].what = "marker" =>
       /\ r[i].n <= w.toolkit.last
       /\ w.toolkit.text.op # 0 /\ r[i].n = w.toolkit.text.number => r[i].s = w.toolkit.text.op
  BY <1>1 DEF Ordered
<1>6. QED
  BY <1>2, <1>3, <1>4, <1>5 DEF Ordered

\* A request went to the application: a key, or a text that is pending now.
Out(w, x, f) ==
  /\ Loop(x) /\ f \in Stamps /\ w.req[f].status = "queued" /\ w.order.pending = 0 /\ w.toolkit.text.op = 0 /\ w.xim.ic = None
  /\ \/ x.req[f].status = "issued" /\ x.order.pending = f /\ w.req[f].kind = "text"
     \/ x.req[f].status = "confirmed" /\ x.order.pending = 0 /\ w.req[f].kind = "down"
  /\ \A s \in Stamps : SameAsked(w, x, s) /\ (s # f => x.req[s].status = w.req[s].status)
  /\ \A s \in Stamps : Went(w, s) => s < f
Plain(w, x) == /\ x.xim.supported = w.xim.supported /\ x.xim.cancelled = w.xim.cancelled /\ x.xim.lost = w.xim.lost
               /\ x.toolkit.last \in Nat /\ w.toolkit.last <= x.toolkit.last

\* The parts of Sent
LEMMA SentParts == ASSUME NEW w PROVE Sent(w) <=> Ordered(w, w.toApp)
  BY DEF Sent, Ordered

\* What Goes says of the events on their way
LEMMA SentAhead ==
  ASSUME NEW w, NEW p, NEW f, Pops(w, p, f), NEW q, Ahead(p, q, f)
  PROVE  UpTo(p.toApp, f) /\ \A i \in 1..Len(p.toApp) : Went(q, p.toApp[i].s)
<1>1. p \in Loops /\ Sent(p) /\ f \in Stamps
  BY DEF Pops, Core
<1>2. \A i \in 1..Len(p.toApp) : p.toApp[i].s \in Stamps /\ Went(p, p.toApp[i].s)
  BY <1>1, EventPlaces DEF Sent
<1>3. \A i \in 1..Len(p.toApp) : p.toApp[i].s < f /\ Went(q, p.toApp[i].s)
  BY <1>2 DEF Ahead
<1>4. \A i \in 1..Len(p.toApp) : p.toApp[i].s <= f
  <2>1. \A s, t \in Stamps : s < t => s <= t
    BY XpraAssumption
  <2>2. QED
    BY <1>1, <1>2, <1>3, <2>1
<1>5. QED
  BY <1>2, <1>3, <1>4 DEF UpTo

\* A key
KeyOut(w, x, f) == Out(w, x, f) /\ x.order.pending = 0 /\ x.toolkit = w.toolkit /\ x.xim = w.xim
                   /\ \E e \in XpraEvent : e.what = "key" /\ e.s = f /\ Behind(w.toApp, e, x.toApp)

\* A key goes: it is confirmed at once.
LEMMA KeyGoes ==
  ASSUME NEW w, NEW p, NEW f, Pops(w, p, f), Xpra!Available(p, p.req[f].owner), p.req[f].kind = "down",
         NEW x, x = Xpra!Drains([p EXCEPT !.req[f].status = "confirmed", !.toApp = Append(@, Xpra!Event("key", f, None))])
  PROVE  KeyOut(w, x, f)
<1> USE XpraAssumption
<1>1. /\ p \in Loops /\ Adapted(p) /\ Sent(p) /\ f \in Stamps /\ p.order.pending = 0 /\ ~p.order.closed
      /\ p.req[f].status = "queued" /\ p.req[f] \in XpraRequest
  BY RequestFields DEF Pops, Core
<1>2. PICK r, e, u : /\ r = [p.req[f] EXCEPT !.status = "confirmed"] /\ e = Xpra!Event("key", f, None)
                     /\ u = Append(p.toApp, e)
  OBVIOUS
<1>3. /\ r \in XpraRequest /\ r.status = "confirmed" /\ r.owner = p.req[f].owner
      /\ r.kind = p.req[f].kind /\ r.size = p.req[f].size /\ r.heard = p.req[f].heard
  BY <1>1, <1>2 DEF XpraRequest
<1>4. e \in XpraEvent /\ e.what = "key" /\ e.s = f
  <2>1. e = [what |-> "key", s |-> f, n |-> 0, ic |-> None] /\ 0 \in 0..MaxMarker
    BY <1>2 DEF Xpra!Event
  <2>2. QED
    BY <1>1, <2>1 DEF XpraEvent
<1>5. u \in Seq(XpraEvent) /\ Behind(p.toApp, e, u)
  <2>1. p.toApp \in Seq(XpraEvent)
    BY <1>1, LoopFields
  <2>2. QED
    BY <1>2, <1>4, <2>1, Appended
<1>6. PICK c, q : c = [p EXCEPT !.req[f] = r] /\ q = [c EXCEPT !.toApp = u]
  OBVIOUS
<1>7. Reset(p, c, f, r)
  BY <1>1, <1>3, <1>6, RequestBecomes
<1>8. /\ c \in Loops /\ c.viewers = p.viewers /\ c.order = p.order /\ c.toolkit = p.toolkit /\ c.xim = p.xim
      /\ c.toApp = p.toApp /\ c.req[f] = r /\ \A t \in Stamps : t # f => c.req[t] = p.req[t]
  BY <1>7 DEF Reset
<1>9. /\ q \in Loops /\ q.viewers = p.viewers /\ q.order = p.order /\ q.toolkit = p.toolkit /\ q.xim = p.xim
      /\ q.toApp = u /\ q.req = c.req
  BY <1>5, <1>6, <1>8 DEF Loops
<1>10. q = [p EXCEPT !.req[f].status = "confirmed", !.toApp = Append(@, Xpra!Event("key", f, None))]
  <2>1. [p EXCEPT !.req[f].status = "confirmed"] = c
    BY <1>1, <1>2, <1>6 DEF Loops
  <2>2. [c EXCEPT !.toApp = Append(@, Xpra!Event("key", f, None))] = q
    BY <1>2, <1>6, <1>8 DEF Loops
  <2>3. QED
    BY <2>1, <2>2
<1>11. x = Xpra!Drains(q)
  BY <1>10
<1>12. \A s \in Stamps : /\ SameAsked(p, q, s) /\ q.req[s].heard = p.req[s].heard
                         /\ s # f => q.req[s].status = p.req[s].status
  BY <1>3, <1>8, <1>9 DEF SameAsked
<1>13. q.req[f].status = "confirmed" /\ q.order.pending = 0
  BY <1>1, <1>3, <1>8, <1>9
<1>14. Going(p, q, f)
  BY <1>1, <1>9, <1>12, <1>13 DEF Going
<1>15. Ahead(p, q, f)
  BY <1>14, Goes
<1>16. UpTo(p.toApp, f) /\ \A i \in 1..Len(p.toApp) : Went(q, p.toApp[i].s)
  BY <1>15, SentAhead
<1>17. Sent(q)
  <2>1. Ordered(q, p.toApp)
    BY <1>1, <1>9, <1>16 DEF Sent, Ordered
  <2>2. Went(q, f)
    BY <1>15 DEF Ahead
  <2>3. Ordered(q, u)
    BY <1>1, <1>4, <1>5, <1>16, <2>1, <2>2, SentMore
  <2>4. QED
    BY <1>9, <2>3, SentParts
<1>18. Adapted(q)
  BY <1>1, <1>9 DEF Adapted
<1>19. Core(q, 0)
  BY <1>9, <1>15, <1>17, <1>18 DEF Core, Ahead
<1>20. Turned(q, x, 0)
  BY <1>11, <1>19, Drained
<1>21. /\ Core(x, 0) /\ Draining(x) /\ x.viewers = q.viewers /\ x.toolkit = q.toolkit /\ x.xim = q.xim
       /\ x.toApp = q.toApp /\ x.req = q.req /\ x.order.pending = 0
  BY <1>13, <1>20 DEF Turned
<1>22. Loop(x)
  BY <1>21 DEF Loop, Firm
<1>23. /\ p.toolkit = w.toolkit /\ p.xim = w.xim /\ p.toApp = w.toApp /\ p.req = w.req
       /\ w.order.pending = 0 /\ w.toolkit.text.op = 0 /\ w.xim.ic = None
  BY DEF Pops
<1>24. \A s \in Stamps : SameAsked(w, x, s) /\ (s # f => x.req[s].status = w.req[s].status)
  BY <1>12, <1>21, <1>23 DEF SameAsked
<1>25. \A s \in Stamps : Went(w, s) => s < f
  BY <1>15, <1>23 DEF Ahead, Went
<1>26. Out(w, x, f)
  BY <1>1, <1>13, <1>21, <1>22, <1>23, <1>24, <1>25 DEF Out
<1>27. QED
  BY <1>4, <1>5, <1>9, <1>21, <1>23, <1>26 DEF KeyOut

\* A marker: the context's module has the text, under a number that is newer.
MarkOut(w, x, f) == Out(w, x, f) /\ x.order.pending = f /\ x.xim = w.xim /\ Plain(w, x)
                    /\ x.toolkit.text.op = f /\ w.toolkit.last < x.toolkit.text.number
                    /\ \E e \in XpraEvent : e.what = "marker" /\ e.s = f /\ e.n = x.toolkit.text.number /\ Behind(w.toApp, e, x.toApp)
\* What is sent, of a world where the text is pending
Marks(y, f, number, x) ==
  x = Xpra!Marked([y EXCEPT !.toolkit.last = number, !.req[f].status = "issued",
                     !.toolkit.text = [op |-> f, number |-> number, held |-> TRUE]])

\* A marker goes: its text is issued, in the module.
LEMMA MarkGoes ==
  ASSUME NEW w, NEW p, NEW f, Pops(w, p, f), Xpra!Available(p, p.req[f].owner), p.req[f].kind = "text",
         NEW y, Pended(p, y, f, "toolkit"), NEW number \in 0..MaxMarker, p.toolkit.last < number,
         NEW x, Marks(y, f, number, x)
  PROVE  MarkOut(w, x, f)
<1> USE XpraAssumption
<1>1. /\ p \in Loops /\ Adapted(p) /\ Sent(p) /\ f \in Stamps /\ p.order.pending = 0 /\ ~p.order.closed
      /\ p.req[f].status = "queued" /\ p.req[f] \in XpraRequest /\ p.toolkit \in Modules /\ p.toolkit.last \in Nat
      /\ number \in Nat
  BY RequestFields, LoopFields DEF Pops, Core
<1>2. /\ y \in Loops /\ y.order.pending = f /\ y.order.token = "toolkit" /\ ~y.order.draining /\ ~y.order.closed
      /\ y.order.queue = p.order.queue /\ y.viewers = p.viewers /\ y.toolkit = p.toolkit /\ y.xim = p.xim
      /\ y.toApp = p.toApp /\ y.req = p.req
  BY DEF Pended, Core
<1>3. PICK r, m, t : /\ r = [p.req[f] EXCEPT !.status = "issued"]
                     /\ t = [op |-> f, number |-> number, held |-> TRUE]
                     /\ m = [p.toolkit EXCEPT !.last = number, !.text = t]
  BY Zenon
<1>4. /\ r \in XpraRequest /\ r.status = "issued" /\ r.owner = p.req[f].owner
      /\ r.kind = p.req[f].kind /\ r.size = p.req[f].size /\ r.heard = p.req[f].heard
  BY <1>1, <1>3 DEF XpraRequest
<1>5. t \in [op : Stamps \cup {0}, number : 0..MaxMarker, held : BOOLEAN] /\ t.op = f /\ t.number = number
  BY <1>1, <1>3
<1>6. m \in Modules /\ m.last = number /\ m.text = t
  BY <1>1, <1>3, <1>5 DEF Modules
<1>7. PICK c, g : c = [y EXCEPT !.req[f] = r] /\ g = [c EXCEPT !.toolkit = m]
  OBVIOUS
<1>8. Reset(y, c, f, r)
  BY <1>1, <1>2, <1>4, <1>7, RequestBecomes
<1>9. /\ c \in Loops /\ c.viewers = p.viewers /\ c.order = y.order /\ c.toolkit = p.toolkit /\ c.xim = p.xim
      /\ c.toApp = p.toApp /\ c.req[f] = r /\ \A s \in Stamps : s # f => c.req[s] = p.req[s]
  BY <1>2, <1>8 DEF Reset
<1>10. /\ g \in Loops /\ g.viewers = p.viewers /\ g.order = y.order /\ g.toolkit = m /\ g.xim = p.xim
       /\ g.toApp = p.toApp /\ g.req = c.req
  BY <1>6, <1>7, <1>9 DEF Loops
<1>11. g = [y EXCEPT !.toolkit.last = number, !.req[f].status = "issued", !.toolkit.text = t]
  <2>1. PICK m1, y1 : m1 = [p.toolkit EXCEPT !.last = number] /\ y1 = [y EXCEPT !.toolkit = m1]
    OBVIOUS
  <2>2. m1 \in Modules /\ m = [m1 EXCEPT !.text = t]
    BY <1>1, <1>3, <2>1 DEF Modules
  <2>3. y1 = [y EXCEPT !.toolkit.last = number]
    BY <1>2, <2>1 DEF Loops
  <2>4. y1 \in Loops /\ y1.toolkit = m1 /\ y1.req = p.req
    BY <1>2, <2>1, <2>2 DEF Loops
  <2>5. PICK y2 : y2 = [y1 EXCEPT !.req[f] = r]
    OBVIOUS
  <2>6. y2 = [y1 EXCEPT !.req[f].status = "issued"]
    BY <1>1, <1>3, <2>4, <2>5 DEF Loops
  <2>7. [y2 EXCEPT !.toolkit.text = t] = g
    BY <1>2, <1>6, <1>7, <2>1, <2>2, <2>4, <2>5 DEF Loops
  <2>8. QED
    BY <2>3, <2>6, <2>7
<1>12. PICK e, u : e = [what |-> "marker", s |-> f, n |-> number, ic |-> None] /\ u = Append(p.toApp, e)
  OBVIOUS
<1>13. e \in XpraEvent /\ e.what = "marker" /\ e.s = f /\ e.n = number
  BY <1>1, <1>12 DEF XpraEvent
<1>14. u \in Seq(XpraEvent) /\ Behind(p.toApp, e, u)
  <2>1. p.toApp \in Seq(XpraEvent)
    BY <1>1, LoopFields
  <2>2. QED
    BY <1>12, <1>13, <2>1, Appended
<1>15. x = [g EXCEPT !.toApp = u]
  <2>1. x = Xpra!Marked(g)
    BY <1>3, <1>11, Zenon DEF Marks
  <2>2. [Xpra!Event("marker", f, None) EXCEPT !.n = number] = e
    BY <1>12 DEF Xpra!Event
  <2>3. QED
    BY <1>5, <1>6, <1>10, <1>12, <2>1, <2>2 DEF Xpra!Marked, Loops
<1>16. /\ x \in Loops /\ x.viewers = p.viewers /\ x.order = y.order /\ x.toolkit = m /\ x.xim = p.xim
       /\ x.toApp = u /\ x.req = c.req
  BY <1>10, <1>14, <1>15 DEF Loops
<1>17. \A s \in Stamps : /\ SameAsked(p, x, s) /\ x.req[s].heard = p.req[s].heard
                         /\ s # f => x.req[s].status = p.req[s].status
  BY <1>4, <1>9, <1>16 DEF SameAsked
<1>18. x.req[f].status = "issued" /\ x.order.pending = f
  BY <1>2, <1>4, <1>9, <1>16
<1>19. Going(p, x, f)
  BY <1>2, <1>16, <1>17, <1>18 DEF Going
<1>20. Ahead(p, x, f)
  BY <1>19, Goes
<1>21. UpTo(p.toApp, f) /\ \A i \in 1..Len(p.toApp) : Went(x, p.toApp[i].s)
  BY <1>20, SentAhead
<1>22. x.toolkit.last = number /\ x.toolkit.text.op = f /\ x.toolkit.text.number = number
  BY <1>5, <1>6, <1>16
<1>23. Sent(x)
  <2>1. \A i \in 1..Len(p.toApp) : p.toApp[i].what = "marker" =>
          p.toApp[i].n <= x.toolkit.last /\ p.toApp[i].n # x.toolkit.text.number
    <3>1. \A i \in 1..Len(p.toApp) : p.toApp[i].n \in 0..MaxMarker
      BY <1>1, EventPlaces
    <3>2. \A i \in 1..Len(p.toApp) : p.toApp[i].what = "marker" => p.toApp[i].n <= p.toolkit.last
      BY <1>1 DEF Sent
    <3>3. \A n \in 0..MaxMarker : n <= p.toolkit.last => n <= number /\ n # number
      BY <1>1
    <3>4. QED
      BY <1>22, <3>1, <3>2, <3>3
  <2>2. Ordered(x, p.toApp)
    BY <1>1, <1>21, <2>1 DEF Sent, Ordered
  <2>3. Went(x, f)
    BY <1>20 DEF Ahead
  <2>4. e.n <= x.toolkit.last /\ e.s = x.toolkit.text.op
    BY <1>1, <1>13, <1>22
  <2>5. Ordered(x, u)
    BY <1>1, <1>13, <1>14, <1>21, <2>2, <2>3, <2>4, SentMore
  <2>6. QED
    BY <1>16, <2>5, SentParts
<1>29. /\ p.toolkit = w.toolkit /\ p.xim = w.xim /\ p.toApp = w.toApp /\ p.req = w.req
       /\ w.order.pending = 0 /\ w.toolkit.text.op = 0 /\ w.xim.ic = None
  BY DEF Pops
<1>24. Adapted(x)
  <2>1. x.toolkit.text.number <= x.toolkit.last
    BY <1>1, <1>22
  <2>2. x.order.pending # 0 /\ x.order.pending = x.toolkit.text.op /\ x.order.token = "toolkit"
    BY <1>1, <1>2, <1>16, <1>18, <1>22
  <2>3. x.xim.ic = None /\ x.xim.focused \in x.xim.supported \cup {None} /\ (x.xim.lost => x.xim.focused = None)
    BY <1>1, <1>16, <1>29 DEF Adapted
  <2>4. QED
    BY <2>1, <2>2, <2>3 DEF Adapted
<1>25. Core(x, 0)
  BY <1>16, <1>20, <1>23, <1>24 DEF Core, Ahead
<1>26. Firm(x) /\ Draining(x)
  <2>1. x.req[f].kind = "text" /\ f # 0
    BY <1>1, <1>17 DEF SameAsked
  <2>2. ~x.order.draining
    BY <1>2, <1>16
  <2>3. QED
    BY <1>18, <1>22, <2>1, <2>2 DEF Firm, Draining
<1>30. \A s \in Stamps : SameAsked(w, x, s) /\ (s # f => x.req[s].status = w.req[s].status)
  BY <1>17, <1>29 DEF SameAsked
<1>31. \A s \in Stamps : Went(w, s) => s < f
  BY <1>20, <1>29 DEF Ahead, Went
<1>32. Out(w, x, f)
  BY <1>1, <1>18, <1>25, <1>26, <1>29, <1>30, <1>31 DEF Out, Loop
<1>33. Plain(w, x)
  BY <1>1, <1>16, <1>22, <1>29 DEF Plain
<1>34. QED
  BY <1>13, <1>14, <1>16, <1>18, <1>22, <1>29, <1>32, <1>33 DEF MarkOut

\* Two events of a fragment are behind the others.
FragmentSent(u, r, f, c) == \E a, b \in XpraEvent, t \in Seq(XpraEvent) :
  /\ a.what = "commit" /\ b.what = "sync" /\ a.s = f /\ b.s = f /\ a.ic = c /\ b.ic = c
  /\ Behind(u, a, t) /\ Behind(t, b, r)

\* What a fragment changes
Fragmenting(z, x) ==
  /\ x \in Loops /\ x.viewers = z.viewers /\ x.order = z.order /\ x.toolkit = z.toolkit
  /\ x.xim.ic = z.xim.ic /\ x.xim.left + 1 = z.xim.left /\ x.xim.focused = z.xim.focused
  /\ x.xim.supported = z.xim.supported /\ x.xim.cancelled = z.xim.cancelled /\ x.xim.lost = z.xim.lost
  /\ x.req[z.order.pending].status = "issued"
  /\ \A s \in Stamps : /\ SameAsked(z, x, s) /\ x.req[s].heard = z.req[s].heard
                       /\ s # z.order.pending => x.req[s].status = z.req[s].status
  /\ FragmentSent(z.toApp, x.toApp, z.order.pending, z.xim.ic)

\* A fragment and its sync are two events behind the others.
LEMMA Fragment ==
  ASSUME NEW z \in Loops, z.order.pending \in Stamps, z.xim.ic \in ICs, z.xim.left # 0, NEW x,
         x = [z EXCEPT !.xim.left = @ - 1, !.req[z.order.pending].status = "issued",
                !.toApp = @ \o <<Xpra!Event("commit", z.order.pending, z.xim.ic), Xpra!Event("sync", z.order.pending, z.xim.ic)>>]
  PROVE  Fragmenting(z, x)
<1> USE XpraAssumption
<1>1. PICK f, c : f = z.order.pending /\ c = z.xim.ic
  OBVIOUS
<1>2. /\ f \in Stamps /\ c \in ICs /\ z.xim \in Focuses /\ z.xim.left \in 0..MaxFragments /\ z.xim.left # 0
      /\ z.req[f] \in XpraRequest /\ z.toApp \in Seq(XpraEvent)
  BY <1>1, LoopFields, RequestFields
<1>3. PICK l : l = z.xim.left - 1
  OBVIOUS
<1>4. l \in 0..MaxFragments /\ l + 1 = z.xim.left
  BY <1>2, <1>3
<1>5. PICK m, r : m = [z.xim EXCEPT !.left = l] /\ r = [z.req[f] EXCEPT !.status = "issued"]
  OBVIOUS
<1>6. /\ m \in Focuses /\ m.left = l /\ m.ic = z.xim.ic /\ m.focused = z.xim.focused /\ m.supported = z.xim.supported
      /\ m.cancelled = z.xim.cancelled /\ m.lost = z.xim.lost
  BY <1>2, <1>4, <1>5 DEF Focuses
<1>7. /\ r \in XpraRequest /\ r.status = "issued" /\ r.owner = z.req[f].owner
      /\ r.kind = z.req[f].kind /\ r.size = z.req[f].size /\ r.heard = z.req[f].heard
  BY <1>2, <1>5 DEF XpraRequest
<1>8. PICK a, b : a = Xpra!Event("commit", f, c) /\ b = Xpra!Event("sync", f, c)
  OBVIOUS
<1>9. /\ a \in XpraEvent /\ b \in XpraEvent /\ a.what = "commit" /\ b.what = "sync" /\ a.s = f /\ b.s = f
      /\ a.ic = c /\ b.ic = c
  <2>1. /\ a = [what |-> "commit", s |-> f, n |-> 0, ic |-> c]
        /\ b = [what |-> "sync", s |-> f, n |-> 0, ic |-> c] /\ 0 \in 0..MaxMarker
    BY <1>8 DEF Xpra!Event
  <2>2. QED
    BY <1>2, <2>1 DEF XpraEvent
<1>10. PICK t, u : t = Append(z.toApp, a) /\ u = z.toApp \o <<a, b>>
  OBVIOUS
<1>11. t \in Seq(XpraEvent) /\ Behind(z.toApp, a, t)
  BY <1>2, <1>9, <1>10, Appended
<1>12. u = Append(t, b)
  BY <1>2, <1>9, <1>10, AppendedTwice
<1>13. u \in Seq(XpraEvent) /\ Behind(t, b, u)
  BY <1>9, <1>11, <1>12, Appended
<1>14. FragmentSent(z.toApp, u, f, c)
  BY <1>9, <1>11, <1>13 DEF FragmentSent
<1>15. PICK g, h : g = [z EXCEPT !.xim = m] /\ h = [g EXCEPT !.req[f] = r]
  OBVIOUS
<1>16. /\ g \in Loops /\ g.viewers = z.viewers /\ g.order = z.order /\ g.toolkit = z.toolkit /\ g.xim = m
       /\ g.toApp = z.toApp /\ g.req = z.req
  BY <1>6, <1>15 DEF Loops
<1>17. Reset(g, h, f, r)
  BY <1>2, <1>7, <1>15, <1>16, RequestBecomes
<1>18. /\ h \in Loops /\ h.viewers = z.viewers /\ h.order = z.order /\ h.toolkit = z.toolkit /\ h.xim = m
       /\ h.toApp = z.toApp /\ h.req[f] = r /\ \A s \in Stamps : s # f => h.req[s] = z.req[s]
  BY <1>16, <1>17 DEF Reset
<1>19. x = [h EXCEPT !.toApp = u]
  <2>1. g = [z EXCEPT !.xim.left = @ - 1]
    BY <1>3, <1>5, <1>15 DEF Loops
  <2>2. h = [g EXCEPT !.req[f].status = "issued"]
    BY <1>2, <1>5, <1>15, <1>16 DEF Loops
  <2>3. [h EXCEPT !.toApp = @ \o <<a, b>>] = [h EXCEPT !.toApp = u]
    BY <1>10, <1>18 DEF Loops
  <2>4. x = [[[z EXCEPT !.xim.left = @ - 1] EXCEPT !.req[f].status = "issued"] EXCEPT !.toApp = @ \o <<a, b>>]
    BY <1>1, <1>8, Zenon
  <2>5. QED
    BY <2>1, <2>2, <2>3, <2>4, Zenon
<1>20. /\ x \in Loops /\ x.viewers = z.viewers /\ x.order = z.order /\ x.toolkit = z.toolkit /\ x.xim = m
       /\ x.toApp = u /\ x.req = h.req
  BY <1>13, <1>18, <1>19 DEF Loops
<1>21. \A s \in Stamps : /\ SameAsked(z, x, s) /\ x.req[s].heard = z.req[s].heard
                         /\ s # f => x.req[s].status = z.req[s].status
  BY <1>7, <1>18, <1>20 DEF SameAsked
<1>22. x.req[f].status = "issued"
  BY <1>7, <1>18, <1>20
<1>23. x.xim.left + 1 = z.xim.left
  BY <1>4, <1>6, <1>20
<1>24. QED
  BY <1>1, <1>6, <1>14, <1>20, <1>21, <1>22, <1>23 DEF Fragmenting

\* The events of a fragment are of what is pending, which went last.
LEMMA FragmentOrdered ==
  ASSUME NEW x, NEW f \in Stamps, Went(x, f), NEW u, Ordered(x, u), UpTo(u, f), NEW r, NEW c, FragmentSent(u, r, f, c)
  PROVE  Ordered(x, r)
<1>1. PICK a, b \in XpraEvent, t \in Seq(XpraEvent) :
        /\ a.what = "commit" /\ b.what = "sync" /\ a.s = f /\ b.s = f
        /\ Behind(u, a, t) /\ Behind(t, b, r)
  BY DEF FragmentSent
<1>2. Ordered(x, t) /\ UpTo(t, f)
  BY <1>1, SentMore
<1>3. QED
  BY <1>1, <1>2, SentMore

\* The first fragment of a text, to the focused context
FragOut(w, x, f) ==
  /\ Out(w, x, f) /\ x.order.pending = f /\ x.toolkit = w.toolkit /\ Plain(w, x)
  /\ x.xim.ic # None /\ x.xim.ic = w.xim.focused /\ x.xim.ic \notin w.xim.cancelled
  /\ x.xim.left + 1 = w.req[f].size /\ FragmentSent(w.toApp, x.toApp, f, x.xim.ic)
\* The input method takes the text, and sends a fragment of it.
Focusing(y, c, n, z) == z = [y EXCEPT !.xim.ic = c, !.xim.left = n]
Fragments(z, f, c, x) ==
  x = [z EXCEPT !.xim.left = @ - 1, !.req[f].status = "issued",
         !.toApp = @ \o <<Xpra!Event("commit", f, c), Xpra!Event("sync", f, c)>>]

\* The first fragment goes: its text is issued, in the focused context.
LEMMA FragGoes ==
  ASSUME NEW w, NEW p, NEW f, Pops(w, p, f), Xpra!Available(p, p.req[f].owner), p.req[f].kind = "text",
         NEW c \in ICs, c = p.xim.focused, c \notin p.xim.cancelled, NEW y, Pended(p, y, f, c),
         NEW z, Focusing(y, c, p.req[f].size, z), NEW x, Fragments(z, f, c, x)
  PROVE  FragOut(w, x, f)
<1> USE XpraAssumption
<1>1. /\ p \in Loops /\ Adapted(p) /\ Sent(p) /\ f \in Stamps /\ p.order.pending = 0 /\ ~p.order.closed
      /\ p.req[f].status = "queued" /\ p.req[f].size \in 1..MaxFragments /\ p.xim \in Focuses
  BY RequestFields, LoopFields DEF Pops, Core
<1>2. /\ y \in Loops /\ y.order.pending = f /\ y.order.token = c /\ ~y.order.draining /\ ~y.order.closed
      /\ y.order.queue = p.order.queue /\ y.viewers = p.viewers /\ y.toolkit = p.toolkit /\ y.xim = p.xim
      /\ y.toApp = p.toApp /\ y.req = p.req
  BY DEF Pended, Core
<1>3. PICK n : n = p.req[f].size
  OBVIOUS
<1>4. n \in 1..MaxFragments /\ n \in 0..MaxFragments /\ n # 0
  BY <1>1, <1>3
<1>5. PICK m : m = [p.xim EXCEPT !.ic = c, !.left = n]
  OBVIOUS
<1>6. /\ m \in Focuses /\ m.left = n /\ m.ic = c /\ m.focused = p.xim.focused /\ m.supported = p.xim.supported
      /\ m.cancelled = p.xim.cancelled /\ m.lost = p.xim.lost
  BY <1>1, <1>4, <1>5 DEF Focuses
<1>7. z = [y EXCEPT !.xim = m]
  BY <1>2, <1>3, <1>5 DEF Loops, Focusing
<1>8. /\ z \in Loops /\ z.viewers = p.viewers /\ z.order = y.order /\ z.toolkit = p.toolkit /\ z.xim = m
      /\ z.toApp = p.toApp /\ z.req = p.req
  BY <1>2, <1>6, <1>7 DEF Loops
<1>9. z.order.pending = f /\ z.xim.ic = c /\ z.xim.left = n
  BY <1>2, <1>6, <1>8
<1>10. Fragmenting(z, x)
  <2>1. z \in Loops /\ z.order.pending \in Stamps /\ z.xim.ic \in ICs /\ z.xim.left # 0
    BY <1>1, <1>4, <1>8, <1>9
  <2>2. x = [z EXCEPT !.xim.left = @ - 1, !.req[z.order.pending].status = "issued",
                !.toApp = @ \o <<Xpra!Event("commit", z.order.pending, z.xim.ic), Xpra!Event("sync", z.order.pending, z.xim.ic)>>]
    BY <1>9, Zenon DEF Fragments
  <2>3. QED
    BY <2>1, <2>2, Fragment, Zenon
<1>11. /\ x \in Loops /\ x.viewers = p.viewers /\ x.order = y.order /\ x.toolkit = p.toolkit
       /\ x.xim.ic = c /\ x.xim.left + 1 = n /\ x.xim.focused = p.xim.focused
       /\ x.xim.supported = p.xim.supported /\ x.xim.cancelled = p.xim.cancelled /\ x.xim.lost = p.xim.lost
       /\ x.req[f].status = "issued" /\ FragmentSent(p.toApp, x.toApp, f, c)
  BY <1>6, <1>8, <1>9, <1>10 DEF Fragmenting
<1>12. \A s \in Stamps : /\ SameAsked(p, x, s) /\ x.req[s].heard = p.req[s].heard
                         /\ s # f => x.req[s].status = p.req[s].status
  <2>1. z.req = p.req /\ z.order.pending = f
    BY <1>8, <1>9
  <2>2. \A s \in Stamps : /\ SameAsked(z, x, s) /\ x.req[s].heard = z.req[s].heard
                          /\ s # z.order.pending => x.req[s].status = z.req[s].status
    BY <1>10 DEF Fragmenting
  <2>3. QED
    BY <2>1, <2>2 DEF SameAsked
<1>13. Going(p, x, f)
  BY <1>2, <1>11, <1>12 DEF Going
<1>14. Ahead(p, x, f)
  BY <1>13, Goes
<1>15. UpTo(p.toApp, f) /\ \A i \in 1..Len(p.toApp) : Went(x, p.toApp[i].s)
  BY <1>14, SentAhead
<1>16. Sent(x)
  <2>1. Ordered(x, p.toApp)
    BY <1>1, <1>11, <1>15 DEF Sent, Ordered
  <2>2. Went(x, f)
    BY <1>14 DEF Ahead
  <2>3. Ordered(x, x.toApp)
    BY <1>1, <1>11, <1>15, <2>1, <2>2, FragmentOrdered
  <2>4. QED
    BY <2>3, SentParts
<1>17. /\ p.toolkit = w.toolkit /\ p.xim = w.xim /\ p.toApp = w.toApp /\ p.req = w.req
       /\ w.order.pending = 0 /\ w.toolkit.text.op = 0 /\ w.xim.ic = None
  BY DEF Pops
<1>18. c # None /\ c # "toolkit"
  OBVIOUS
<1>19. Adapted(x)
  <2>1. x.toolkit.text.op = 0 /\ x.toolkit.text.number <= x.toolkit.last
    BY <1>1, <1>11, <1>17 DEF Adapted
  <2>2. x.order.pending # 0 /\ x.order.token = x.xim.ic
    BY <1>1, <1>2, <1>11
  <2>3. x.xim.focused \in x.xim.supported \cup {None} /\ (x.xim.lost => x.xim.focused = None)
    BY <1>1, <1>11 DEF Adapted
  <2>4. QED
    BY <2>1, <2>2, <2>3 DEF Adapted
<1>20. Core(x, 0)
  BY <1>11, <1>14, <1>16, <1>19 DEF Core, Ahead
<1>21. Firm(x) /\ Draining(x)
  <2>1. x.req[f].kind = "text" /\ f # 0
    BY <1>1, <1>12 DEF SameAsked
  <2>2. ~x.order.draining /\ x.order.pending = f
    BY <1>2, <1>11
  <2>3. QED
    BY <1>11, <1>18, <2>1, <2>2 DEF Firm, Draining
<1>22. \A s \in Stamps : SameAsked(w, x, s) /\ (s # f => x.req[s].status = w.req[s].status)
  BY <1>12, <1>17 DEF SameAsked
<1>23. \A s \in Stamps : Went(w, s) => s < f
  BY <1>14, <1>17 DEF Ahead, Went
<1>24. Out(w, x, f)
  BY <1>1, <1>2, <1>11, <1>17, <1>20, <1>21, <1>22, <1>23 DEF Out, Loop
<1>25. Plain(w, x)
  <2>1. w.toolkit.last \in Nat
    BY <1>1, <1>17, LoopFields
  <2>2. QED
    BY <1>11, <1>17, <2>1 DEF Plain
<1>26. QED
  BY <1>2, <1>3, <1>11, <1>17, <1>18, <1>24, <1>25 DEF FragOut

(* What else the loop does *)

\* The text that is pending was confirmed.
Done(w, x) ==
  /\ Loop(x) /\ x.toApp = w.toApp /\ x.toolkit.last = w.toolkit.last
  /\ x.xim.supported = w.xim.supported /\ x.xim.cancelled = w.xim.cancelled /\ x.xim.lost = w.xim.lost
  /\ w.order.pending \in Stamps /\ w.req[w.order.pending].status = "issued"
  /\ x.order.pending = 0 /\ x.toolkit.text.op = 0 /\ x.xim.ic = None
  /\ \A s \in Stamps : SameAsked(w, x, s)
  /\ \A s \in Stamps : x.req[s].status = IF s = w.order.pending THEN "confirmed" ELSE w.req[s].status
\* A world whose text has left its adapter
Unloads(w, y) ==
  /\ Unloaded(w, y) /\ y.toolkit.last = w.toolkit.last
  /\ y.xim.supported = w.xim.supported /\ y.xim.cancelled = w.xim.cancelled /\ y.xim.lost = w.xim.lost

\* A text that arrived is confirmed, and its adapter is free.
LEMMA TextDone ==
  ASSUME NEW w, Loop(w), w.order.pending # 0, NEW y, Unloads(w, y), NEW x, Succeeds(y, x)
  PROVE  Done(w, x)
<1>1. Core(w, 0) /\ w \in Loops /\ w.order.pending \in Stamps /\ w.req[w.order.pending].status = "issued"
  <2>1. Core(w, 0) /\ w \in Loops
    BY DEF Loop, Core
  <2>2. w.order.pending \in Stamps
    BY <2>1, LoopFields
  <2>3. QED
    BY <2>1, <2>2 DEF Loop, Firm
<1>2. Core(y, 0)
  BY <1>1, UnloadedKeeps DEF Unloads
<1>3. Landed(y)
  BY <1>1 DEF Landed, Unloads, Unloaded
<1>4. Confirms(y, x)
  BY <1>2, <1>3, Delivered
<1>5. /\ Loop(x) /\ x.toApp = y.toApp /\ x.toolkit = y.toolkit /\ x.xim = y.xim /\ x.order.pending = 0
      /\ \A s \in Stamps : SameAsked(y, x, s)
      /\ \A s \in Stamps : x.req[s].status = IF s = y.order.pending THEN "confirmed" ELSE y.req[s].status
  BY <1>4 DEF Confirms
<1>6. y.req = w.req /\ y.order = w.order /\ y.toApp = w.toApp /\ y.toolkit.text.op = 0 /\ y.xim.ic = None
      /\ y.toolkit.last = w.toolkit.last /\ y.xim.supported = w.xim.supported /\ y.xim.cancelled = w.xim.cancelled
      /\ y.xim.lost = w.xim.lost
  BY DEF Unloads, Unloaded
<1>7. \A s \in Stamps : SameAsked(w, x, s)
  BY <1>5, <1>6 DEF SameAsked
<1>8. \A s \in Stamps : x.req[s].status = IF s = w.order.pending THEN "confirmed" ELSE w.req[s].status
  BY <1>5, <1>6
<1>9. QED
  BY <1>1, <1>5, <1>6, <1>7, <1>8 DEF Done

\* The same world with its text gone fails: what is given up of it
LEMMA TextFailed ==
  ASSUME NEW w, Loop(w), w.order.pending # 0, NEW y, Unloaded(w, y), NEW x, Fails(y, x)
  PROVE  Undelivered(y, x)
<1>1. Core(w, 0) /\ w \in Loops /\ w.order.pending \in Stamps /\ w.req[w.order.pending].status = "issued"
      /\ w.order.pending \notin w.order.queue
  <2>1. Core(w, 0) /\ w \in Loops
    BY DEF Loop, Core
  <2>2. w.order.pending \in Stamps
    BY <2>1, LoopFields
  <2>3. w.req[w.order.pending].status = "issued"
    BY <2>2 DEF Loop, Firm
  <2>4. QED
    BY <2>1, <2>2, <2>3 DEF Core, Stamped, Waits
<1>2. Core(y, 0)
  BY <1>1, UnloadedKeeps
<1>3. Owed(y, 0)
  BY <1>1 DEF Owed, Unloaded
<1>4. QED
  BY <1>2, <1>3, NotCompleted

\* Another fragment of the text that is pending
Continues(w, x) ==
  /\ Loop(x) /\ x.toolkit = w.toolkit /\ x.order = w.order
  /\ x.xim.ic = w.xim.ic /\ x.xim.ic # None /\ x.xim.left + 1 = w.xim.left
  /\ x.xim.supported = w.xim.supported /\ x.xim.cancelled = w.xim.cancelled /\ x.xim.lost = w.xim.lost
  /\ \A s \in Stamps : SameAsked(w, x, s) /\ x.req[s].status = w.req[s].status
  /\ FragmentSent(w.toApp, x.toApp, w.order.pending, w.xim.ic)

\* The next fragment of a text that is pending goes.
LEMMA Continued ==
  ASSUME NEW w, Loop(w), w.xim.ic \in ICs, w.xim.left # 0, NEW x,
         x = [w EXCEPT !.xim.left = @ - 1, !.req[w.order.pending].status = "issued",
                !.toApp = @ \o <<Xpra!Event("commit", w.order.pending, w.xim.ic), Xpra!Event("sync", w.order.pending, w.xim.ic)>>]
  PROVE  Continues(w, x)
<1> USE XpraAssumption
<1>1. /\ w \in Loops /\ Adapted(w) /\ Stamped(w, 0) /\ Bounded(w) /\ Owing(w) /\ Sequenced(w) /\ Sent(w) /\ Shut(w)
      /\ w.xim.ic # None
  BY DEF Loop, Core
<1>2. w.order.pending # 0
  BY <1>1 DEF Adapted
<1>3. w.order.pending \in Stamps /\ w.req[w.order.pending].status = "issued" /\ w.req[w.order.pending].kind = "text"
  BY <1>1, <1>2, LoopFields DEF Loop, Firm
<1>4. Fragmenting(w, x)
  BY <1>1, <1>3, Fragment, Zenon
<1>5. /\ x \in Loops /\ x.viewers = w.viewers /\ x.order = w.order /\ x.toolkit = w.toolkit
      /\ x.xim.ic = w.xim.ic /\ x.xim.left + 1 = w.xim.left /\ x.xim.focused = w.xim.focused
      /\ x.xim.supported = w.xim.supported /\ x.xim.cancelled = w.xim.cancelled /\ x.xim.lost = w.xim.lost
      /\ FragmentSent(w.toApp, x.toApp, w.order.pending, w.xim.ic)
  BY <1>4 DEF Fragmenting
<1>6. \A s \in Stamps : /\ SameAsked(w, x, s) /\ x.req[s].heard = w.req[s].heard
                        /\ x.req[s].status = w.req[s].status
  <2>1. \A s \in Stamps : /\ SameAsked(w, x, s) /\ x.req[s].heard = w.req[s].heard
                          /\ s # w.order.pending => x.req[s].status = w.req[s].status
    BY <1>4 DEF Fragmenting
  <2>2. x.req[w.order.pending].status = w.req[w.order.pending].status
    BY <1>3, <1>4 DEF Fragmenting
  <2>3. QED
    BY <2>1, <2>2
<1>7. Stamped(x, 0)
  BY <1>1, <1>5, <1>6 DEF Stamped, Waits, SameAsked
<1>8. Bounded(x) /\ Shut(x) /\ Draining(x) /\ Firm(x)
  BY <1>1, <1>3, <1>5, <1>6 DEF Bounded, Shut, Draining, Firm, Loop, SameAsked
<1>9. Owing(x)
  <2> SUFFICES ASSUME NEW s \in Stamps
               PROVE  /\ x.req[s].status \in {"failed", "refused"} => ~Xpra!Available(x, x.req[s].owner) \/ x.order.closed
                      /\ x.req[s].heard = "success" => x.req[s].status = "confirmed"
                      /\ x.req[s].heard = "failure" => x.req[s].status \in {"refused", "failed"}
    BY DEF Owing
  <2>1. x.req[s].owner = w.req[s].owner /\ x.req[s].heard = w.req[s].heard /\ x.req[s].status = w.req[s].status
    BY <1>6 DEF SameAsked
  <2>2. x.order.closed = w.order.closed /\ (Xpra!Available(x, w.req[s].owner) <=> Xpra!Available(w, w.req[s].owner))
    BY <1>5 DEF Xpra!Available
  <2>3. QED
    BY <1>1, <2>1, <2>2 DEF Owing
<1>10. Sequenced(x)
  <2>1. \A s \in Stamps : (Went(x, s) <=> Went(w, s)) /\ (Waits(x, s) <=> Waits(w, s))
    BY <1>6 DEF Went, Waits
  <2>2. QED
    BY <1>1, <1>5, <1>6, <2>1 DEF Sequenced, SameAsked
<1>11. Adapted(x)
  BY <1>1, <1>5 DEF Adapted
<1>12. Sent(x)
  <2>1. \A i \in 1..Len(w.toApp) : w.toApp[i].s \in Stamps /\ Went(w, w.toApp[i].s)
    BY <1>1, EventPlaces DEF Sent
  <2>2. \A s \in Stamps : Went(x, s) <=> Went(w, s)
    BY <1>6 DEF Went
  <2>3. UpTo(w.toApp, w.order.pending)
    <3>1. \A s \in Stamps : Went(w, s) => s <= w.order.pending
      BY <1>1, <1>3 DEF Sequenced
    <3>2. QED
      BY <2>1, <3>1 DEF UpTo
  <2>4. Ordered(x, w.toApp)
    BY <1>1, <1>5, <2>1, <2>2 DEF Sent, Ordered
  <2>5. Went(x, w.order.pending)
    BY <1>3, <2>2 DEF Went
  <2>6. Ordered(x, x.toApp)
    BY <1>3, <1>5, <2>3, <2>4, <2>5, FragmentOrdered
  <2>7. QED
    BY <2>6, SentParts
<1>13. Loop(x)
  BY <1>5, <1>7, <1>8, <1>9, <1>10, <1>11, <1>12 DEF Loop, Core
<1>14. QED
  BY <1>1, <1>5, <1>6, <1>13 DEF Continues

\* A request is asked for, the first of those that were not.
Joins(w, x, f) ==
  /\ Loop(x) /\ x.toolkit = w.toolkit /\ x.xim = w.xim /\ x.toApp = w.toApp /\ x.order.pending = w.order.pending
  /\ f \in Stamps /\ w.req[f].status = "none" /\ x.req[f].status = "queued"
  /\ x.req[f].owner \in Viewers /\ x.req[f].kind \in {"text", "down"}
  /\ \A s \in Stamps : s # f => x.req[s] = w.req[s]
  /\ \A s \in Stamps : s < f => w.req[s].status # "none"

\* A request is asked for: it is the last of the queue.
LEMMA Enqueued ==
  ASSUME NEW w, Loop(w), ~w.order.closed, Cardinality(w.order.queue) < MaxQueue,
         {s \in Stamps : w.req[s].status = "none"} # {}, NEW f, f = Xpra!Min({s \in Stamps : w.req[s].status = "none"}),
         NEW v \in Viewers, NEW k \in {"text", "down"}, NEW n \in 1..MaxFragments,
         NEW x, x = Xpra!Drains([w EXCEPT
           !.req[f] = [Xpra!NoRequest EXCEPT !.owner = v, !.kind = k, !.size = n, !.status = "queued"],
           !.order.queue = @ \cup {f}])
  PROVE  Joins(w, x, f)
<1> USE XpraAssumption
<1>1. /\ w \in Loops /\ Adapted(w) /\ Stamped(w, 0) /\ Bounded(w) /\ Owing(w) /\ Sequenced(w) /\ Sent(w)
      /\ w.order \in Schedule
  BY LoopFields DEF Loop, Core
<1>2. /\ f \in Stamps /\ w.req[f].status = "none"
      /\ \A s \in Stamps : w.req[s].status = "none" => f <= s
  <2>1. PICK S : S = {s \in Stamps : w.req[s].status = "none"}
    OBVIOUS
  <2>2. f \in S /\ \A s \in S : f <= s
    BY <2>1, LeastStamp
  <2>3. QED
    BY <2>1, <2>2
<1>3. PICK r, o : /\ r = [Xpra!NoRequest EXCEPT !.owner = v, !.kind = k, !.size = n, !.status = "queued"]
                  /\ o = [w.order EXCEPT !.queue = @ \cup {f}]
  OBVIOUS
<1>4. r \in XpraRequest /\ r.status = "queued" /\ r.owner = v /\ r.kind = k /\ r.heard = "nothing"
  <2>1. Xpra!NoRequest = [owner |-> 0, kind |-> "none", size |-> 1, status |-> "none", heard |-> "nothing"]
    BY DEF Xpra!NoRequest
  <2>2. r = [owner |-> v, kind |-> k, size |-> n, status |-> "queued", heard |-> "nothing"]
    BY <1>3, <2>1
  <2>3. QED
    BY <2>2 DEF XpraRequest
<1>5. /\ o \in Schedule /\ o.queue = w.order.queue \cup {f} /\ o.pending = w.order.pending /\ o.token = w.order.token
      /\ o.closed = w.order.closed
  BY <1>1, <1>2, <1>3 DEF Schedule
<1>6. PICK c, q : c = [w EXCEPT !.req[f] = r] /\ q = [c EXCEPT !.order = o]
  OBVIOUS
<1>7. Reset(w, c, f, r)
  BY <1>1, <1>2, <1>4, <1>6, RequestBecomes
<1>8. /\ c \in Loops /\ c.viewers = w.viewers /\ c.order = w.order /\ c.toolkit = w.toolkit /\ c.xim = w.xim
      /\ c.toApp = w.toApp /\ c.req[f] = r /\ \A s \in Stamps : s # f => c.req[s] = w.req[s]
  BY <1>7 DEF Reset
<1>9. /\ q \in Loops /\ q.viewers = w.viewers /\ q.order = o /\ q.toolkit = w.toolkit /\ q.xim = w.xim
      /\ q.toApp = w.toApp /\ q.req[f] = r /\ \A s \in Stamps : s # f => q.req[s] = w.req[s]
  BY <1>5, <1>6, <1>8, Zenon DEF Loops
<1>10. x = Xpra!Drains(q)
  <2>1. [c EXCEPT !.order.queue = @ \cup {f}] = q
    BY <1>3, <1>6, <1>8 DEF Loops
  <2>2. x = Xpra!Drains([[w EXCEPT !.req[f] = r] EXCEPT !.order.queue = @ \cup {f}])
    BY <1>3, Zenon
  <2>3. QED
    BY <1>6, <2>1, <2>2, Zenon
<1>11. \A s \in Stamps : w.req[s].status # "none" => s < f \/ s # f
  BY <1>2
<1>12. \A s \in Stamps : /\ s # f => q.req[s] = w.req[s]
                         /\ Went(q, s) <=> Went(w, s)
                         /\ Waits(q, s) <=> Waits(w, s) \/ s = f
                         /\ q.req[s].status # "none" <=> w.req[s].status # "none" \/ s = f
  BY <1>2, <1>4, <1>9 DEF Went, Waits
<1>13. \A s \in Stamps : w.req[s].status # "none" => s < f
  <2> SUFFICES ASSUME NEW s \in Stamps, w.req[s].status # "none", ~(s < f) PROVE FALSE
    OBVIOUS
  <2>1. s \in Nat /\ f \in Nat /\ s # f
    BY <1>2
  <2>2. f < s
    BY <2>1
  <2>3. QED
    BY <1>1, <1>2, <2>2 DEF Stamped
<1>14. Stamped(q, 0)
  <2> SUFFICES ASSUME NEW s \in Stamps
               PROVE  /\ q.req[s].status # "none" => q.req[s].owner \in Viewers /\ q.req[s].kind \in {"text", "down"}
                      /\ \A t \in Stamps : t < s /\ q.req[s].status # "none" => q.req[t].status # "none"
                      /\ s \in q.order.queue => Waits(q, s)
                      /\ Waits(q, s) => s \in q.order.queue \/ s = 0
                      /\ q.req[s].status = "issued" => s = q.order.pending \/ s = 0
                      /\ q.req[s].kind = "down" => q.req[s].status \notin {"issued", "failed"}
    BY DEF Stamped
  <2>1. CASE s = f
    <3>1. \A t \in Stamps : t < s => w.req[t].status # "none"
      <4> SUFFICES ASSUME NEW t \in Stamps, t < s, w.req[t].status = "none" PROVE FALSE
        OBVIOUS
      <4>1. f <= t /\ t \in Nat /\ f \in Nat
        BY <1>2
      <4>2. QED
        BY <2>1, <4>1
    <3>2. \A t \in Stamps : t < s => q.req[t].status # "none"
      BY <1>12, <3>1
    <3>3. q.req[s].owner \in Viewers /\ q.req[s].kind \in {"text", "down"} /\ q.req[s].status = "queued"
      BY <1>4, <1>9, <2>1
    <3>4. s \in q.order.queue
      BY <1>5, <1>9, <2>1
    <3>5. QED
      BY <3>2, <3>3, <3>4 DEF Waits
  <2>2. CASE s # f
    <3>1. q.req[s] = w.req[s]
      BY <1>9, <2>2
    <3>2. \A t \in Stamps : t < s /\ q.req[s].status # "none" => q.req[t].status # "none"
      BY <1>1, <1>12, <3>1 DEF Stamped
    <3>3. (s \in q.order.queue <=> s \in w.order.queue) /\ q.order.pending = w.order.pending
      BY <1>5, <1>9, <2>2
    <3>4. QED
      BY <1>1, <3>1, <3>2, <3>3 DEF Stamped, Waits
  <2>3. QED
    BY <2>1, <2>2
<1>15. Bounded(q)
  <2>1. IsFiniteSet(w.order.queue) /\ Cardinality(w.order.queue) \in Nat
    BY <1>1, FS_CardinalityType DEF Bounded
  <2>2. f \notin w.order.queue
    BY <1>1, <1>2 DEF Stamped, Waits
  <2>3. IsFiniteSet(w.order.queue \cup {f}) /\ Cardinality(w.order.queue \cup {f}) = Cardinality(w.order.queue) + 1
    BY <2>1, <2>2, FS_AddElement
  <2>4. Cardinality(w.order.queue) + 1 <= MaxQueue
    BY <2>1
  <2>5. QED
    BY <1>5, <1>9, <2>3, <2>4 DEF Bounded
<1>16. Owing(q)
  <2> SUFFICES ASSUME NEW s \in Stamps
               PROVE  /\ q.req[s].status \in {"failed", "refused"} => ~Xpra!Available(q, q.req[s].owner) \/ q.order.closed
                      /\ q.req[s].heard = "success" => q.req[s].status = "confirmed"
                      /\ q.req[s].heard = "failure" => q.req[s].status \in {"refused", "failed"}
    BY DEF Owing
  <2>1. CASE s = f
    BY <1>4, <1>9, <2>1
  <2>2. CASE s # f
    BY <1>1, <1>5, <1>9, <2>2 DEF Owing, Xpra!Available
  <2>3. QED
    BY <2>1, <2>2
<1>17. Sequenced(q)
  <2>1. ASSUME NEW s \in Stamps, Went(q, s) PROVE s < f /\ s # f /\ Went(w, s)
    BY <1>2, <1>12, <1>13, <2>1 DEF Went
  <2>2. \A s, t \in Stamps : Went(q, s) /\ Waits(q, t) => s < t
    BY <1>1, <1>12, <2>1 DEF Sequenced
  <2>3. \A s, t \in Stamps : Went(q, s) /\ t = q.order.pending => s <= t
    BY <1>1, <1>5, <1>9, <2>1 DEF Sequenced
  <2>4. ASSUME NEW s \in Stamps, NEW t \in Stamps, t < s, Went(q, s), q.req[t].owner = q.req[s].owner, q.req[t].kind = "text"
        PROVE  q.req[t].status = "confirmed"
    <3>1. s < f /\ s # f /\ Went(w, s) /\ s \in Nat /\ t \in Nat /\ f \in Nat
      BY <1>2, <2>1, <2>4
    <3>2. t # f
      BY <2>4, <3>1
    <3>3. q.req[s] = w.req[s] /\ q.req[t] = w.req[t]
      BY <1>9, <3>1, <3>2
    <3>4. QED
      BY <1>1, <2>4, <3>1, <3>3 DEF Sequenced
  <2>5. QED
    BY <2>2, <2>3, <2>4 DEF Sequenced
<1>18. Adapted(q)
  BY <1>1, <1>5, <1>9 DEF Adapted
<1>19. Sent(q)
  <2>1. \A i \in 1..Len(w.toApp) : w.toApp[i].s \in Stamps
    BY <1>1, EventPlaces
  <2>2. QED
    BY <1>1, <1>9, <1>12, <2>1 DEF Sent
<1>20. Shut(q)
  BY <1>5, <1>9 DEF Shut
<1>21. Turned(q, x, 0)
  BY <1>9, <1>10, <1>14, <1>15, <1>16, <1>17, <1>18, <1>19, <1>20, Drained DEF Core
<1>22. /\ Core(x, 0) /\ Draining(x) /\ x.viewers = q.viewers /\ x.toolkit = q.toolkit /\ x.xim = q.xim
       /\ x.toApp = q.toApp /\ x.req = q.req /\ x.order.pending = q.order.pending
  BY <1>21, Zenon DEF Turned
<1>23. Firm(x)
  <2> SUFFICES ASSUME x.order.pending # 0
               PROVE  /\ x.req[x.order.pending].status = "issued" /\ x.req[x.order.pending].kind = "text"
                      /\ x.toolkit.text.op # 0 \/ x.xim.ic # None
    BY Zenon DEF Firm
  <2>1. x.order.pending = w.order.pending /\ w.order.pending \in Stamps
    BY <1>1, <1>5, <1>9, <1>22, LoopFields, Zenon
  <2>2. w.req[w.order.pending].status = "issued" /\ w.req[w.order.pending].kind = "text"
        /\ (w.toolkit.text.op # 0 \/ w.xim.ic # None)
    BY <2>1 DEF Loop, Firm
  <2>3. w.order.pending # f
    BY <1>2, <2>2
  <2>4. QED
    BY <1>9, <1>22, <2>1, <2>2, <2>3, Zenon
<1>24. \A s \in Stamps : s < f => w.req[s].status # "none"
  <2> SUFFICES ASSUME NEW s \in Stamps, s < f, w.req[s].status = "none" PROVE FALSE
    OBVIOUS
  <2>1. f <= s /\ s \in Nat /\ f \in Nat
    BY <1>2
  <2>2. QED
    BY <2>1
<1>25. Loop(x)
  BY <1>22, <1>23 DEF Loop
<1>26. x.toolkit = w.toolkit /\ x.xim = w.xim /\ x.toApp = w.toApp /\ x.order.pending = w.order.pending
  BY <1>5, <1>9, <1>22
<1>27. x.req[f].status = "queued" /\ x.req[f].owner \in Viewers /\ x.req[f].kind \in {"text", "down"}
  BY <1>4, <1>9, <1>22, Zenon
<1>28. \A s \in Stamps : s # f => x.req[s] = w.req[s]
  BY <1>9, <1>22
<1>29. QED
  BY <1>2, <1>24, <1>25, <1>26, <1>27, <1>28, Zenon DEF Joins

\* A world whose text may have left its adapter
Steady(w) == Core(w, 0) /\ (w.order.pending # 0 => w.req[w.order.pending].status = "issued")

\* Every world of the loop has its adapters steady.
LEMMA LoopSteady == ASSUME NEW w, Loop(w) PROVE Steady(w)
  BY DEF Loop, Steady, Firm

\* What a cut leaves of a request
LEMMA CutRequests ==
  ASSUME NEW w, Steady(w), NEW y, Loop(y), Cut(w, y), NEW s \in Stamps
  PROVE  /\ y.req[s].owner = w.req[s].owner /\ y.req[s].kind = w.req[s].kind /\ y.req[s].size = w.req[s].size
         /\ Went(w, s) => Went(y, s)
         /\ y.req[s].status \in {"issued", "confirmed"} => w.req[s].status = y.req[s].status
         /\ w.req[s].status = "failed" => y.req[s].status = "failed"
         /\ w.req[s].status = "confirmed" => y.req[s].status = "confirmed"
  BY DEF Cut, SameAsked, Went

\* Either the text stays where it is, or nothing is pending any more.
Stays(w, y) ==
  /\ y.toolkit.text.op = w.toolkit.text.op /\ y.order.pending = w.order.pending
  /\ w.toolkit.text.op # 0 => y.toolkit.text.number = w.toolkit.text.number
  /\ y.xim.ic = w.xim.ic /\ y.xim.left = w.xim.left
Leaves(w, y) ==
  /\ y.order.pending = 0 /\ y.toolkit.text.op = 0 /\ y.xim.ic = None
  /\ w.xim.ic # None => w.xim.ic \in y.xim.cancelled
  /\ w.order.pending # 0 => y.req[w.order.pending].status \in {"failed", "refused"}

\* The two ways of a cut
LEMMA CutWays == ASSUME NEW w, NEW y, Cut(w, y) PROVE Stays(w, y) \/ Leaves(w, y)
  BY DEF Cut, Stays, Leaves

\* What the application has, and is told, is as it was before the cut.
LEMMA CutKeepsDocument ==
  ASSUME NEW w, Steady(w), NEW y, Loop(y), Cut(w, y), NEW d \in Seq(Stamps), NEW p, Written(w, d), Counted(w, d, p)
  PROVE  Written(y, d) /\ Counted(y, d, p)
<1>1. \A i \in 1..Len(d) : d[i] \in Stamps
  BY ElementOfSeq
<1>2. y.toApp = w.toApp
  BY DEF Cut
<1>3. Written(y, d)
  BY <1>1, <1>2, CutRequests DEF Written
<1>4. Counted(y, d, p)
  BY CutRequests DEF Counted
<1>5. QED
  BY <1>3, <1>4

\* So are the text that it holds, and the numbers that were done.
LEMMA CutKeepsTexts ==
  ASSUME NEW w, Steady(w), NEW y, Loop(y), Cut(w, y), NEW d, NEW p, NEW a \in Apps, NEW b \in Seq(BusCalls),
         Holding(w, a, d), Told(w, a, b, p)
  PROVE  Holding(y, a, d) /\ Told(y, a, b, p)
<1>1. y.toApp = w.toApp /\ w.toolkit.last <= y.toolkit.last
  BY DEF Cut
<1>2. w \in Loops /\ y \in Loops /\ Stamped(y, 0) /\ Adapted(w)
  BY DEF Steady, Loop, Core
<1>3. w.toolkit.last \in 0..MaxMarker /\ y.toolkit.last \in 0..MaxMarker /\ MaxMarker \in Nat
      /\ w.toolkit.text.op \in Stamps \cup {0}
  BY <1>2, LoopFields, XpraAssumption
<1>4. y.toolkit.text.op # 0 => Stays(w, y)
  BY CutWays DEF Leaves
<1>5. \A s \in Stamps : y.req[s].status = "issued" => w.req[s].status = "issued" /\ Stays(w, y)
  <2> SUFFICES ASSUME NEW s \in Stamps, y.req[s].status = "issued" PROVE w.req[s].status = "issued" /\ Stays(w, y)
    OBVIOUS
  <2>1. w.req[s].status = "issued"
    BY CutRequests
  <2>2. s # 0 /\ y.order.pending = s
    BY <1>2, XpraAssumption DEF Stamped
  <2>3. QED
    BY <2>1, <2>2, CutWays DEF Leaves
<1>6. ASSUME NEW n, n <= w.toolkit.last, n \in Nat PROVE n <= y.toolkit.last
  BY <1>1, <1>3, <1>6
<1>7. a.number \in Nat /\ a.dones \subseteq Nat
  BY <1>3 DEF Apps
<1>8. Holding(y, a, d)
  <2>1. a.number <= y.toolkit.last
    BY <1>6, <1>7 DEF Holding
  <2>2. a.state = "got" => /\ a.text \in Stamps /\ Went(y, a.text) /\ Between(y, d, a.text)
                           /\ y.req[a.text].status = "issued" => y.toolkit.text.op = a.text
                           /\ y.toolkit.text.op # 0 /\ a.number = y.toolkit.text.number => y.toolkit.text.op = a.text
    BY <1>1, <1>4, <1>5, CutRequests DEF Holding, Between, Stays
  <2>3. a.state = "asking" /\ y.toolkit.text.op # 0 /\ a.number = y.toolkit.text.number => Between(y, d, y.toolkit.text.op)
    BY <1>1, <1>4 DEF Holding, Between, Stays
  <2>4. QED
    BY <2>1, <2>2, <2>3 DEF Holding
<1>9. ASSUME NEW n \in Nat, Full(w, p, n) PROVE Full(y, p, n)
  <2>1. n <= y.toolkit.last
    BY <1>6, <1>9 DEF Full
  <2>2. y.toolkit.text.op # 0 /\ n = y.toolkit.text.number => p[y.toolkit.text.op] = y.req[y.toolkit.text.op].size
    <3> SUFFICES ASSUME y.toolkit.text.op # 0, n = y.toolkit.text.number
                 PROVE  p[y.toolkit.text.op] = y.req[y.toolkit.text.op].size
      OBVIOUS
    <3>1. w.toolkit.text.op = y.toolkit.text.op /\ n = w.toolkit.text.number /\ w.toolkit.text.op # 0
      BY <1>4 DEF Stays
    <3>2. p[w.toolkit.text.op] = w.req[w.toolkit.text.op].size
      BY <1>9, <3>1 DEF Full
    <3>3. y.req[w.toolkit.text.op].size = w.req[w.toolkit.text.op].size
      BY <1>3, <3>1, CutRequests
    <3>4. QED
      BY <3>1, <3>2, <3>3
  <2>3. QED
    BY <2>1, <2>2 DEF Full
<1>10. \A i \in 1..Len(b) : b[i].n \in Nat
  <2>1. \A i \in 1..Len(b) : b[i] \in BusCalls
    BY ElementOfSeq
  <2>2. QED
    BY <1>3, <2>1 DEF BusCalls
<1>11. Told(y, a, b, p)
  BY <1>7, <1>9, <1>10 DEF Told
<1>12. QED
  BY <1>8, <1>11

\* And what is on its way to a context, and back
LEMMA CutKeepsFragments ==
  ASSUME NEW w, Steady(w), NEW y, Loop(y), Cut(w, y), NEW x \in Seq(Sayings), NEW a, NEW p,
         Contexts(w, x, a), Fragmented(w, x, a), Flying(w, x, a, p)
  PROVE  Contexts(y, x, a) /\ Fragmented(y, x, a) /\ Flying(y, x, a, p)
<1> USE XpraAssumption
<1>1. /\ y.toApp = w.toApp /\ y.xim.supported = w.xim.supported /\ w.xim.cancelled \subseteq y.xim.cancelled
      /\ (w.xim.lost => y.xim.lost)
  BY DEF Cut
<1>2. w \in Loops /\ Adapted(w)
  BY DEF Steady, Core
<1>3. w.order.pending \in Stamps \cup {0} /\ \A i \in 1..Len(w.toApp) : w.toApp[i].s \in Stamps /\ w.toApp[i].s # 0
  BY <1>2, LoopFields, EventPlaces
<1>4. Contexts(y, x, a)
  BY <1>1 DEF Contexts
<1>5. ASSUME NEW c \in ICs, Spent(w, x, a, c) PROVE Spent(y, x, a, c)
  <2>1. c # None
    OBVIOUS
  <2>2. Gone(w, x, a, c) => Gone(y, x, a, c)
    BY <1>1 DEF Gone
  <2>3. QED
    BY <1>1, <1>5, <2>1, <2>2, CutWays DEF Spent, Stays, Leaves
<1>6. \A i \in 1..Len(x) : x[i].ic \in ICs
  <2>1. \A i \in 1..Len(x) : x[i] \in Sayings
    BY ElementOfSeq
  <2>2. QED
    BY <2>1 DEF Sayings
<1>7. ASSUME NEW e \in XpraEvent, e.s \in Stamps, Aimed(w, x, a, e) PROVE Aimed(y, x, a, e)
  <2>1. e.ic \in ICs /\ Spent(y, x, a, e.ic)
    BY <1>5, <1>7 DEF Aimed
  <2>2. e.s = y.order.pending \/ y.req[e.s].status = "failed"
    <3>1. CASE e.s = w.order.pending
      <4>1. w.order.pending # 0 /\ w.order.pending \in Stamps
        BY <1>3, <1>7, <3>1
      <4>2. w.req[w.order.pending].status = "issued"
        BY <4>1 DEF Steady
      <4>3. CASE Leaves(w, y)
        <5>1. y.req[w.order.pending].status \in {"failed", "refused"}
          BY <4>1, <4>3 DEF Leaves
        <5>2. y.req[w.order.pending].status \in {"issued", "failed"}
          BY <4>1, <4>2 DEF Cut
        <5>3. QED
          BY <3>1, <5>1, <5>2
      <4>4. CASE Stays(w, y)
        BY <3>1, <4>4 DEF Stays
      <4>5. QED
        BY <4>3, <4>4, CutWays
    <3>2. CASE w.req[e.s].status = "failed"
      <4>1. \A s \in Stamps : w.req[s].status = "failed" => y.req[s].status = "failed"
        BY CutRequests
      <4>2. QED
        BY <1>7, <3>2, <4>1
    <3>3. QED
      BY <1>7, <3>1, <3>2 DEF Aimed
  <2>3. y.toolkit.text.op # 0 => e.s # y.order.pending
    <3>1. y.toolkit.text.op # 0 => Stays(w, y)
      BY CutWays DEF Leaves
    <3>2. QED
      BY <1>7, <3>1 DEF Aimed, Stays
  <2>4. QED
    BY <2>1, <2>2, <2>3 DEF Aimed
<1>8. Fragmented(y, x, a)
  <2>1. \A i \in 1..Len(w.toApp) : w.toApp[i] \in XpraEvent /\ w.toApp[i].s \in Stamps
    BY <1>2, EventPlaces
  <2>2. \A i \in 1..Len(x) : x[i].what = "sync" => Spent(y, x, a, x[i].ic)
    BY <1>5, <1>6 DEF Fragmented
  <2>3. QED
    BY <1>1, <1>7, <2>1, <2>2 DEF Fragmented
<1>9. Flying(y, x, a, p)
  <2>1. CASE y.xim.ic # None
    <3>1. Stays(w, y)
      BY <2>1, CutWays DEF Leaves
    <3>2. w.xim.ic = y.xim.ic /\ w.xim.ic # None
      BY <2>1, <3>1 DEF Stays
    <3>3. w.order.pending \in Stamps
      BY <1>2, <1>3, <3>2 DEF Adapted
    <3>8. y.order.pending = w.order.pending /\ y.xim.left = w.xim.left
      BY <3>1 DEF Stays
    <3>9. y.req[w.order.pending].size = w.req[w.order.pending].size
      <4>1. \A s \in Stamps : y.req[s].size = w.req[s].size
        BY CutRequests
      <4>2. QED
        BY <3>3, <4>1
    <3>4. Left(y, p) = Left(w, p) /\ Asked(y) = Asked(w)
      BY <3>8, <3>9 DEF Left, Asked
    <3>5. (\A i : CommitAt(y, i) <=> CommitAt(w, i)) /\ (\A i : SyncAt(y, i) <=> SyncAt(w, i))
          /\ \A i : AnswerAt(y, x, i) <=> AnswerAt(w, x, i)
      BY <1>1, <3>2 DEF CommitAt, SyncAt, AnswerAt
    <3>6. y.order.pending = w.order.pending
      BY <3>1 DEF Stays
    <3>7. QED
      BY <1>1, <3>2, <3>4, <3>5, <3>6, Zenon DEF Flying
  <2>2. CASE y.xim.ic = None
    BY <2>2 DEF Flying
  <2>3. QED
    BY <2>1, <2>2
<1>10. QED
  BY <1>4, <1>8, <1>9

\* A cut keeps what the application has in hand.
LEMMA CutKeeps ==
  ASSUME NEW w, Steady(w), NEW y, Loop(y), Cut(w, y), NEW x \in Seq(Sayings), NEW a \in Apps, NEW b \in Seq(BusCalls),
         NEW p, NEW d \in Seq(Stamps), Outer(w, x, a, b, p, d)
  PROVE  Outer(y, x, a, b, p, d)
<1>1. /\ Written(w, d) /\ Counted(w, d, p) /\ Holding(w, a, d) /\ Told(w, a, b, p)
      /\ Contexts(w, x, a) /\ Fragmented(w, x, a) /\ Flying(w, x, a, p)
  BY DEF Outer
<1>2. Written(y, d) /\ Counted(y, d, p)
  BY <1>1, CutKeepsDocument
<1>3. Holding(y, a, d) /\ Told(y, a, b, p)
  BY <1>1, CutKeepsTexts
<1>4. Contexts(y, x, a) /\ Fragmented(y, x, a) /\ Flying(y, x, a, p)
  BY <1>1, CutKeepsFragments
<1>5. QED
  BY <1>2, <1>3, <1>4 DEF Outer

\* A request that joins the queue is of nobody's concern yet.
LEMMA JoinsKeeps ==
  ASSUME NEW w, Loop(w), NEW y, NEW f, Joins(w, y, f), NEW x \in Seq(Sayings), NEW a \in Apps, NEW b \in Seq(BusCalls),
         NEW p, NEW d \in Seq(Stamps), Outer(w, x, a, b, p, d)
  PROVE  Outer(y, x, a, b, p, d)
<1> USE XpraAssumption
<1>1. /\ y.toolkit = w.toolkit /\ y.xim = w.xim /\ y.toApp = w.toApp /\ y.order.pending = w.order.pending
      /\ f \in Stamps /\ w.req[f].status = "none" /\ y.req[f].status = "queued"
      /\ \A s \in Stamps : s # f => y.req[s] = w.req[s]
  BY DEF Joins
<1>2. w \in Loops /\ Firm(w) /\ Adapted(w)
  BY DEF Loop, Core
<1>3. /\ w.order.pending \in Stamps \cup {0} /\ w.toolkit.text.op \in Stamps \cup {0}
      /\ \A i \in 1..Len(w.toApp) : w.toApp[i].s \in Stamps
  BY <1>2, LoopFields, EventPlaces
<1>4. \A i \in 1..Len(d) : d[i] \in Stamps
  BY ElementOfSeq
<1>5. \A s \in Stamps : Went(y, s) <=> Went(w, s)
  BY <1>1 DEF Went
<1>6. \A s \in Stamps : y.req[s].status = "issued" => w.req[s].status = "issued"
  BY <1>1
<1>7. /\ Written(w, d) /\ Counted(w, d, p) /\ Holding(w, a, d) /\ Told(w, a, b, p)
      /\ Contexts(w, x, a) /\ Fragmented(w, x, a) /\ Flying(w, x, a, p)
  BY DEF Outer
<1>8. Written(y, d)
  BY <1>1, <1>4, <1>5, <1>7 DEF Written
<1>9. Counted(y, d, p)
  <2> SUFFICES ASSUME NEW s \in Stamps
               PROVE  /\ p[s] # 0 => \E i \in 1..Len(d) : d[i] = s
                      /\ y.req[s].kind = "text" /\ y.req[s].status = "confirmed" => p[s] = y.req[s].size
    BY DEF Counted
  <2>1. p[s] # 0 => \E i \in 1..Len(d) : d[i] = s
    BY <1>7 DEF Counted
  <2>2. y.req[s].kind = "text" /\ y.req[s].status = "confirmed" => p[s] = y.req[s].size
    <3>1. CASE s = f
      BY <1>1, <3>1
    <3>2. CASE s # f
      <4>1. y.req[s] = w.req[s]
        BY <1>1, <3>2
      <4>2. QED
        BY <1>7, <4>1 DEF Counted
    <3>3. QED
      BY <3>1, <3>2
  <2>3. QED
    BY <2>1, <2>2
<1>10. \A t : Between(y, d, t) <=> Between(w, d, t)
  BY <1>1 DEF Between
<1>11. Holding(y, a, d)
  BY <1>1, <1>5, <1>6, <1>7, <1>10 DEF Holding
<1>12. ASSUME NEW s \in Stamps, w.req[s].status = "issued" PROVE y.req[s] = w.req[s]
  BY <1>1, <1>12
<1>13. w.order.pending # 0 => y.req[w.order.pending] = w.req[w.order.pending]
  BY <1>2, <1>3, <1>12 DEF Firm
<1>14. Told(y, a, b, p)
  <2>1. \A n : Full(y, p, n) <=> Full(w, p, n)
    <3>1. w.toolkit.text.op # 0 => w.order.pending = w.toolkit.text.op
      BY <1>2 DEF Adapted
    <3>2. w.toolkit.text.op # 0 => y.req[w.toolkit.text.op] = w.req[w.toolkit.text.op]
      BY <1>13, <3>1
    <3>3. QED
      BY <1>1, <3>2 DEF Full
  <2>2. QED
    BY <1>7, <2>1 DEF Told
<1>15. Contexts(y, x, a)
  BY <1>1, <1>7 DEF Contexts
<1>16. \A c : Spent(y, x, a, c) <=> Spent(w, x, a, c)
  BY <1>1 DEF Spent, Gone
<1>17. Fragmented(y, x, a)
  <2>1. \A s \in Stamps : w.req[s].status = "failed" => y.req[s].status = "failed"
    BY <1>1
  <2>2. ASSUME NEW i \in 1..Len(w.toApp), Aimed(w, x, a, w.toApp[i]) PROVE Aimed(y, x, a, w.toApp[i])
    BY <1>1, <1>3, <1>16, <2>1, <2>2 DEF Aimed
  <2>3. QED
    BY <1>1, <1>7, <1>16, <2>2 DEF Fragmented
<1>18. Flying(y, x, a, p)
  <2>1. CASE w.xim.ic # None
    <3>1. w.order.pending # 0
      BY <1>2, <2>1 DEF Adapted
    <3>2. Left(y, p) = Left(w, p) /\ Asked(y) = Asked(w)
      BY <1>1, <1>13, <3>1 DEF Left, Asked
    <3>3. (\A i : CommitAt(y, i) <=> CommitAt(w, i)) /\ (\A i : SyncAt(y, i) <=> SyncAt(w, i))
          /\ \A i : AnswerAt(y, x, i) <=> AnswerAt(w, x, i)
      BY <1>1 DEF CommitAt, SyncAt, AnswerAt
    <3>4. QED
      BY <1>1, <1>7, <2>1, <3>2, <3>3, Zenon DEF Flying
  <2>2. CASE w.xim.ic = None
    BY <1>1, <2>2 DEF Flying
  <2>3. QED
    BY <2>1, <2>2
<1>19. QED
  BY <1>8, <1>9, <1>11, <1>14, <1>15, <1>17, <1>18 DEF Outer

\* What went before comes before what goes now.
LEMMA OutDocument ==
  ASSUME NEW w, Loop(w), NEW y, NEW f, Out(w, y, f), NEW d \in Seq(Stamps), NEW p, Written(w, d), Counted(w, d, p)
  PROVE  /\ \A i \in 1..Len(d) : d[i] \in Stamps /\ d[i] < f /\ Went(y, d[i])
         /\ \A i, j \in 1..Len(d) : i < j => d[i] < d[j]
         /\ Counted(y, d, p) /\ p[f] = 0
         /\ \A i \in 1..Len(w.toApp) : w.toApp[i].s \in Stamps /\ w.toApp[i].s < f
<1> USE XpraAssumption
<1>1. /\ f \in Stamps /\ w.req[f].status = "queued"
      /\ y.req[f].status = "issued" \/ w.req[f].kind = "down"
      /\ \A s \in Stamps : SameAsked(w, y, s) /\ (s # f => y.req[s].status = w.req[s].status)
      /\ \A s \in Stamps : Went(w, s) => s < f
  BY DEF Out
<1>2. \A i \in 1..Len(d) : d[i] \in Stamps
  BY ElementOfSeq
<1>3. \A i \in 1..Len(d) : Went(w, d[i])
  BY DEF Written
<1>4. \A s \in Stamps : Went(w, s) => Went(y, s)
  BY <1>1 DEF Went
<1>5. \A i \in 1..Len(d) : d[i] \in Stamps /\ d[i] < f /\ Went(y, d[i])
  BY <1>1, <1>2, <1>3, <1>4
<1>6. \A i \in 1..Len(d) : d[i] # f
  BY <1>1, <1>3 DEF Went
<1>7. p[f] = 0
  BY <1>1, <1>6 DEF Counted
<1>8. Counted(y, d, p)
  <2> SUFFICES ASSUME NEW s \in Stamps
               PROVE  /\ p[s] # 0 => \E i \in 1..Len(d) : d[i] = s
                      /\ y.req[s].kind = "text" /\ y.req[s].status = "confirmed" => p[s] = y.req[s].size
    BY DEF Counted
  <2>1. p[s] # 0 => \E i \in 1..Len(d) : d[i] = s
    BY DEF Counted
  <2>2. y.req[s].kind = w.req[s].kind /\ y.req[s].size = w.req[s].size /\ (s # f => y.req[s].status = w.req[s].status)
    BY <1>1 DEF SameAsked
  <2>3. y.req[s].kind = "text" /\ y.req[s].status = "confirmed" => p[s] = y.req[s].size
    BY <1>1, <2>2 DEF Counted
  <2>4. QED
    BY <2>1, <2>3
<1>9. \A i \in 1..Len(w.toApp) : w.toApp[i].s \in Stamps /\ w.toApp[i].s < f
  <2>1. w \in Loops /\ Sent(w)
    BY DEF Loop, Core
  <2>2. \A i \in 1..Len(w.toApp) : w.toApp[i].s \in Stamps /\ Went(w, w.toApp[i].s)
    BY <2>1, EventPlaces DEF Sent
  <2>3. QED
    BY <1>1, <2>2
<1>10. QED
  BY <1>5, <1>7, <1>8, <1>9 DEF Written

\* Events of f follow the others.
More(u, r, f) ==
  /\ \A i \in 1..Len(u) : i \in 1..Len(r) /\ r[i] = u[i]
  /\ \A i \in 1..Len(r) : i \in 1..Len(u) \/ r[i].s = f
  /\ \A i \in 1..Len(r), j \in 1..Len(u) : i \in 1..Len(u) \/ j < i

\* So they do behind one event, and behind a fragment.
LEMMA BehindMore == ASSUME NEW u, NEW e, NEW f, e.s = f, NEW r, Behind(u, e, r) PROVE More(u, r, f)
  BY DEF Behind, More

\* A fragment adds events of its text only.
LEMMA FragmentMore == ASSUME NEW u, NEW f, NEW c, NEW r, FragmentSent(u, r, f, c) PROVE More(u, r, f)
<1>1. PICK a \in XpraEvent, b \in XpraEvent, t \in Seq(XpraEvent) :
         /\ a.what = "commit" /\ b.what = "sync" /\ a.s = f /\ b.s = f /\ a.ic = c /\ b.ic = c
         /\ Behind(u, a, t) /\ Behind(t, b, r)
  BY DEF FragmentSent
<1>2. More(u, t, f) /\ More(t, r, f)
  BY <1>1, BehindMore
<1>3. \A i \in 1..Len(u) : i \in 1..Len(r) /\ r[i] = u[i]
  BY <1>2 DEF More
<1>4. \A i \in 1..Len(r) : i \in 1..Len(u) \/ r[i].s = f
  BY <1>1, <1>2 DEF More, Behind
<1>5. \A i \in 1..Len(r), j \in 1..Len(u) : i \in 1..Len(u) \/ j < i
  BY <1>2 DEF More
<1>6. QED
  BY <1>3, <1>4, <1>5 DEF More

\* What all that goes to the application has in common
Goer(w, y, f) ==
  /\ Out(w, y, f) /\ More(w.toApp, y.toApp, f) /\ Plain(w, y)
  /\ y.toolkit.text.op = 0 \/ (y.toolkit.text.op = f /\ w.toolkit.last < y.toolkit.text.number)

\* The document, and the text in hand, come before it.
LEMMA GoerDocument ==
  ASSUME NEW w, Loop(w), NEW y, NEW f, Goer(w, y, f), NEW d \in Seq(Stamps), NEW p, Written(w, d), Counted(w, d, p)
  PROVE  Written(y, d) /\ Counted(y, d, p)
<1> USE XpraAssumption
<1>1. Out(w, y, f) /\ More(w.toApp, y.toApp, f)
  BY DEF Goer
<1>2. /\ \A i \in 1..Len(d) : d[i] \in Stamps /\ d[i] < f /\ Went(y, d[i])
      /\ \A i, j \in 1..Len(d) : i < j => d[i] < d[j]
      /\ Counted(y, d, p)
      /\ \A i \in 1..Len(w.toApp) : w.toApp[i].s \in Stamps /\ w.toApp[i].s < f
  BY <1>1, OutDocument
<1>3. f \in Stamps
  BY <1>1 DEF Out
<1>4. ASSUME NEW i \in 1..Len(d), NEW j \in 1..Len(y.toApp) PROVE d[i] <= y.toApp[j].s
  <2>1. CASE j \in 1..Len(w.toApp)
    BY <1>1, <2>1 DEF More, Written
  <2>2. CASE y.toApp[j].s = f
    <3>1. d[i] \in Nat /\ f \in Nat /\ d[i] < f
      BY <1>2, <1>3
    <3>2. d[i] <= f
      BY <3>1
    <3>3. QED
      BY <2>2, <3>2
  <2>3. QED
    BY <1>1, <2>1, <2>2 DEF More
<1>5. QED
  BY <1>2, <1>4 DEF Written

\* The application holds no text that goes only now.
LEMMA GoerTexts ==
  ASSUME NEW w, Loop(w), NEW y, NEW f, Goer(w, y, f), NEW d \in Seq(Stamps), NEW p, NEW a \in Apps, NEW b \in Seq(BusCalls),
         Written(w, d), Holding(w, a, d), Told(w, a, b, p)
  PROVE  Holding(y, a, d) /\ Told(y, a, b, p)
<1> USE XpraAssumption
<1>1. Out(w, y, f) /\ More(w.toApp, y.toApp, f) /\ Plain(w, y)
      /\ (y.toolkit.text.op = 0 \/ (y.toolkit.text.op = f /\ w.toolkit.last < y.toolkit.text.number))
  BY DEF Goer
<1>2. /\ f \in Stamps /\ w.req[f].status = "queued" /\ w.order.pending = 0
      /\ \A s \in Stamps : s # f => y.req[s].status = w.req[s].status
      /\ \A s \in Stamps : Went(w, s) => s < f
  BY <1>1 DEF Out
<1>3. w \in Loops /\ y \in Loops /\ Stamped(w, 0)
  BY <1>1 DEF Loop, Core, Out
<1>4. w.toolkit.last \in Nat /\ y.toolkit.last \in Nat /\ w.toolkit.last <= y.toolkit.last /\ y.toolkit.text.number \in Nat
  BY <1>1, <1>3, LoopFields DEF Plain
<1>5. a.number \in Nat /\ a.dones \subseteq Nat
  BY DEF Apps
<1>6. \A i \in 1..Len(b) : b[i].n \in Nat
  <2>1. \A i \in 1..Len(b) : b[i] \in BusCalls
    BY ElementOfSeq
  <2>2. QED
    BY <2>1 DEF BusCalls
<1>7. ASSUME NEW n \in Nat, n <= w.toolkit.last PROVE n <= y.toolkit.last /\ (y.toolkit.text.op # 0 => n # y.toolkit.text.number)
  BY <1>1, <1>4, <1>7
<1>8. ASSUME a.state = "got"
      PROVE  /\ a.text \in Stamps /\ Went(y, a.text) /\ Between(y, d, a.text) /\ y.req[a.text].status # "issued"
  <2>1. a.text \in Stamps /\ Went(w, a.text) /\ Between(w, d, a.text)
    BY <1>8 DEF Holding
  <2>2. a.text < f /\ a.text # f
    BY <1>2, <2>1 DEF Went
  <2>3. Went(y, a.text)
    BY <1>2, <2>1, <2>2 DEF Went
  <2>4. y.req[a.text].status # "issued"
    <3>1. w.req[a.text].status # "issued"
      BY <1>2, <1>3, <2>1 DEF Stamped
    <3>2. QED
      BY <1>2, <2>1, <2>2, <3>1
  <2>5. \A i \in 1..Len(y.toApp) : a.text <= y.toApp[i].s
    <3> SUFFICES ASSUME NEW i \in 1..Len(y.toApp) PROVE a.text <= y.toApp[i].s
      OBVIOUS
    <3>1. CASE i \in 1..Len(w.toApp)
      BY <1>1, <2>1, <3>1 DEF More, Between
    <3>2. CASE y.toApp[i].s = f
      <4>1. a.text \in Nat /\ f \in Nat
        BY <1>2, <2>1
      <4>2. a.text <= f
        BY <2>2, <4>1
      <4>3. QED
        BY <3>2, <4>2
    <3>3. QED
      BY <1>1, <3>1, <3>2 DEF More
  <2>6. Between(y, d, a.text)
    BY <2>1, <2>5 DEF Between
  <2>7. QED
    BY <2>1, <2>3, <2>4, <2>6
<1>9. a.number <= w.toolkit.last
  BY DEF Holding
<1>10. a.number <= y.toolkit.last /\ (y.toolkit.text.op # 0 => a.number # y.toolkit.text.number)
  BY <1>5, <1>7, <1>9
<1>11. Holding(y, a, d)
  BY <1>8, <1>10 DEF Holding
<1>12. ASSUME NEW n \in Nat, Full(w, p, n) PROVE Full(y, p, n)
  BY <1>7, <1>12 DEF Full
<1>13. Told(y, a, b, p)
  BY <1>5, <1>6, <1>12 DEF Told
<1>14. QED
  BY <1>11, <1>13

\* What was on its way to a context stays lost.
LEMMA GoerFragments ==
  ASSUME NEW w, Loop(w), NEW y, NEW f, Goer(w, y, f), NEW x \in Seq(Sayings), NEW a,
         Contexts(w, x, a), Fragmented(w, x, a)
  PROVE  /\ Contexts(y, x, a)
         /\ \A i \in 1..Len(w.toApp) : Frag(w.toApp[i]) =>
               /\ Aimed(y, x, a, w.toApp[i]) /\ w.toApp[i].s # f
               /\ w.toApp[i].ic \in w.xim.cancelled \/ w.xim.lost \/ Gone(w, x, a, w.toApp[i].ic)
         /\ \A i \in 1..Len(x) : x[i].what = "sync" =>
               /\ Spent(y, x, a, x[i].ic)
               /\ x[i].ic \in w.xim.cancelled \/ w.xim.lost \/ Gone(w, x, a, x[i].ic)
<1> USE XpraAssumption
<1>1. Out(w, y, f) /\ Plain(w, y)
  BY DEF Goer
<1>2. /\ f \in Stamps /\ w.req[f].status = "queued" /\ w.order.pending = 0 /\ w.xim.ic = None
      /\ \A s \in Stamps : s # f => y.req[s].status = w.req[s].status
      /\ y.order.pending \in {0, f}
  BY <1>1 DEF Out
<1>3. /\ y.xim.supported = w.xim.supported /\ y.xim.cancelled = w.xim.cancelled /\ y.xim.lost = w.xim.lost
  BY <1>1 DEF Plain
<1>4. w \in Loops
  BY DEF Loop, Core
<1>5. Contexts(y, x, a)
  BY <1>3 DEF Contexts
<1>6. ASSUME NEW c \in ICs, Spent(w, x, a, c)
      PROVE  Spent(y, x, a, c) /\ (c \in w.xim.cancelled \/ w.xim.lost \/ Gone(w, x, a, c))
  <2>1. c # None
    OBVIOUS
  <2>2. Gone(w, x, a, c) => Gone(y, x, a, c)
    BY <1>3 DEF Gone
  <2>3. QED
    BY <1>2, <1>3, <1>6, <2>1, <2>2 DEF Spent
<1>7. \A i \in 1..Len(x) : x[i].ic \in ICs
  <2>1. \A i \in 1..Len(x) : x[i] \in Sayings
    BY ElementOfSeq
  <2>2. QED
    BY <2>1 DEF Sayings
<1>8. \A i \in 1..Len(x) : x[i].what = "sync" =>
               /\ Spent(y, x, a, x[i].ic)
               /\ x[i].ic \in w.xim.cancelled \/ w.xim.lost \/ Gone(w, x, a, x[i].ic)
  BY <1>6, <1>7 DEF Fragmented
<1>9. ASSUME NEW i \in 1..Len(w.toApp), Frag(w.toApp[i])
      PROVE  /\ Aimed(y, x, a, w.toApp[i]) /\ w.toApp[i].s # f
             /\ w.toApp[i].ic \in w.xim.cancelled \/ w.xim.lost \/ Gone(w, x, a, w.toApp[i].ic)
  <2>1. w.toApp[i].s \in Stamps /\ w.toApp[i].s # 0 /\ Aimed(w, x, a, w.toApp[i])
    BY <1>4, <1>9, EventPlaces DEF Fragmented
  <2>2. w.toApp[i].ic \in ICs /\ Spent(w, x, a, w.toApp[i].ic)
    BY <2>1 DEF Aimed
  <2>3. w.req[w.toApp[i].s].status = "failed"
    BY <1>2, <2>1 DEF Aimed
  <2>4. w.toApp[i].s # f
    BY <1>2, <2>3
  <2>5. y.req[w.toApp[i].s].status = "failed"
    BY <1>2, <2>1, <2>3, <2>4
  <2>6. w.toApp[i].s # y.order.pending
    BY <1>2, <2>1, <2>4
  <2>7. Spent(y, x, a, w.toApp[i].ic) /\ (w.toApp[i].ic \in w.xim.cancelled \/ w.xim.lost \/ Gone(w, x, a, w.toApp[i].ic))
    BY <1>6, <2>2
  <2>8. QED
    BY <2>2, <2>4, <2>5, <2>6, <2>7 DEF Aimed
<1>10. QED
  BY <1>5, <1>8, <1>9

\* A key, or a marker, goes to no context.
LEMMA GoerKeeps ==
  ASSUME NEW w, Loop(w), NEW y, NEW f, Goer(w, y, f), y.xim.ic = None,
         \A i \in 1..Len(y.toApp) : i \in 1..Len(w.toApp) \/ ~Frag(y.toApp[i]),
         NEW x \in Seq(Sayings), NEW a \in Apps, NEW b \in Seq(BusCalls),
         NEW p, NEW d \in Seq(Stamps), Outer(w, x, a, b, p, d)
  PROVE  Outer(y, x, a, b, p, d)
<1>1. /\ Written(w, d) /\ Counted(w, d, p) /\ Holding(w, a, d) /\ Told(w, a, b, p)
      /\ Contexts(w, x, a) /\ Fragmented(w, x, a)
  BY DEF Outer
<1>2. Written(y, d) /\ Counted(y, d, p)
  BY <1>1, GoerDocument
<1>3. Holding(y, a, d) /\ Told(y, a, b, p)
  BY <1>1, GoerTexts
<1>4. /\ Contexts(y, x, a)
      /\ \A i \in 1..Len(w.toApp) : Frag(w.toApp[i]) =>
            /\ Aimed(y, x, a, w.toApp[i]) /\ w.toApp[i].s # f
            /\ w.toApp[i].ic \in w.xim.cancelled \/ w.xim.lost \/ Gone(w, x, a, w.toApp[i].ic)
      /\ \A i \in 1..Len(x) : x[i].what = "sync" =>
            /\ Spent(y, x, a, x[i].ic)
            /\ x[i].ic \in w.xim.cancelled \/ w.xim.lost \/ Gone(w, x, a, x[i].ic)
  BY <1>1, GoerFragments
<1>5. \A i \in 1..Len(w.toApp) : y.toApp[i] = w.toApp[i]
  BY DEF Goer, More
<1>6. Fragmented(y, x, a)
  BY <1>4, <1>5 DEF Fragmented
<1>7. Flying(y, x, a, p)
  BY DEF Flying
<1>8. QED
  BY <1>2, <1>3, <1>4, <1>6, <1>7 DEF Outer

\* A key that goes comes behind what the document and the calls have.
LEMMA KeyOutKeeps ==
  ASSUME NEW w, Loop(w), NEW y, NEW f, KeyOut(w, y, f), NEW x \in Seq(Sayings), NEW a \in Apps, NEW b \in Seq(BusCalls),
         NEW p, NEW d \in Seq(Stamps), Outer(w, x, a, b, p, d)
  PROVE  Outer(y, x, a, b, p, d)
<1>1. Out(w, y, f) /\ y.order.pending = 0 /\ y.toolkit = w.toolkit /\ y.xim = w.xim
  BY DEF KeyOut
<1>2. PICK e \in XpraEvent : e.what = "key" /\ e.s = f /\ Behind(w.toApp, e, y.toApp)
  BY DEF KeyOut
<1>3. More(w.toApp, y.toApp, f)
  BY <1>2, BehindMore
<1>4. w.xim.ic = None /\ w.toolkit.text.op = 0
  BY <1>1 DEF Out
<1>5. w.toolkit.last \in Nat
  BY LoopFields, XpraAssumption DEF Loop, Core
<1>6. Goer(w, y, f)
  BY <1>1, <1>3, <1>4, <1>5 DEF Goer, Plain
<1>7. \A i \in 1..Len(y.toApp) : i \in 1..Len(w.toApp) \/ ~Frag(y.toApp[i])
  BY <1>2 DEF Behind, Frag
<1>8. QED
  BY <1>1, <1>4, <1>6, <1>7, GoerKeeps

\* So does a marker, under a number that nobody has asked for.
LEMMA MarkOutKeeps ==
  ASSUME NEW w, Loop(w), NEW y, NEW f, MarkOut(w, y, f), NEW x \in Seq(Sayings), NEW a \in Apps, NEW b \in Seq(BusCalls),
         NEW p, NEW d \in Seq(Stamps), Outer(w, x, a, b, p, d)
  PROVE  Outer(y, x, a, b, p, d)
<1>1. /\ Out(w, y, f) /\ y.order.pending = f /\ y.xim = w.xim /\ Plain(w, y)
      /\ y.toolkit.text.op = f /\ w.toolkit.last < y.toolkit.text.number
  BY DEF MarkOut
<1>2. PICK e \in XpraEvent : e.what = "marker" /\ e.s = f /\ Behind(w.toApp, e, y.toApp)
  BY DEF MarkOut
<1>3. More(w.toApp, y.toApp, f)
  BY <1>2, BehindMore
<1>4. w.xim.ic = None
  BY <1>1 DEF Out
<1>5. Goer(w, y, f)
  BY <1>1, <1>3 DEF Goer
<1>6. \A i \in 1..Len(y.toApp) : i \in 1..Len(w.toApp) \/ ~Frag(y.toApp[i])
  BY <1>2 DEF Behind, Frag
<1>7. QED
  BY <1>1, <1>4, <1>5, <1>6, GoerKeeps

\* Where the two events of a fragment are
FragmentAt(u, r, f, c) ==
  /\ Len(u) \in Nat /\ Len(r) = Len(u) + 2
  /\ \A i \in 1..Len(u) : i \in 1..Len(r) /\ r[i] = u[i]
  /\ Len(u) + 1 \in 1..Len(r) /\ Len(u) + 2 \in 1..Len(r)
  /\ \A i \in 1..Len(r) : i \in 1..Len(u) \/ i = Len(u) + 1 \/ i = Len(u) + 2
  /\ LET commit == r[Len(u) + 1] sync == r[Len(u) + 2]
     IN  /\ commit.what = "commit" /\ commit.s = f /\ commit.ic = c
         /\ sync.what = "sync" /\ sync.s = f /\ sync.ic = c

\* The places of the two events of a fragment
LEMMA FragmentPlaces == ASSUME NEW u, NEW f, NEW c, NEW r, FragmentSent(u, r, f, c) PROVE FragmentAt(u, r, f, c)
<1>1. PICK a \in XpraEvent, b \in XpraEvent, t \in Seq(XpraEvent) :
         /\ a.what = "commit" /\ b.what = "sync" /\ a.s = f /\ b.s = f /\ a.ic = c /\ b.ic = c
         /\ Behind(u, a, t) /\ Behind(t, b, r)
  BY DEF FragmentSent
<1>2. /\ Len(u) \in Nat /\ Len(t) = Len(u) + 1 /\ t[Len(u) + 1] = a /\ \A i \in 1..Len(u) : t[i] = u[i]
  BY <1>1 DEF Behind
<1>3. /\ Len(t) \in Nat /\ Len(r) = Len(t) + 1 /\ r[Len(t) + 1] = b /\ \A i \in 1..Len(t) : r[i] = t[i]
  BY <1>1 DEF Behind
<1>4. /\ Len(r) = Len(u) + 2 /\ r[Len(u) + 2] = b /\ r[Len(u) + 1] = a /\ \A i \in 1..Len(u) : r[i] = u[i]
  <2>1. Len(t) + 1 = Len(u) + 2 /\ Len(u) + 1 \in 1..Len(t) /\ \A i \in 1..Len(u) : i \in 1..Len(t)
    BY <1>2
  <2>2. QED
    BY <1>2, <1>3, <2>1
<1>5. /\ \A i \in 1..Len(u) : i \in 1..Len(r)
      /\ Len(u) + 1 \in 1..Len(r) /\ Len(u) + 2 \in 1..Len(r)
      /\ \A i \in 1..Len(r) : i \in 1..Len(u) \/ i = Len(u) + 1 \/ i = Len(u) + 2
  BY <1>2, <1>4
<1>6. QED
  BY <1>1, <1>2, <1>4, <1>5 DEF FragmentAt

\* A fragment of f is all that flies to the context.
Alone(y, x, a, p, u) ==
  /\ y.xim.ic \in a.created
  /\ \A i \in 1..Len(u) : Frag(u[i]) => u[i].ic # y.xim.ic /\ u[i].s # y.order.pending
  /\ \A i \in 1..Len(x) : x[i].what = "sync" => x[i].ic # y.xim.ic
  /\ Left(y, p) + 1 = Asked(y)

\* A context that nothing is on its way to gets its first fragment.
LEMMA AloneFlies ==
  ASSUME NEW y, NEW x, NEW a, NEW p, NEW u, Alone(y, x, a, p, u), FragmentAt(u, y.toApp, y.order.pending, y.xim.ic)
  PROVE  Flying(y, x, a, p)
<1>1. PICK n : n = Len(u)
  OBVIOUS
<1>2. /\ n \in Nat /\ Len(y.toApp) = n + 2 /\ n + 1 \in 1..Len(y.toApp) /\ n + 2 \in 1..Len(y.toApp)
      /\ \A i \in 1..Len(u) : y.toApp[i] = u[i]
      /\ \A i \in 1..Len(y.toApp) : i \in 1..Len(u) \/ i = n + 1 \/ i = n + 2
      /\ y.toApp[n + 1].what = "commit" /\ y.toApp[n + 1].s = y.order.pending /\ y.toApp[n + 1].ic = y.xim.ic
      /\ y.toApp[n + 2].what = "sync" /\ y.toApp[n + 2].s = y.order.pending /\ y.toApp[n + 2].ic = y.xim.ic
  BY <1>1 DEF FragmentAt
<1>3. \A i \in 1..Len(y.toApp) : CommitAt(y, i) <=> i = n + 1
  BY <1>2 DEF CommitAt, Alone, Frag
<1>4. \A i \in 1..Len(y.toApp) : SyncAt(y, i) <=> i = n + 2
  BY <1>2 DEF SyncAt, Alone, Frag
<1>5. \A i \in 1..Len(x) : ~AnswerAt(y, x, i)
  BY DEF AnswerAt, Alone
<1>6. \A i \in 1..Len(y.toApp) : Frag(y.toApp[i]) => ((y.toApp[i].ic = y.xim.ic) <=> (y.toApp[i].s = y.order.pending))
  BY <1>2 DEF Alone
<1>7. Left(y, p) + 1 = Asked(y) /\ y.xim.ic \in a.created
  BY DEF Alone
<1>8. \A i, j \in 1..Len(y.toApp) : CommitAt(y, i) /\ SyncAt(y, j) => i < j
  BY <1>2, <1>3, <1>4
<1>9. \A i \in 1..Len(y.toApp) : SyncAt(y, i) => \E j \in 1..Len(y.toApp) : CommitAt(y, j)
  BY <1>2, <1>3
<1>10. QED
  BY <1>3, <1>4, <1>5, <1>6, <1>7, <1>8, <1>9 DEF Flying

\* The first fragment goes to a context that nothing is on its way to.
LEMMA FragOutKeeps ==
  ASSUME NEW w, Loop(w), NEW y, NEW f, FragOut(w, y, f), NEW x \in Seq(Sayings), NEW a \in Apps, NEW b \in Seq(BusCalls),
         NEW p, NEW d \in Seq(Stamps), p \in [Stamps -> Nat], Outer(w, x, a, b, p, d)
  PROVE  Outer(y, x, a, b, p, d)
<1> USE XpraAssumption
<1>1. /\ Out(w, y, f) /\ y.order.pending = f /\ y.toolkit = w.toolkit /\ Plain(w, y)
      /\ y.xim.ic # None /\ y.xim.ic = w.xim.focused /\ y.xim.ic \notin w.xim.cancelled
      /\ y.xim.left + 1 = w.req[f].size /\ FragmentSent(w.toApp, y.toApp, f, y.xim.ic)
  BY DEF FragOut
<1>2. f \in Stamps /\ w.toolkit.text.op = 0 /\ y.req[f].size = w.req[f].size
  BY <1>1 DEF Out, SameAsked
<1>3. w \in Loops /\ y \in Loops /\ Adapted(w)
  BY <1>1 DEF Loop, Core, Out
<1>4. y.xim.ic \in ICs /\ y.xim.left \in Nat /\ w.req[f].size \in Nat
  BY <1>1, <1>2, <1>3, LoopFields, RequestFields
<1>5. Goer(w, y, f)
  BY <1>1, <1>2, FragmentMore DEF Goer
<1>6. /\ Written(w, d) /\ Counted(w, d, p) /\ Holding(w, a, d) /\ Told(w, a, b, p)
      /\ Contexts(w, x, a) /\ Fragmented(w, x, a)
  BY DEF Outer
<1>7. Written(y, d) /\ Counted(y, d, p)
  BY <1>5, <1>6, GoerDocument
<1>8. Holding(y, a, d) /\ Told(y, a, b, p)
  BY <1>5, <1>6, GoerTexts
<1>9. /\ Contexts(y, x, a)
      /\ \A i \in 1..Len(w.toApp) : Frag(w.toApp[i]) =>
            /\ Aimed(y, x, a, w.toApp[i]) /\ w.toApp[i].s # f
            /\ w.toApp[i].ic \in w.xim.cancelled \/ w.xim.lost \/ Gone(w, x, a, w.toApp[i].ic)
      /\ \A i \in 1..Len(x) : x[i].what = "sync" =>
            /\ Spent(y, x, a, x[i].ic)
            /\ x[i].ic \in w.xim.cancelled \/ w.xim.lost \/ Gone(w, x, a, x[i].ic)
  BY <1>5, <1>6, GoerFragments
<1>10. ASSUME NEW c, c \in w.xim.cancelled \/ w.xim.lost \/ Gone(w, x, a, c) PROVE c # y.xim.ic
  <2>1. w.xim.focused \in w.xim.supported /\ ~w.xim.lost
    BY <1>1, <1>3 DEF Adapted
  <2>2. QED
    BY <1>1, <1>10, <2>1 DEF Gone
<1>11. FragmentAt(w.toApp, y.toApp, f, y.xim.ic)
  BY <1>1, FragmentPlaces
<1>12. p[f] = 0
  BY <1>1, <1>6, OutDocument
<1>13. Left(y, p) + 1 = Asked(y)
  <2>1. Left(y, p) = 0 + y.xim.left /\ Asked(y) = w.req[f].size
    BY <1>1, <1>2, <1>12 DEF Left, Asked
  <2>2. QED
    BY <1>1, <1>4, <2>1
<1>18. y.xim.ic \in a.created
  BY <1>1, <1>3, <1>6 DEF Adapted, Contexts
<1>14. Alone(y, x, a, p, w.toApp)
  BY <1>1, <1>9, <1>10, <1>13, <1>18 DEF Alone
<1>15. Flying(y, x, a, p)
  BY <1>1, <1>11, <1>14, AloneFlies
<1>16. Fragmented(y, x, a)
  <2>1. Spent(y, x, a, y.xim.ic)
    BY DEF Spent
  <2>2. ASSUME NEW i \in 1..Len(y.toApp), Frag(y.toApp[i]) PROVE Aimed(y, x, a, y.toApp[i])
    <3>1. CASE i \in 1..Len(w.toApp)
      <4>1. y.toApp[i] = w.toApp[i]
        BY <1>11, <3>1 DEF FragmentAt
      <4>2. QED
        BY <1>9, <2>2, <3>1, <4>1
    <3>2. CASE y.toApp[i].s = f /\ y.toApp[i].ic = y.xim.ic
      BY <1>1, <1>2, <1>4, <2>1, <3>2 DEF Aimed
    <3>3. QED
      BY <1>11, <3>1, <3>2 DEF FragmentAt
  <2>3. QED
    BY <1>9, <2>2 DEF Fragmented
<1>17. QED
  BY <1>7, <1>8, <1>9, <1>15, <1>16 DEF Outer

\* What of one queue is in another
Within(y, x) == \A i \in 1..Len(y) : \E j \in 1..Len(x) : y[i] = x[j]

\* What is left of a sequence is within it.
LEMMA BeheadWithin == ASSUME NEW x, NEW y, Behead(x, y) PROVE Within(y, x)
  BY DEF Behead, Within

\* A context that something is on its way to, or from
Flies(w, y, c) ==
  \/ \E i \in 1..Len(w.toApp) : Frag(w.toApp[i]) /\ w.toApp[i].ic = c
  \/ \E i \in 1..Len(y) : y[i].what = "sync" /\ y[i].ic = c

\* It stays lost when the input method hears of its contexts.
LEMMA StillFragmented ==
  ASSUME NEW w, NEW v, NEW x \in Seq(Sayings), NEW y, Within(y, x), NEW a, Fragmented(w, x, a),
         v.toApp = w.toApp, v.req = w.req, v.order = w.order, v.toolkit = w.toolkit,
         \A c \in ICs : Spent(w, x, a, c) /\ Flies(w, y, c) => Spent(v, y, a, c)
  PROVE  Fragmented(v, y, a)
<1>1. ASSUME NEW i \in 1..Len(w.toApp), Frag(w.toApp[i]) PROVE Aimed(v, y, a, w.toApp[i])
  <2>1. Aimed(w, x, a, w.toApp[i])
    BY <1>1 DEF Fragmented
  <2>2. Flies(w, y, w.toApp[i].ic)
    BY <1>1 DEF Flies
  <2>3. Spent(v, y, a, w.toApp[i].ic)
    BY <2>1, <2>2 DEF Aimed
  <2>4. QED
    BY <2>1, <2>3 DEF Aimed
<1>2. ASSUME NEW i \in 1..Len(y), y[i].what = "sync" PROVE Spent(v, y, a, y[i].ic)
  <2>1. PICK j \in 1..Len(x) : y[i] = x[j]
    BY DEF Within
  <2>2. x[j] \in Sayings
    BY ElementOfSeq
  <2>3. y[i].ic \in ICs /\ Spent(w, x, a, y[i].ic)
    BY <1>2, <2>1, <2>2 DEF Fragmented, Sayings
  <2>4. Flies(w, y, y[i].ic)
    BY <1>2 DEF Flies
  <2>5. QED
    BY <2>3, <2>4
<1>3. QED
  BY <1>1, <1>2 DEF Fragmented

\* So does what is on its way to the context of the text, when one answer less is.
LEMMA StillFlying ==
  ASSUME NEW w, NEW v, NEW x, NEW y, Behead(x, y), NEW a, NEW p, Flying(w, x, a, p),
         v.toApp = w.toApp, v.req = w.req, v.order = w.order,
         v.xim.ic = None \/ (v.xim.ic = w.xim.ic /\ v.xim.left = w.xim.left)
  PROVE  Flying(v, y, a, p)
<1>1. CASE v.xim.ic = None
  BY <1>1 DEF Flying
<1>2. CASE v.xim.ic = w.xim.ic /\ v.xim.left = w.xim.left /\ w.xim.ic # None
  <2>1. /\ Len(y) \in Nat /\ \A i \in 1..Len(y) : i + 1 \in 1..Len(x) /\ y[i] = x[i + 1]
    BY DEF Behead
  <2>2. (\A i : CommitAt(v, i) <=> CommitAt(w, i)) /\ (\A i : SyncAt(v, i) <=> SyncAt(w, i))
    BY <1>2 DEF CommitAt, SyncAt
  <2>3. \A i \in 1..Len(y) : AnswerAt(v, y, i) <=> AnswerAt(w, x, i + 1)
    BY <1>2, <2>1 DEF AnswerAt
  <2>4. Left(v, p) = Left(w, p) /\ Asked(v) = Asked(w)
    BY <1>2 DEF Left, Asked
  <2>5. ASSUME NEW i \in 1..Len(y), NEW j \in 1..Len(y), AnswerAt(v, y, i), AnswerAt(v, y, j) PROVE i = j
    <3>1. i + 1 = j + 1
      BY <1>2, <2>1, <2>3, <2>5 DEF Flying
    <3>2. QED
      BY <3>1
  <2>6. \A i \in 1..Len(y), j \in 1..Len(v.toApp) : AnswerAt(v, y, i) => ~CommitAt(v, j) /\ ~SyncAt(v, j)
    BY <1>2, <2>1, <2>2, <2>3 DEF Flying
  <2>7. \A i \in 1..Len(y) : AnswerAt(v, y, i) => Left(v, p) = Asked(v)
    BY <1>2, <2>1, <2>3, <2>4 DEF Flying
  <2>8. /\ v.xim.ic \in a.created
        /\ \A i \in 1..Len(v.toApp) : Frag(v.toApp[i]) => ((v.toApp[i].ic = v.xim.ic) <=> (v.toApp[i].s = v.order.pending))
        /\ \A i, j \in 1..Len(v.toApp) : CommitAt(v, i) /\ CommitAt(v, j) => i = j
        /\ \A i, j \in 1..Len(v.toApp) : SyncAt(v, i) /\ SyncAt(v, j) => i = j
        /\ \A i, j \in 1..Len(v.toApp) : CommitAt(v, i) /\ SyncAt(v, j) => i < j
        /\ \A i \in 1..Len(v.toApp) : CommitAt(v, i) => Left(v, p) + 1 = Asked(v)
        /\ \A i \in 1..Len(v.toApp) : SyncAt(v, i) /\ (\A j \in 1..Len(v.toApp) : ~CommitAt(v, j)) /\ v.xim.ic \in a.alive =>
             Left(v, p) = Asked(v)
    BY <1>2, <2>2, <2>4, Zenon DEF Flying
  <2>9. QED
    BY <2>5, <2>6, <2>7, <2>8 DEF Flying
<1>3. QED
  BY <1>1, <1>2

\* What the input method still has to hear of the contexts
LEMMA StillContexts ==
  ASSUME NEW w, NEW v, NEW x, NEW y, Behead(x, y), x[1].what # "destroy", NEW a, Contexts(w, x, a),
         v.xim.supported = w.xim.supported
         \/ (x[1].what = "create" /\ v.xim.supported = w.xim.supported \cup {x[1].ic})
  PROVE  Contexts(v, y, a)
<1>1. /\ Len(y) \in Nat /\ Len(x) = Len(y) + 1 /\ 1 \in 1..Len(x)
      /\ \A i \in 1..Len(y) : i + 1 \in 1..Len(x) /\ y[i] = x[i + 1]
  BY DEF Behead
<1>2. ASSUME NEW c, Ending(x, a, c) PROVE Ending(y, a, c)
  <2>1. CASE c \in a.alive
    BY <2>1 DEF Ending
  <2>2. ASSUME NEW i \in 1..Len(x), x[i].what = "destroy", x[i].ic = c PROVE Ending(y, a, c)
    <3>1. i # 1
      BY <2>2
    <3>2. i - 1 \in 1..Len(y) /\ (i - 1) + 1 = i
      BY <1>1, <3>1
    <3>3. y[i - 1] = x[i]
      BY <1>1, <3>2
    <3>4. QED
      BY <2>2, <3>2, <3>3 DEF Ending
  <2>3. QED
    BY <1>2, <2>1, <2>2 DEF Ending
<1>3. x[1].ic \in a.created /\ Ending(x, a, x[1].ic)
  BY <1>1 DEF Contexts
<1>4. v.xim.supported \subseteq a.created /\ \A c \in v.xim.supported : Ending(y, a, c)
  BY <1>2, <1>3 DEF Contexts
<1>5. \A i \in 1..Len(y) : y[i].ic \in a.created /\ Ending(y, a, y[i].ic)
  BY <1>1, <1>2 DEF Contexts
<1>6. ASSUME NEW i \in 1..Len(y), y[i].what = "destroy"
      PROVE  y[i].ic \notin a.alive /\ \A j \in 1..Len(y) : i < j => y[j].ic # y[i].ic
  <2>1. i + 1 \in 1..Len(x) /\ x[i + 1].what = "destroy" /\ y[i] = x[i + 1]
    BY <1>1, <1>6
  <2>2. ASSUME NEW j \in 1..Len(y), i < j PROVE y[j].ic # y[i].ic
    <3>1. j + 1 \in 1..Len(x) /\ i + 1 < j + 1 /\ y[j] = x[j + 1]
      BY <1>1, <2>2
    <3>2. QED
      BY <2>1, <3>1 DEF Contexts
  <2>3. QED
    BY <2>1, <2>2 DEF Contexts
<1>7. a.alive \subseteq a.created
  BY DEF Contexts
<1>8. QED
  BY <1>4, <1>5, <1>6, <1>7 DEF Contexts

\* A destroyed context is gone.
LEMMA DestroyedGone ==
  ASSUME NEW w, NEW v, NEW x, NEW y, Behead(x, y), x[1].what = "destroy", NEW a, Contexts(w, x, a),
         v.xim.supported = w.xim.supported \ {x[1].ic}
  PROVE  Contexts(v, y, a) /\ Gone(v, y, a, x[1].ic)
<1>1. /\ Len(y) \in Nat /\ Len(x) = Len(y) + 1 /\ 1 \in 1..Len(x)
      /\ \A i \in 1..Len(y) : i + 1 \in 1..Len(x) /\ y[i] = x[i + 1]
  BY DEF Behead
<1>2. \A i \in 1..Len(y) : y[i].ic # x[1].ic
  <2> SUFFICES ASSUME NEW i \in 1..Len(y) PROVE y[i].ic # x[1].ic
    OBVIOUS
  <2>1. i + 1 \in 1..Len(x) /\ 1 < i + 1 /\ y[i] = x[i + 1]
    BY <1>1
  <2>2. QED
    BY <1>1, <2>1 DEF Contexts
<1>3. x[1].ic \in a.created /\ x[1].ic \notin a.alive
  BY <1>1 DEF Contexts
<1>4. Gone(v, y, a, x[1].ic)
  BY <1>2, <1>3 DEF Gone
<1>5. ASSUME NEW c, c # x[1].ic, Ending(x, a, c) PROVE Ending(y, a, c)
  <2>1. CASE c \in a.alive
    BY <2>1 DEF Ending
  <2>2. ASSUME NEW i \in 1..Len(x), x[i].what = "destroy", x[i].ic = c PROVE Ending(y, a, c)
    <3>1. i # 1
      BY <1>5, <2>2
    <3>2. i - 1 \in 1..Len(y) /\ (i - 1) + 1 = i
      BY <1>1, <3>1
    <3>3. y[i - 1] = x[i]
      BY <1>1, <3>2
    <3>4. QED
      BY <2>2, <3>2, <3>3 DEF Ending
  <2>3. QED
    BY <1>5, <2>1, <2>2 DEF Ending
<1>6. v.xim.supported \subseteq a.created /\ \A c \in v.xim.supported : Ending(y, a, c)
  BY <1>5 DEF Contexts
<1>7. \A i \in 1..Len(y) : y[i].ic \in a.created /\ Ending(y, a, y[i].ic)
  BY <1>1, <1>2, <1>5 DEF Contexts
<1>8. ASSUME NEW i \in 1..Len(y), y[i].what = "destroy"
      PROVE  y[i].ic \notin a.alive /\ \A j \in 1..Len(y) : i < j => y[j].ic # y[i].ic
  <2>1. i + 1 \in 1..Len(x) /\ x[i + 1].what = "destroy" /\ y[i] = x[i + 1]
    BY <1>1, <1>8
  <2>2. ASSUME NEW j \in 1..Len(y), i < j PROVE y[j].ic # y[i].ic
    <3>1. j + 1 \in 1..Len(x) /\ i + 1 < j + 1 /\ y[j] = x[j + 1]
      BY <1>1, <2>2
    <3>2. QED
      BY <2>1, <3>1 DEF Contexts
  <2>3. QED
    BY <2>1, <2>2 DEF Contexts
<1>9. a.alive \subseteq a.created
  BY DEF Contexts
<1>10. QED
  BY <1>4, <1>6, <1>7, <1>8, <1>9 DEF Contexts

\* What the input method knows of its contexts changes, and nothing else.
LEMMA FocusBecomes ==
  ASSUME NEW w \in Loops, NEW f \in Focuses, NEW v, v = [w EXCEPT !.xim = f]
  PROVE  /\ v \in Loops /\ v.xim = f /\ v.viewers = w.viewers /\ v.order = w.order /\ v.toolkit = w.toolkit
         /\ v.toApp = w.toApp /\ v.req = w.req
  BY DEF Loops

Listens(w, v) ==
  /\ v \in Loops /\ v.viewers = w.viewers /\ v.order = w.order /\ v.toolkit = w.toolkit
  /\ v.toApp = w.toApp /\ v.req = w.req /\ v.xim.ic = w.xim.ic /\ v.xim.left = w.xim.left
  /\ v.xim.focused \in v.xim.supported \cup {None} /\ (v.xim.lost => v.xim.focused = None)

\* It listens, and its loop goes on as before.
LEMMA ListensLoop == ASSUME NEW w, Loop(w), NEW v, Listens(w, v) PROVE Loop(v)
<1>1. /\ v \in Loops /\ v.viewers = w.viewers /\ v.order = w.order /\ v.toolkit = w.toolkit
      /\ v.toApp = w.toApp /\ v.req = w.req /\ v.xim.ic = w.xim.ic
      /\ v.xim.focused \in v.xim.supported \cup {None} /\ (v.xim.lost => v.xim.focused = None)
  BY DEF Listens
<1>2. Stamped(v, 0) /\ Bounded(v)
  BY <1>1 DEF Loop, Core, Stamped, Waits, Bounded
<1>3. Owing(v)
  BY <1>1 DEF Loop, Core, Owing, Xpra!Available
<1>4. Sequenced(v)
  BY <1>1 DEF Loop, Core, Sequenced, Went, Waits
<1>5. Adapted(v)
  BY <1>1 DEF Loop, Core, Adapted
<1>6. Sent(v) /\ Shut(v)
  BY <1>1 DEF Loop, Core, Sent, Went, Shut
<1>7. Firm(v) /\ Draining(v)
  BY <1>1 DEF Loop, Firm, Draining
<1>8. QED
  BY <1>1, <1>2, <1>3, <1>4, <1>5, <1>6, <1>7 DEF Loop, Core

\* The document and the toolkit are of no concern to it.
LEMMA OtherParts ==
  ASSUME NEW w, NEW v, v.toApp = w.toApp, v.req = w.req, v.toolkit = w.toolkit, NEW a, NEW b, NEW p, NEW d
  PROVE  /\ Written(w, d) => Written(v, d)
         /\ Counted(w, d, p) => Counted(v, d, p)
         /\ Holding(w, a, d) => Holding(v, a, d)
         /\ Told(w, a, b, p) => Told(v, a, b, p)
<1>1. Written(w, d) => Written(v, d)
  BY DEF Written, Went
<1>2. Counted(w, d, p) => Counted(v, d, p)
  BY DEF Counted
<1>3. Holding(w, a, d) => Holding(v, a, d)
  BY DEF Holding, Went, Between
<1>4. Told(w, a, b, p) => Told(v, a, b, p)
  BY DEF Told, Full
<1>5. QED
  BY <1>1, <1>2, <1>3, <1>4

\* A context that takes UTF-8, or not; a change of the focus; an answer that nobody waits for.
Attends(w, v, x, y) ==
  /\ Listens(w, v) /\ Behead(x, y) /\ x[1].what # "destroy" /\ v.xim.lost = w.xim.lost
  /\ v.xim.cancelled = w.xim.cancelled
  /\ \/ v.xim.supported = w.xim.supported
     \/ x[1].what = "create" /\ v.xim.supported = w.xim.supported \cup {x[1].ic}

\* The focus moves: what is on its way is not touched.
LEMMA AttendsKeeps ==
  ASSUME NEW w, NEW v, NEW x \in Seq(Sayings), NEW y, Attends(w, v, x, y), NEW a, NEW b, NEW p, NEW d,
         Outer(w, x, a, b, p, d)
  PROVE  Outer(v, y, a, b, p, d)
<1>1. /\ v.order = w.order /\ v.toolkit = w.toolkit /\ v.toApp = w.toApp /\ v.req = w.req
      /\ v.xim.ic = w.xim.ic /\ v.xim.left = w.xim.left
      /\ Behead(x, y) /\ x[1].what # "destroy" /\ v.xim.lost = w.xim.lost /\ v.xim.cancelled = w.xim.cancelled
      /\ \/ v.xim.supported = w.xim.supported
         \/ x[1].what = "create" /\ v.xim.supported = w.xim.supported \cup {x[1].ic}
  BY DEF Attends, Listens
<1>2. /\ Written(w, d) /\ Counted(w, d, p) /\ Holding(w, a, d) /\ Told(w, a, b, p)
      /\ Contexts(w, x, a) /\ Fragmented(w, x, a) /\ Flying(w, x, a, p)
  BY DEF Outer
<1>3. Written(v, d) /\ Counted(v, d, p) /\ Holding(v, a, d) /\ Told(v, a, b, p)
  BY <1>1, <1>2, OtherParts
<1>4. Contexts(v, y, a)
  BY <1>1, <1>2, StillContexts
<1>5. Flying(v, y, a, p)
  BY <1>1, <1>2, StillFlying
<1>6. ASSUME NEW c, Spent(w, x, a, c) PROVE Spent(v, y, a, c)
  <2>1. 1 \in 1..Len(x) /\ \A i \in 1..Len(y) : i + 1 \in 1..Len(x) /\ y[i] = x[i + 1]
    BY <1>1 DEF Behead
  <2>2. ASSUME Gone(w, x, a, c) PROVE Gone(v, y, a, c)
    <3>1. c \notin v.xim.supported
      BY <1>1, <2>1, <2>2 DEF Gone
    <3>2. \A i \in 1..Len(y) : y[i].ic = c => y[i].what # "create"
      BY <2>1, <2>2 DEF Gone
    <3>3. QED
      BY <2>2, <3>1, <3>2 DEF Gone
  <2>3. QED
    BY <1>1, <1>6, <2>2 DEF Spent
<1>7. Fragmented(v, y, a)
  BY <1>1, <1>2, <1>6, BeheadWithin, StillFragmented
<1>8. QED
  BY <1>3, <1>4, <1>5, <1>7 DEF Outer

\* A context is destroyed, and perhaps the text with it.
Forgets(w, v, x, y) ==
  /\ Behead(x, y) /\ x[1].what = "destroy"
  /\ v.viewers = w.viewers /\ v.order = w.order /\ v.toolkit = w.toolkit /\ v.toApp = w.toApp /\ v.req = w.req
  /\ v.xim.supported = w.xim.supported \ {x[1].ic} /\ v.xim.cancelled = w.xim.cancelled \ {x[1].ic}
  /\ v.xim.lost = w.xim.lost
  /\ \/ v.xim.ic = w.xim.ic /\ v.xim.left = w.xim.left
     \/ v.xim.ic = None /\ w.xim.ic = x[1].ic

\* A context that is destroyed is spent for good.
LEMMA ForgetsKeeps ==
  ASSUME NEW w, NEW v, NEW x \in Seq(Sayings), NEW y, Forgets(w, v, x, y), NEW a, NEW b, NEW p, NEW d,
         Outer(w, x, a, b, p, d)
  PROVE  Outer(v, y, a, b, p, d)
<1>1. /\ v.order = w.order /\ v.toolkit = w.toolkit /\ v.toApp = w.toApp /\ v.req = w.req
      /\ Behead(x, y) /\ x[1].what = "destroy" /\ v.xim.supported = w.xim.supported \ {x[1].ic}
  BY DEF Forgets
<1>2. /\ Written(w, d) /\ Counted(w, d, p) /\ Holding(w, a, d) /\ Told(w, a, b, p)
      /\ Contexts(w, x, a) /\ Fragmented(w, x, a) /\ Flying(w, x, a, p)
  BY DEF Outer
<1>3. Written(v, d) /\ Counted(v, d, p) /\ Holding(v, a, d) /\ Told(v, a, b, p)
  BY <1>1, <1>2, OtherParts
<1>4. Contexts(v, y, a) /\ Gone(v, y, a, x[1].ic)
  BY <1>1, <1>2, DestroyedGone
<1>5. Flying(v, y, a, p)
  <2>1. v.xim.ic = None \/ (v.xim.ic = w.xim.ic /\ v.xim.left = w.xim.left)
    BY DEF Forgets
  <2>2. QED
    BY <1>1, <1>2, <2>1, StillFlying
<1>6. ASSUME NEW c, Spent(w, x, a, c) PROVE Spent(v, y, a, c)
  <2>1. \A i \in 1..Len(y) : i + 1 \in 1..Len(x) /\ y[i] = x[i + 1]
    BY <1>1 DEF Behead
  <2>2. ASSUME Gone(w, x, a, c) PROVE Gone(v, y, a, c)
    BY <1>1, <2>1, <2>2 DEF Gone
  <2>3. CASE c = x[1].ic
    BY <1>4, <2>3 DEF Spent
  <2>4. CASE c # x[1].ic
    BY <1>6, <2>2, <2>4 DEF Spent, Forgets
  <2>5. QED
    BY <2>3, <2>4
<1>7. Fragmented(v, y, a)
  BY <1>1, <1>2, <1>6, BeheadWithin, StillFragmented
<1>8. QED
  BY <1>3, <1>4, <1>5, <1>7 DEF Outer

\* The connection of the input method is lost: no context is used again.
Unheard(w, v) ==
  /\ v.viewers = w.viewers /\ v.order = w.order /\ v.toolkit = w.toolkit /\ v.toApp = w.toApp /\ v.req = w.req
  /\ v.xim.supported = w.xim.supported /\ v.xim.lost /\ v.xim.ic = None

\* A message that changes nothing of the loop is read.
LEMMA UnheardKeeps ==
  ASSUME NEW w, NEW v, NEW x \in Seq(Sayings), Unheard(w, v), NEW a, NEW b, NEW p, NEW d, Outer(w, x, a, b, p, d)
  PROVE  Outer(v, x, a, b, p, d)
<1>1. /\ v.order = w.order /\ v.toolkit = w.toolkit /\ v.toApp = w.toApp /\ v.req = w.req
      /\ v.xim.supported = w.xim.supported /\ v.xim.lost /\ v.xim.ic = None
  BY DEF Unheard
<1>2. /\ Written(w, d) /\ Counted(w, d, p) /\ Holding(w, a, d) /\ Told(w, a, b, p)
      /\ Contexts(w, x, a) /\ Fragmented(w, x, a)
  BY DEF Outer
<1>3. Written(v, d) /\ Counted(v, d, p) /\ Holding(v, a, d) /\ Told(v, a, b, p)
  BY <1>1, <1>2, OtherParts
<1>4. Contexts(v, x, a)
  BY <1>1, <1>2 DEF Contexts
<1>5. Flying(v, x, a, p)
  BY <1>1 DEF Flying
<1>6. \A c : Spent(v, x, a, c)
  BY <1>1 DEF Spent
<1>7. Within(x, x)
  BY DEF Within
<1>8. Fragmented(v, x, a)
  BY <1>1, <1>2, <1>6, <1>7, StillFragmented
<1>9. QED
  BY <1>3, <1>4, <1>5, <1>8 DEF Outer

\* Nothing is on its way to the context of the text, or from it.
Quiet(w, x) ==
  /\ \A i \in 1..Len(w.toApp) : Frag(w.toApp[i]) => w.toApp[i].ic # w.xim.ic /\ w.toApp[i].s # w.order.pending
  /\ \A i \in 1..Len(x) : x[i].what = "sync" => x[i].ic # w.xim.ic

\* The answer to a fragment is read.
Answered(w, x, y) == Behead(x, y) /\ x[1].what = "sync" /\ x[1].ic = w.xim.ic /\ w.xim.ic # None
Quieted(w, y, a, p) == w.xim.ic \in a.created /\ Contexts(w, y, a) /\ Fragmented(w, y, a) /\ Quiet(w, y) /\ Left(w, p) = Asked(w)

\* It was the last that was on its way.
LEMMA AnswerQuiets ==
  ASSUME NEW w, NEW x \in Seq(Sayings), NEW y, Answered(w, x, y), NEW a, NEW p,
         Contexts(w, x, a), Fragmented(w, x, a), Flying(w, x, a, p)
  PROVE  Quieted(w, y, a, p)
<1>1. Behead(x, y) /\ x[1].what = "sync" /\ x[1].ic = w.xim.ic /\ w.xim.ic # None
  BY DEF Answered
<1>2. /\ Len(y) \in Nat /\ Len(x) = Len(y) + 1 /\ 1 \in 1..Len(x)
      /\ \A i \in 1..Len(y) : i + 1 \in 1..Len(x) /\ y[i] = x[i + 1]
  BY <1>1 DEF Behead
<1>3. AnswerAt(w, x, 1)
  BY <1>1 DEF AnswerAt
<1>4. \A i \in 1..Len(w.toApp) : ~CommitAt(w, i) /\ ~SyncAt(w, i)
  BY <1>1, <1>2, <1>3 DEF Flying
<1>5. \A i \in 1..Len(w.toApp) : Frag(w.toApp[i]) => w.toApp[i].ic # w.xim.ic /\ w.toApp[i].s # w.order.pending
  <2>1. \A i \in 1..Len(w.toApp) : Frag(w.toApp[i]) => w.toApp[i].ic # w.xim.ic
    BY <1>4 DEF CommitAt, SyncAt, Frag
  <2>2. \A i \in 1..Len(w.toApp) : Frag(w.toApp[i]) => ((w.toApp[i].ic = w.xim.ic) <=> (w.toApp[i].s = w.order.pending))
    BY <1>1 DEF Flying
  <2>3. QED
    BY <2>1, <2>2
<1>6. \A i \in 1..Len(y) : ~AnswerAt(w, x, i + 1)
  <2>1. \A i, j \in 1..Len(x) : AnswerAt(w, x, i) /\ AnswerAt(w, x, j) => i = j
    BY <1>1 DEF Flying
  <2>2. \A i \in 1..Len(y) : AnswerAt(w, x, i + 1) => i + 1 = 1
    BY <1>2, <1>3, <2>1
  <2>3. QED
    BY <1>2, <2>2
<1>7. Quiet(w, y)
  <2>1. \A i \in 1..Len(y) : y[i].what = "sync" => y[i].ic # w.xim.ic
    BY <1>2, <1>6 DEF AnswerAt
  <2>2. QED
    BY <1>5, <2>1 DEF Quiet
<1>8. Left(w, p) = Asked(w)
  BY <1>1, <1>2, <1>3 DEF Flying
<1>9. Contexts(w, y, a)
  BY <1>1, StillContexts
<1>10. ASSUME NEW c, Spent(w, x, a, c) PROVE Spent(w, y, a, c)
  BY <1>2, <1>10 DEF Spent, Gone
<1>11. Fragmented(w, y, a)
  BY <1>1, <1>10, BeheadWithin, StillFragmented
<1>12. w.xim.ic \in a.created
  BY <1>1, <1>2 DEF Contexts
<1>13. QED
  BY <1>7, <1>8, <1>9, <1>11, <1>12 DEF Quieted

\* The text is confirmed that the application has whole.
LEMMA DoneKeeps ==
  ASSUME NEW w, Loop(w), NEW y, Done(w, y), NEW x \in Seq(Sayings), Quiet(w, x), NEW a \in Apps, NEW b,
         NEW p, NEW d \in Seq(Stamps), p[w.order.pending] = w.req[w.order.pending].size,
         Written(w, d), Counted(w, d, p), Holding(w, a, d), Told(w, a, b, p), Contexts(w, x, a), Fragmented(w, x, a)
  PROVE  Outer(y, x, a, b, p, d)
<1> USE XpraAssumption
<1>1. /\ y.toApp = w.toApp /\ y.toolkit.last = w.toolkit.last
      /\ y.xim.supported = w.xim.supported /\ y.xim.cancelled = w.xim.cancelled /\ y.xim.lost = w.xim.lost
      /\ w.order.pending \in Stamps /\ w.req[w.order.pending].status = "issued"
      /\ y.order.pending = 0 /\ y.toolkit.text.op = 0 /\ y.xim.ic = None
      /\ \A s \in Stamps : SameAsked(w, y, s)
      /\ \A s \in Stamps : y.req[s].status = IF s = w.order.pending THEN "confirmed" ELSE w.req[s].status
  BY DEF Done
<1>2. w \in Loops /\ Stamped(y, 0)
  BY DEF Done, Loop, Core
<1>3. \A s \in Stamps : /\ Went(w, s) => Went(y, s)
                        /\ y.req[s].status # "issued"
                        /\ w.req[s].status = "failed" => y.req[s].status = "failed"
                        /\ y.req[s].kind = w.req[s].kind /\ y.req[s].size = w.req[s].size
  BY <1>1, <1>2 DEF Went, Stamped, SameAsked
<1>4. \A i \in 1..Len(w.toApp) : w.toApp[i].s \in Stamps /\ w.toApp[i].s # 0
  BY <1>2, EventPlaces
<1>5. Written(y, d)
  <2>1. \A i \in 1..Len(d) : d[i] \in Stamps
    BY ElementOfSeq
  <2>2. QED
    BY <1>1, <1>3, <2>1 DEF Written
<1>6. Counted(y, d, p)
  <2> SUFFICES ASSUME NEW s \in Stamps
               PROVE  /\ p[s] # 0 => \E i \in 1..Len(d) : d[i] = s
                      /\ y.req[s].kind = "text" /\ y.req[s].status = "confirmed" => p[s] = y.req[s].size
    BY DEF Counted
  <2>1. p[s] # 0 => \E i \in 1..Len(d) : d[i] = s
    BY DEF Counted
  <2>2. y.req[s].kind = "text" /\ y.req[s].status = "confirmed" => p[s] = y.req[s].size
    <3>1. CASE s = w.order.pending
      BY <1>3, <3>1
    <3>2. CASE s # w.order.pending
      <4>1. y.req[s].status = w.req[s].status /\ y.req[s].kind = w.req[s].kind /\ y.req[s].size = w.req[s].size
        BY <1>1, <1>3, <3>2
      <4>2. QED
        BY <4>1 DEF Counted
    <3>3. QED
      BY <3>1, <3>2
  <2>3. QED
    BY <2>1, <2>2
<1>7. Holding(y, a, d)
  BY <1>1, <1>3 DEF Holding, Between
<1>8. Told(y, a, b, p)
  BY <1>1 DEF Told, Full
<1>9. Contexts(y, x, a)
  BY <1>1 DEF Contexts
<1>10. ASSUME NEW c, c # w.xim.ic, Spent(w, x, a, c) PROVE Spent(y, x, a, c)
  BY <1>1, <1>10 DEF Spent, Gone
<1>11. Fragmented(y, x, a)
  <2>1. ASSUME NEW i \in 1..Len(w.toApp), Frag(w.toApp[i]) PROVE Aimed(y, x, a, w.toApp[i])
    <3>1. Aimed(w, x, a, w.toApp[i]) /\ w.toApp[i].ic # w.xim.ic /\ w.toApp[i].s # w.order.pending
      BY <2>1 DEF Fragmented, Quiet
    <3>2. w.toApp[i].ic \in ICs /\ Spent(y, x, a, w.toApp[i].ic)
      BY <1>10, <3>1 DEF Aimed
    <3>3. y.req[w.toApp[i].s].status = "failed"
      BY <1>3, <1>4, <3>1 DEF Aimed
    <3>4. QED
      BY <1>1, <3>2, <3>3 DEF Aimed
  <2>2. \A i \in 1..Len(x) : x[i].what = "sync" => Spent(y, x, a, x[i].ic)
    BY <1>10 DEF Fragmented, Quiet
  <2>3. QED
    BY <1>1, <2>1, <2>2 DEF Fragmented
<1>12. Flying(y, x, a, p)
  BY <1>1 DEF Flying
<1>13. QED
  BY <1>5, <1>6, <1>7, <1>8, <1>9, <1>11, <1>12 DEF Outer

\* The next fragment follows the answer to the last.
LEMMA ContinuesKeeps ==
  ASSUME NEW w, Loop(w), NEW y, Continues(w, y), NEW x \in Seq(Sayings), NEW a \in Apps, NEW b,
         NEW p, p \in [Stamps -> Nat], NEW d \in Seq(Stamps), Quieted(w, x, a, p),
         Written(w, d), Counted(w, d, p), Holding(w, a, d), Told(w, a, b, p)
  PROVE  Outer(y, x, a, b, p, d)
<1> USE XpraAssumption
<1>1. /\ y.toolkit = w.toolkit /\ y.order = w.order
      /\ y.xim.ic = w.xim.ic /\ y.xim.ic # None /\ y.xim.left + 1 = w.xim.left
      /\ y.xim.supported = w.xim.supported /\ y.xim.cancelled = w.xim.cancelled /\ y.xim.lost = w.xim.lost
      /\ \A s \in Stamps : SameAsked(w, y, s) /\ y.req[s].status = w.req[s].status
      /\ FragmentSent(w.toApp, y.toApp, w.order.pending, w.xim.ic)
  BY DEF Continues
<1>2. w \in Loops /\ y \in Loops /\ Adapted(w) /\ Sequenced(w) /\ Firm(w)
  BY DEF Continues, Loop, Core
<1>3. PICK f : f = w.order.pending
  OBVIOUS
<1>4. f \in Stamps /\ y.xim.ic \in ICs /\ y.xim.left \in Nat /\ w.xim.left \in Nat /\ w.toolkit.text.op \in Stamps \cup {0}
      /\ y.order.pending = f /\ w.toolkit.text.op = 0
  <2>1. w.order.pending # 0 /\ w.toolkit.text.op = 0
    BY <1>1, <1>2 DEF Adapted
  <2>2. QED
    BY <1>1, <1>2, <1>3, <2>1, LoopFields
<1>5. \A s \in Stamps : (Went(y, s) <=> Went(w, s)) /\ (Went(w, s) => s <= f)
  BY <1>1, <1>2, <1>3, <1>4 DEF Went, Sequenced
<1>6. Quiet(w, x) /\ Contexts(w, x, a) /\ Fragmented(w, x, a) /\ Left(w, p) = Asked(w) /\ w.xim.ic \in a.created
  BY DEF Quieted
<1>7. FragmentAt(w.toApp, y.toApp, f, y.xim.ic) /\ More(w.toApp, y.toApp, f)
  BY <1>1, <1>3, FragmentPlaces, FragmentMore
<1>8. \A i \in 1..Len(d) : d[i] \in Stamps /\ Went(w, d[i]) /\ d[i] <= f
  <2>1. \A i \in 1..Len(d) : d[i] \in Stamps
    BY ElementOfSeq
  <2>2. QED
    BY <1>5, <2>1 DEF Written
<1>9. ASSUME NEW t, t <= f, \A i \in 1..Len(w.toApp) : t <= w.toApp[i].s PROVE \A i \in 1..Len(y.toApp) : t <= y.toApp[i].s
  BY <1>7, <1>9 DEF More
<1>10. Written(y, d)
  <2>1. ASSUME NEW i \in 1..Len(d) PROVE \A j \in 1..Len(y.toApp) : d[i] <= y.toApp[j].s
    <3>1. \A j \in 1..Len(w.toApp) : d[i] <= w.toApp[j].s
      BY DEF Written
    <3>2. QED
      BY <1>8, <1>9, <3>1
  <2>2. QED
    BY <1>5, <1>8, <2>1 DEF Written
<1>11. Counted(y, d, p)
  BY <1>1 DEF Counted, SameAsked
<1>12. Holding(y, a, d)
  <2>1. ASSUME a.state = "got" PROVE Between(y, d, a.text) /\ Went(y, a.text)
    <3>1. a.text \in Stamps /\ Went(w, a.text) /\ Between(w, d, a.text)
      BY <2>1 DEF Holding
    <3>2. a.text <= f
      BY <1>5, <3>1
    <3>3. QED
      BY <1>5, <1>9, <3>1, <3>2 DEF Between
  <2>2. \A s \in Stamps : y.req[s].status = w.req[s].status
    BY <1>1
  <2>3. QED
    BY <1>1, <1>4, <2>1, <2>2 DEF Holding
<1>13. Told(y, a, b, p)
  BY <1>1, <1>4 DEF Told, Full
<1>14. Contexts(y, x, a)
  BY <1>1, <1>6 DEF Contexts
<1>15. \A c : Spent(w, x, a, c) => Spent(y, x, a, c)
  BY <1>1 DEF Spent, Gone
<1>16. Fragmented(y, x, a)
  <2>1. ASSUME NEW i \in 1..Len(y.toApp), Frag(y.toApp[i]) PROVE Aimed(y, x, a, y.toApp[i])
    <3>1. CASE i \in 1..Len(w.toApp)
      <4>1. y.toApp[i] = w.toApp[i] /\ w.toApp[i].s \in Stamps
        BY <1>2, <1>7, <3>1, EventPlaces DEF FragmentAt
      <4>2. Aimed(w, x, a, w.toApp[i])
        BY <1>6, <2>1, <3>1, <4>1 DEF Fragmented
      <4>3. QED
        BY <1>1, <1>15, <4>1, <4>2 DEF Aimed
    <3>2. CASE y.toApp[i].s = f /\ y.toApp[i].ic = y.xim.ic
      BY <1>1, <1>3, <1>4, <3>2 DEF Aimed, Spent
    <3>3. QED
      BY <1>7, <3>1, <3>2 DEF FragmentAt
  <2>2. \A i \in 1..Len(x) : x[i].what = "sync" => Spent(y, x, a, x[i].ic)
    BY <1>6, <1>15 DEF Fragmented
  <2>3. QED
    BY <2>1, <2>2 DEF Fragmented
<1>17. Flying(y, x, a, p)
  <2>1. Left(y, p) + 1 = Asked(y)
    <3>1. y.req[f].size = w.req[f].size /\ p[f] \in Nat
      BY <1>1, <1>4 DEF SameAsked
    <3>2. Left(y, p) = p[f] + y.xim.left /\ Asked(y) = w.req[f].size /\ p[f] + w.xim.left = w.req[f].size
      BY <1>3, <1>4, <1>6, <3>1 DEF Left, Asked
    <3>3. y.xim.left + 1 = w.xim.left /\ y.xim.left \in Nat
      BY <1>1, <1>4
    <3>4. (p[f] + y.xim.left) + 1 = p[f] + w.xim.left
      BY <3>1, <3>3
    <3>5. QED
      BY <3>2, <3>4
  <2>2. Alone(y, x, a, p, w.toApp)
    BY <1>1, <1>6, <2>1 DEF Alone, Quiet
  <2>3. QED
    BY <1>4, <1>7, <2>2, AloneFlies
<1>18. QED
  BY <1>10, <1>11, <1>12, <1>13, <1>14, <1>16, <1>17 DEF Outer

\* A text that is given up when its answer was read
LEMMA QuietKeeps ==
  ASSUME NEW w, NEW v, NEW x \in Seq(Sayings), NEW a, NEW b, NEW p, NEW d, Quieted(w, x, a, p),
         Written(w, d), Counted(w, d, p), Holding(w, a, d), Told(w, a, b, p),
         v.order = w.order, v.toolkit = w.toolkit, v.toApp = w.toApp, v.req = w.req,
         v.xim.supported = w.xim.supported, v.xim.lost = w.xim.lost, v.xim.cancelled = w.xim.cancelled, v.xim.ic = None
  PROVE  Outer(v, x, a, b, p, d)
<1>1. Quiet(w, x) /\ Contexts(w, x, a) /\ Fragmented(w, x, a)
  BY DEF Quieted
<1>2. Written(v, d) /\ Counted(v, d, p) /\ Holding(v, a, d) /\ Told(v, a, b, p)
  BY OtherParts
<1>3. Contexts(v, x, a)
  BY <1>1 DEF Contexts
<1>4. Flying(v, x, a, p)
  BY DEF Flying
<1>5. \A c : Spent(w, x, a, c) /\ c # w.xim.ic => Spent(v, x, a, c)
  BY DEF Spent, Gone
<1>6. \A c : Flies(w, x, c) => c # w.xim.ic
  BY <1>1 DEF Flies, Quiet
<1>7. Within(x, x)
  BY DEF Within
<1>8. Fragmented(v, x, a)
  BY <1>1, <1>5, <1>6, <1>7, StillFragmented
<1>9. QED
  BY <1>2, <1>3, <1>4, <1>8 DEF Outer

\* The application reads an event.
Reads(w, v) ==
  /\ w.toApp # <<>> /\ v \in Loops /\ Behead(w.toApp, v.toApp)
  /\ v.viewers = w.viewers /\ v.order = w.order /\ v.toolkit = w.toolkit /\ v.xim = w.xim /\ v.req = w.req
Reading(w, v) == w.toApp # <<>> /\ v = [w EXCEPT !.toApp = Tail(w.toApp)]

\* An event that is read is the first.
LEMMA ReadingReads == ASSUME NEW w \in Loops, NEW v, Reading(w, v) PROVE Reads(w, v) /\ Head(w.toApp) = w.toApp[1]
<1>1. PICK t : t = Tail(w.toApp)
  OBVIOUS
<1>2. w.toApp \in Seq(XpraEvent) /\ w.toApp # <<>>
  BY LoopFields DEF Reading
<1>3. t \in Seq(XpraEvent) /\ Behead(w.toApp, t) /\ Head(w.toApp) = w.toApp[1]
  BY <1>1, <1>2, Beheaded
<1>4. v = [w EXCEPT !.toApp = t]
  BY <1>1 DEF Reading
<1>5. QED
  BY <1>2, <1>3, <1>4 DEF Loops, Reads

\* The loop goes on as before.
LEMMA ReadsLoop == ASSUME NEW w, Loop(w), NEW v, Reads(w, v) PROVE Loop(v)
<1>1. /\ v \in Loops /\ Behead(w.toApp, v.toApp)
      /\ v.viewers = w.viewers /\ v.order = w.order /\ v.toolkit = w.toolkit /\ v.xim = w.xim /\ v.req = w.req
  BY DEF Reads
<1>2. Stamped(v, 0) /\ Bounded(v)
  BY <1>1 DEF Loop, Core, Stamped, Waits, Bounded
<1>3. Owing(v)
  BY <1>1 DEF Loop, Core, Owing, Xpra!Available
<1>4. Sequenced(v)
  BY <1>1 DEF Loop, Core, Sequenced, Went, Waits
<1>5. Adapted(v) /\ Shut(v)
  BY <1>1 DEF Loop, Core, Adapted, Shut
<1>6. Sent(v)
  <2>1. \A i \in 1..Len(v.toApp) : i \in Nat /\ i + 1 \in 1..Len(w.toApp) /\ v.toApp[i] = w.toApp[i + 1]
    BY <1>1 DEF Behead
  <2>2. Sent(w)
    BY DEF Loop, Core
  <2>3. \A i \in 1..Len(v.toApp) : Went(v, v.toApp[i].s)
    BY <1>1, <2>1, <2>2 DEF Sent, Went
  <2>4. ASSUME NEW i \in 1..Len(v.toApp), NEW j \in 1..Len(v.toApp), i < j PROVE v.toApp[i].s <= v.toApp[j].s
    <3>1. i + 1 < j + 1
      BY <2>1, <2>4
    <3>2. QED
      BY <2>1, <2>2, <3>1 DEF Sent
  <2>5. \A i \in 1..Len(v.toApp) : v.toApp[i].what = "marker" =>
           /\ v.toApp[i].n <= v.toolkit.last
           /\ v.toolkit.text.op # 0 /\ v.toApp[i].n = v.toolkit.text.number => v.toApp[i].s = v.toolkit.text.op
    BY <1>1, <2>1, <2>2 DEF Sent
  <2>6. QED
    BY <2>3, <2>4, <2>5 DEF Sent
<1>7. Firm(v) /\ Draining(v)
  BY <1>1 DEF Loop, Firm, Draining
<1>8. QED
  BY <1>1, <1>2, <1>3, <1>4, <1>5, <1>6, <1>7 DEF Loop, Core

\* What it read is of a request that went, between what it acted on and what follows.
LEMMA ReadsNext ==
  ASSUME NEW w, Loop(w), NEW v, Reads(w, v), NEW d \in Seq(Stamps), Written(w, d)
  PROVE  /\ Written(v, d) /\ w.toApp[1].s \in Stamps /\ Went(v, w.toApp[1].s) /\ Between(v, d, w.toApp[1].s)
         /\ \A t : Between(w, d, t) => Between(v, d, t)
<1>1. Behead(w.toApp, v.toApp) /\ v.req = w.req
  BY DEF Reads
<1>2. /\ 1 \in 1..Len(w.toApp) /\ \A i \in 1..Len(v.toApp) : i \in Nat /\ i + 1 \in 1..Len(w.toApp) /\ 1 < i + 1 /\ v.toApp[i] = w.toApp[i + 1]
  <2>1. /\ Len(v.toApp) \in Nat /\ 1 \in 1..Len(w.toApp)
        /\ \A i \in 1..Len(v.toApp) : i + 1 \in 1..Len(w.toApp) /\ v.toApp[i] = w.toApp[i + 1]
    BY <1>1 DEF Behead
  <2>2. \A i \in 1..Len(v.toApp) : i \in Nat /\ 1 < i + 1
    BY <2>1
  <2>3. QED
    BY <2>1, <2>2
<1>3. Sent(w) /\ w \in Loops
  BY DEF Loop, Core
<1>4. w.toApp[1].s \in Stamps /\ Went(v, w.toApp[1].s)
  BY <1>1, <1>2, <1>3, EventPlaces DEF Sent, Went
<1>5. Written(v, d)
  BY <1>1, <1>2 DEF Written, Went
<1>6. Between(v, d, w.toApp[1].s)
  BY <1>2, <1>3 DEF Between, Written, Sent
<1>7. \A t : Between(w, d, t) => Between(v, d, t)
  BY <1>2 DEF Between
<1>8. QED
  BY <1>4, <1>5, <1>6, <1>7

\* Nothing else changes for the contexts, and what was done.
LEMMA ReadsOther ==
  ASSUME NEW w, NEW v, Reads(w, v), NEW a, NEW b, NEW p, NEW d, NEW x
  PROVE  /\ Counted(w, d, p) => Counted(v, d, p)
         /\ Told(w, a, b, p) => Told(v, a, b, p)
         /\ Contexts(w, x, a) => Contexts(v, x, a)
         /\ Fragmented(w, x, a) => Fragmented(v, x, a)
<1>1. Behead(w.toApp, v.toApp) /\ v.req = w.req /\ v.order = w.order /\ v.toolkit = w.toolkit /\ v.xim = w.xim
  BY DEF Reads
<1>2. \A i \in 1..Len(v.toApp) : i + 1 \in 1..Len(w.toApp) /\ v.toApp[i] = w.toApp[i + 1]
  BY <1>1 DEF Behead
<1>3. (Counted(w, d, p) => Counted(v, d, p)) /\ (Told(w, a, b, p) => Told(v, a, b, p))
      /\ (Contexts(w, x, a) => Contexts(v, x, a))
  BY <1>1 DEF Counted, Told, Full, Contexts
<1>4. \A c : Spent(w, x, a, c) => Spent(v, x, a, c)
  BY <1>1 DEF Spent, Gone
<1>5. \A e : Aimed(w, x, a, e) => Aimed(v, x, a, e)
  BY <1>1, <1>4 DEF Aimed
<1>6. Fragmented(w, x, a) => Fragmented(v, x, a)
  BY <1>2, <1>4, <1>5 DEF Fragmented
<1>7. QED
  BY <1>3, <1>6

\* What flies, when something else than a commit to its context was read
LEMMA ReadsFlying ==
  ASSUME NEW w, NEW v, Reads(w, v), ~CommitAt(w, 1), NEW a, NEW p, NEW x, Flying(w, x, a, p)
  PROVE  Flying(v, x, a, p)
<1>1. Behead(w.toApp, v.toApp) /\ v.req = w.req /\ v.order = w.order /\ v.toolkit = w.toolkit /\ v.xim = w.xim
  BY DEF Reads
<1>2. /\ Len(v.toApp) \in Nat /\ Len(w.toApp) = Len(v.toApp) + 1
      /\ \A i \in 1..Len(v.toApp) : i \in Nat /\ i + 1 \in 1..Len(w.toApp) /\ v.toApp[i] = w.toApp[i + 1]
  BY <1>1 DEF Behead
<1>3. CASE v.xim.ic = None
  BY <1>3 DEF Flying
<1>4. CASE w.xim.ic # None
  <2>1. Left(v, p) = Left(w, p) /\ Asked(v) = Asked(w)
    BY <1>1 DEF Left, Asked
  <2>2. \A i \in 1..Len(v.toApp) : (CommitAt(v, i) <=> CommitAt(w, i + 1)) /\ (SyncAt(v, i) <=> SyncAt(w, i + 1))
    BY <1>1, <1>2 DEF CommitAt, SyncAt
  <2>3. \A i : AnswerAt(v, x, i) <=> AnswerAt(w, x, i)
    BY <1>1 DEF AnswerAt
  <2>4. \A i \in 1..Len(v.toApp) : Frag(v.toApp[i]) => ((v.toApp[i].ic = v.xim.ic) <=> (v.toApp[i].s = v.order.pending))
    BY <1>1, <1>2, <1>4 DEF Flying
  <2>5. ASSUME NEW i \in 1..Len(v.toApp), NEW j \in 1..Len(v.toApp)
        PROVE  /\ CommitAt(v, i) /\ CommitAt(v, j) => i = j
               /\ SyncAt(v, i) /\ SyncAt(v, j) => i = j
               /\ CommitAt(v, i) /\ SyncAt(v, j) => i < j
    <3>1. /\ CommitAt(w, i + 1) /\ CommitAt(w, j + 1) => i + 1 = j + 1
          /\ SyncAt(w, i + 1) /\ SyncAt(w, j + 1) => i + 1 = j + 1
          /\ CommitAt(w, i + 1) /\ SyncAt(w, j + 1) => i + 1 < j + 1
      BY <1>2, <1>4 DEF Flying
    <3>2. /\ CommitAt(v, i) <=> CommitAt(w, i + 1)
          /\ CommitAt(v, j) <=> CommitAt(w, j + 1)
          /\ SyncAt(v, i) <=> SyncAt(w, i + 1)
          /\ SyncAt(v, j) <=> SyncAt(w, j + 1)
      BY <2>2
    <3>3. i \in Nat /\ j \in Nat
      BY <1>2
    <3>4. QED
      BY <3>1, <3>2, <3>3
  <2>6. \A i, j \in 1..Len(x) : AnswerAt(v, x, i) /\ AnswerAt(v, x, j) => i = j
    BY <1>4, <2>3 DEF Flying
  <2>7. \A i \in 1..Len(x), j \in 1..Len(v.toApp) : AnswerAt(v, x, i) => ~CommitAt(v, j) /\ ~SyncAt(v, j)
    BY <1>2, <1>4, <2>2, <2>3 DEF Flying
  <2>8. \A i \in 1..Len(v.toApp) : CommitAt(v, i) => Left(v, p) + 1 = Asked(v)
    BY <1>2, <1>4, <2>1, <2>2 DEF Flying
  <2>9. ASSUME NEW i \in 1..Len(v.toApp), SyncAt(v, i), \A j \in 1..Len(v.toApp) : ~CommitAt(v, j), v.xim.ic \in a.alive
        PROVE  Left(v, p) = Asked(v)
    <3>1. ASSUME NEW j \in 1..Len(w.toApp) PROVE ~CommitAt(w, j)
      <4>1. CASE j = 1
        BY <4>1
      <4>2. CASE j # 1
        <5>1. j - 1 \in 1..Len(v.toApp) /\ (j - 1) + 1 = j
          BY <1>2, <4>2
        <5>2. QED
          BY <2>2, <2>9, <5>1
      <4>3. QED
        BY <4>1, <4>2
    <3>2. SyncAt(w, i + 1) /\ i + 1 \in 1..Len(w.toApp) /\ w.xim.ic \in a.alive
      BY <1>1, <1>2, <2>2, <2>9
    <3>3. QED
      BY <1>4, <2>1, <3>1, <3>2 DEF Flying
  <2>10. \A i \in 1..Len(x) : AnswerAt(v, x, i) => Left(v, p) = Asked(v)
    BY <1>4, <2>1, <2>3 DEF Flying
  <2>12. v.xim.ic \in a.created
    BY <1>1, <1>4 DEF Flying
  <2>11. QED
    BY <2>12, <2>4, <2>5, <2>6, <2>7, <2>8, <2>9, <2>10 DEF Flying
<1>5. QED
  BY <1>1, <1>3, <1>4

\* The application acts on a request: its number is the last of the document.
Inserts(d, s, e) == e = IF d # <<>> /\ Xpra!Last(d) = s THEN d ELSE Append(d, s)
Inserting(v, d, s, e) ==
  /\ e \in Seq(Stamps) /\ Written(v, e)
  /\ \E i \in 1..Len(e) : e[i] = s
  /\ \A i \in 1..Len(d) : \E j \in 1..Len(e) : e[j] = d[i]
  /\ e = d \/ (e = Append(d, s) /\ \A i \in 1..Len(d) : d[i] < s)

\* What goes into the document comes after all that is there.
LEMMA InsertsInto ==
  ASSUME NEW v, NEW d \in Seq(Stamps), Written(v, d), NEW s \in Stamps, Went(v, s), Between(v, d, s), NEW e, Inserts(d, s, e)
  PROVE  Inserting(v, d, s, e)
<1> USE XpraAssumption
<1>1. Len(d) \in Nat /\ \A i \in 1..Len(d) : d[i] \in Stamps /\ d[i] \in Nat
  BY LenProperties, ElementOfSeq
<1>2. CASE d # <<>> /\ Xpra!Last(d) = s
  <2>1. e = d
    BY <1>2, Zenon DEF Inserts
  <2>2. Len(d) \in 1..Len(d)
    BY <1>1, <1>2, EmptySeq
  <2>3. d[Len(d)] = s
    BY <1>2, Zenon DEF Xpra!Last
  <2>4. QED
    BY <2>1, <2>2, <2>3 DEF Inserting
<1>3. CASE ~(d # <<>> /\ Xpra!Last(d) = s)
  <2>1. e = Append(d, s)
    BY <1>3, Zenon DEF Inserts
  <2>2. e \in Seq(Stamps) /\ Behind(d, s, e)
    BY <2>1, Appended
  <2>3. ASSUME NEW i \in 1..Len(d) PROVE d[i] < s
    <3>1. d # <<>> /\ Len(d) \in 1..Len(d)
      BY <1>1, EmptySeq
    <3>2. d[Len(d)] # s
      BY <1>3, <3>1, Zenon DEF Xpra!Last
    <3>3. d[Len(d)] <= s /\ d[i] <= s
      BY <3>1 DEF Between
    <3>4. CASE i = Len(d)
      BY <1>1, <3>2, <3>3, <3>4
    <3>5. CASE i # Len(d)
      <4>1. i < Len(d)
        BY <1>1, <3>5
      <4>2. d[i] < d[Len(d)]
        BY <3>1, <4>1 DEF Written
      <4>3. QED
        BY <1>1, <3>1, <3>3, <4>2
    <3>6. QED
      BY <3>4, <3>5
  <2>4. /\ Len(e) = Len(d) + 1 /\ e[Len(e)] = s /\ Len(e) \in 1..Len(e)
        /\ \A i \in 1..Len(d) : i \in 1..Len(e) /\ e[i] = d[i]
        /\ \A i \in 1..Len(e) : i \in 1..Len(d) \/ i = Len(e)
    BY <2>2 DEF Behind
  <2>5. Written(v, e)
    <3>1. \A i \in 1..Len(e) : Went(v, e[i])
      BY <2>4 DEF Written
    <3>2. ASSUME NEW i \in 1..Len(e), NEW j \in 1..Len(e), i < j PROVE e[i] < e[j]
      <4>1. i \in 1..Len(d)
        BY <2>4, <3>2
      <4>2. CASE j \in 1..Len(d)
        BY <2>4, <3>2, <4>1, <4>2 DEF Written
      <4>3. CASE j = Len(e)
        BY <2>3, <2>4, <4>1, <4>3
      <4>4. QED
        BY <2>4, <4>2, <4>3
    <3>3. \A i \in 1..Len(e), j \in 1..Len(v.toApp) : e[i] <= v.toApp[j].s
      BY <2>4 DEF Written, Between
    <3>4. QED
      BY <3>1, <3>2, <3>3 DEF Written
  <2>6. QED
    BY <2>1, <2>2, <2>3, <2>4, <2>5 DEF Inserting
<1>4. QED
  BY <1>2, <1>3

\* A longer document has what was counted.
LEMMA LongerCounted ==
  ASSUME NEW w, NEW d, NEW e, \A i \in 1..Len(d) : \E j \in 1..Len(e) : e[j] = d[i], NEW p, Counted(w, d, p)
  PROVE  Counted(w, e, p)
<1> SUFFICES ASSUME NEW s \in Stamps, p[s] # 0 PROVE \E i \in 1..Len(e) : e[i] = s
  BY DEF Counted
<1>1. PICK i \in 1..Len(d) : d[i] = s
  BY DEF Counted
<1>2. QED
  BY <1>1

\* A key is read.
LEMMA KeyReadKeeps ==
  ASSUME NEW w, Loop(w), NEW v, Reads(w, v), w.toApp[1].what = "key", NEW x, NEW a, a.state = "idle", NEW b, NEW p,
         NEW d \in Seq(Stamps), Outer(w, x, a, b, p, d), NEW e, Inserts(d, w.toApp[1].s, e)
  PROVE  Outer(v, x, a, b, p, e) /\ Inserting(v, d, w.toApp[1].s, e)
<1>1. /\ Written(w, d) /\ Counted(w, d, p) /\ Holding(w, a, d) /\ Told(w, a, b, p)
      /\ Contexts(w, x, a) /\ Fragmented(w, x, a) /\ Flying(w, x, a, p)
  BY DEF Outer
<1>2. Written(v, d) /\ w.toApp[1].s \in Stamps /\ Went(v, w.toApp[1].s) /\ Between(v, d, w.toApp[1].s)
  BY <1>1, ReadsNext
<1>3. Inserting(v, d, w.toApp[1].s, e)
  BY <1>2, InsertsInto
<1>4. Counted(v, d, p) /\ Told(v, a, b, p) /\ Contexts(v, x, a) /\ Fragmented(v, x, a)
  BY <1>1, ReadsOther
<1>5. Flying(v, x, a, p)
  BY <1>1, ReadsFlying DEF CommitAt
<1>6. Counted(v, e, p)
  BY <1>3, <1>4, LongerCounted DEF Inserting
<1>7. Holding(v, a, e)
  BY <1>1 DEF Holding, Reads
<1>8. QED
  BY <1>3, <1>4, <1>5, <1>6, <1>7 DEF Outer, Inserting

\* A marker is read, and perhaps the text asked for.
Wonders(w, a, c) ==
  \/ c = a
  \/ c = [a EXCEPT !.state = "asking", !.number = w.toApp[1].n]

\* A marker that is read is asked for, or lost.
LEMMA MarkerReadKeeps ==
  ASSUME NEW w, Loop(w), NEW v, Reads(w, v), w.toApp[1].what = "marker", NEW x, NEW a \in Apps, a.state = "idle",
         NEW c, Wonders(w, a, c), NEW b, NEW r, \A i \in 1..Len(r) : r[i].call = "done" => \E j \in 1..Len(b) : b[j] = r[i],
         NEW p, NEW d \in Seq(Stamps), Outer(w, x, a, b, p, d)
  PROVE  c \in Apps /\ Outer(v, x, c, r, p, d)
<1>1. /\ Written(w, d) /\ Counted(w, d, p) /\ Holding(w, a, d) /\ Told(w, a, b, p)
      /\ Contexts(w, x, a) /\ Fragmented(w, x, a) /\ Flying(w, x, a, p)
  BY DEF Outer
<1>2. Written(v, d) /\ Between(v, d, w.toApp[1].s)
  BY <1>1, ReadsNext
<1>3. Counted(v, d, p) /\ Told(v, a, b, p) /\ Contexts(v, x, a) /\ Fragmented(v, x, a)
  BY <1>1, ReadsOther
<1>4. Flying(v, x, a, p)
  BY <1>1, ReadsFlying DEF CommitAt
<1>5. w \in Loops /\ Sent(w) /\ 1 \in 1..Len(w.toApp) /\ w.toolkit = v.toolkit
  BY DEF Loop, Core, Reads, Behead
<1>6. /\ w.toApp[1].n \in 0..MaxMarker /\ w.toApp[1].n <= v.toolkit.last
      /\ v.toolkit.text.op # 0 /\ w.toApp[1].n = v.toolkit.text.number => w.toApp[1].s = v.toolkit.text.op
  BY <1>5, EventPlaces DEF Sent
<1>7. /\ c \in Apps /\ c.dones = a.dones /\ c.alive = a.alive /\ c.created = a.created
      /\ \/ c.state = "idle" /\ c.number = a.number
         \/ c.state = "asking" /\ c.number = w.toApp[1].n
  <2>1. CASE c = a
    BY <2>1
  <2>2. CASE c = [a EXCEPT !.state = "asking", !.number = w.toApp[1].n]
    BY <1>6, <2>2 DEF Apps
  <2>3. QED
    BY <2>1, <2>2 DEF Wonders
<1>8. a.number <= v.toolkit.last
  BY <1>1, <1>5 DEF Holding
<1>9. Holding(v, c, d)
  <2>1. c.number <= v.toolkit.last
    BY <1>6, <1>7, <1>8
  <2>2. c.state # "got"
    BY <1>7
  <2>3. c.state = "asking" /\ v.toolkit.text.op # 0 /\ c.number = v.toolkit.text.number => Between(v, d, v.toolkit.text.op)
    BY <1>2, <1>6, <1>7
  <2>4. QED
    BY <2>1, <2>2, <2>3 DEF Holding
<1>10. Told(v, c, r, p)
  BY <1>3, <1>7 DEF Told
<1>11. Contexts(v, x, c) /\ Fragmented(v, x, c) /\ Flying(v, x, c, p)
  BY <1>3, <1>4, <1>7 DEF Contexts, Ending, Fragmented, Aimed, Spent, Gone, Flying
<1>12. QED
  BY <1>2, <1>3, <1>7, <1>9, <1>10, <1>11 DEF Outer

\* Only the fragments of the text that is pending count.
LEMMA FlyingAlike ==
  ASSUME NEW w, NEW x, NEW a, NEW p, NEW q, q[w.order.pending] = p[w.order.pending], Flying(w, x, a, p)
  PROVE  Flying(w, x, a, q)
<1>1. Left(w, q) = Left(w, p)
  BY DEF Left
<1>2. QED
  BY <1>1, Zenon DEF Flying

\* A fragment is read, by a context that is there, or by none.
Counts(w, a, p, q) ==
  /\ q \in [Stamps -> Nat] /\ \A t \in Stamps : t # w.toApp[1].s => q[t] = p[t]
  /\ w.toApp[1].ic \in a.alive => q[w.toApp[1].s] = p[w.toApp[1].s] + 1
  /\ w.toApp[1].ic \notin a.alive => q = p

\* A fragment that is read is one more that has arrived.
LEMMA CommitFlying ==
  ASSUME NEW w, Loop(w), NEW v, Reads(w, v), w.toApp[1].what = "commit", NEW x, NEW a, NEW p, p \in [Stamps -> Nat],
         NEW q, Counts(w, a, p, q), Flying(w, x, a, p)
  PROVE  Flying(v, x, a, q)
<1> USE XpraAssumption
<1>1. Behead(w.toApp, v.toApp) /\ v.req = w.req /\ v.order = w.order /\ v.toolkit = w.toolkit /\ v.xim = w.xim
  BY DEF Reads
<1>2. /\ Len(v.toApp) \in Nat /\ 1 \in 1..Len(w.toApp)
      /\ \A i \in 1..Len(v.toApp) : i \in Nat /\ i + 1 # 1 /\ i + 1 \in 1..Len(w.toApp) /\ v.toApp[i] = w.toApp[i + 1]
  <2>1. /\ Len(v.toApp) \in Nat /\ 1 \in 1..Len(w.toApp)
        /\ \A i \in 1..Len(v.toApp) : i + 1 \in 1..Len(w.toApp) /\ v.toApp[i] = w.toApp[i + 1]
    BY <1>1 DEF Behead
  <2>2. \A i \in 1..Len(v.toApp) : i \in Nat /\ i + 1 # 1
    BY <2>1
  <2>3. QED
    BY <2>1, <2>2
<1>3. w \in Loops /\ Adapted(w)
  BY DEF Loop, Core
<1>4. CASE w.xim.ic = None
  BY <1>1, <1>4 DEF Flying
<1>5. CASE w.xim.ic # None
  <2>1. w.order.pending \in Stamps /\ w.xim.left \in Nat
    <3>1. w.order.pending # 0
      BY <1>3, <1>5 DEF Adapted
    <3>2. QED
      BY <1>3, <3>1, LoopFields
  <2>2. (w.toApp[1].ic = w.xim.ic) <=> (w.toApp[1].s = w.order.pending)
    BY <1>2, <1>5 DEF Flying, Frag
  <2>3. CASE ~CommitAt(w, 1)
    <3>1. w.toApp[1].s # w.order.pending
      BY <2>2, <2>3 DEF CommitAt
    <3>2. q[w.order.pending] = p[w.order.pending]
      BY <2>1, <3>1 DEF Counts
    <3>3. Flying(v, x, a, p)
      BY <2>3, ReadsFlying
    <3>4. QED
      BY <1>1, <3>2, <3>3, FlyingAlike
  <2>4. CASE CommitAt(w, 1)
    <3>1. w.toApp[1].ic = w.xim.ic /\ w.toApp[1].s = w.order.pending
      BY <2>2, <2>4 DEF CommitAt
    <3>2. Left(w, p) + 1 = Asked(w)
      BY <1>2, <1>5, <2>4 DEF Flying
    <3>3. \A i \in 1..Len(v.toApp) : (CommitAt(v, i) <=> CommitAt(w, i + 1)) /\ (SyncAt(v, i) <=> SyncAt(w, i + 1))
      BY <1>1, <1>2 DEF CommitAt, SyncAt
    <3>4. \A i \in 1..Len(v.toApp) : ~CommitAt(v, i)
      BY <1>2, <1>5, <2>4, <3>3 DEF Flying
    <3>5. \A i \in 1..Len(x) : ~AnswerAt(v, x, i)
      <4>1. \A i \in 1..Len(x) : ~AnswerAt(w, x, i)
        BY <1>2, <1>5, <2>4 DEF Flying
      <4>2. QED
        BY <1>1, <4>1 DEF AnswerAt
    <3>6. ASSUME NEW i \in 1..Len(v.toApp), NEW j \in 1..Len(v.toApp), SyncAt(v, i), SyncAt(v, j) PROVE i = j
      <4>1. i + 1 = j + 1
        BY <1>2, <1>5, <3>3, <3>6 DEF Flying
      <4>2. QED
        BY <1>2, <4>1
    <3>7. ASSUME w.xim.ic \in a.alive PROVE Left(v, q) = Asked(v)
      <4>1. q[w.order.pending] = p[w.order.pending] + 1 /\ p[w.order.pending] \in Nat
        BY <2>1, <3>1, <3>7 DEF Counts
      <4>2. Left(v, q) = q[w.order.pending] + w.xim.left /\ Left(w, p) = p[w.order.pending] + w.xim.left /\ Asked(v) = Asked(w)
        BY <1>1 DEF Left, Asked
      <4>3. (p[w.order.pending] + 1) + w.xim.left = (p[w.order.pending] + w.xim.left) + 1
        BY <2>1, <4>1
      <4>4. QED
        BY <3>2, <4>1, <4>2, <4>3
    <3>8. ASSUME NEW i \in 1..Len(v.toApp), Frag(v.toApp[i])
          PROVE  (v.toApp[i].ic = v.xim.ic) <=> (v.toApp[i].s = v.order.pending)
      <4>1. v.toApp[i] = w.toApp[i + 1] /\ i + 1 \in 1..Len(w.toApp)
        BY <1>2
      <4>2. (w.toApp[i + 1].ic = w.xim.ic) <=> (w.toApp[i + 1].s = w.order.pending)
        BY <1>5, <3>8, <4>1 DEF Flying
      <4>3. QED
        BY <1>1, <4>1, <4>2
    <3>10. v.xim.ic \in a.created
      BY <1>1, <1>5 DEF Flying
    <3>11. /\ \A i, j \in 1..Len(v.toApp) : CommitAt(v, i) /\ CommitAt(v, j) => i = j
           /\ \A i, j \in 1..Len(v.toApp) : CommitAt(v, i) /\ SyncAt(v, j) => i < j
           /\ \A i \in 1..Len(v.toApp) : CommitAt(v, i) => Left(v, q) + 1 = Asked(v)
      BY <3>4
    <3>12. /\ \A i, j \in 1..Len(x) : AnswerAt(v, x, i) /\ AnswerAt(v, x, j) => i = j
           /\ \A i \in 1..Len(x), j \in 1..Len(v.toApp) : AnswerAt(v, x, i) => ~CommitAt(v, j) /\ ~SyncAt(v, j)
           /\ \A i \in 1..Len(x) : AnswerAt(v, x, i) => Left(v, q) = Asked(v)
      BY <3>5
    <3>13. \A i, j \in 1..Len(v.toApp) : SyncAt(v, i) /\ SyncAt(v, j) => i = j
      BY <3>6
    <3>14. v.xim.ic \in a.alive => Left(v, q) = Asked(v)
      BY <1>1, <3>7
    <3>9. QED
      BY <3>8, <3>10, <3>11, <3>12, <3>13, <3>14, Zenon DEF Flying
  <2>5. QED
    BY <2>3, <2>4
<1>6. QED
  BY <1>4, <1>5

\* The document has it, if the context was there.
LEMMA CommitReadKeeps ==
  ASSUME NEW w, Loop(w), NEW v, Reads(w, v), w.toApp[1].what = "commit", NEW x, NEW a, a.state = "idle", NEW b,
         NEW p, p \in [Stamps -> Nat], NEW q, Counts(w, a, p, q), NEW d \in Seq(Stamps), Outer(w, x, a, b, p, d),
         NEW e, IF w.toApp[1].ic \in a.alive THEN Inserts(d, w.toApp[1].s, e) ELSE e = d
  PROVE  Outer(v, x, a, b, q, e) /\ (e = d \/ Inserting(v, d, w.toApp[1].s, e))
<1> USE XpraAssumption
<1>1. /\ Written(w, d) /\ Counted(w, d, p) /\ Holding(w, a, d) /\ Told(w, a, b, p)
      /\ Contexts(w, x, a) /\ Fragmented(w, x, a) /\ Flying(w, x, a, p)
  BY DEF Outer
<1>2. Written(v, d) /\ w.toApp[1].s \in Stamps /\ Went(v, w.toApp[1].s) /\ Between(v, d, w.toApp[1].s)
  BY <1>1, ReadsNext
<1>3. Counted(v, d, p) /\ Told(v, a, b, p) /\ Contexts(v, x, a) /\ Fragmented(v, x, a)
  BY <1>1, ReadsOther
<1>4. Flying(v, x, a, q)
  BY <1>1, CommitFlying
<1>5. Holding(v, a, e)
  BY <1>1 DEF Holding, Reads
<1>6. /\ v.req = w.req /\ v.order = w.order /\ v.toolkit = w.toolkit /\ 1 \in 1..Len(w.toApp) /\ w \in Loops
      /\ Adapted(w) /\ Firm(w)
  BY DEF Reads, Behead, Loop, Core
<1>7. Aimed(w, x, a, w.toApp[1])
  BY <1>1, <1>6 DEF Fragmented, Frag
<1>8. w.req[w.toApp[1].s].status # "confirmed"
  <2>1. w.toApp[1].s = w.order.pending => w.req[w.toApp[1].s].status = "issued"
    BY <1>2, <1>6 DEF Firm
  <2>2. QED
    BY <1>7, <2>1 DEF Aimed
<1>9. w.toolkit.text.op # 0 => w.toolkit.text.op # w.toApp[1].s
  BY <1>6, <1>7 DEF Aimed, Adapted
<1>10. CASE w.toApp[1].ic \in a.alive
  <2>1. Inserting(v, d, w.toApp[1].s, e)
    BY <1>2, <1>10, InsertsInto
  <2>2. Counted(v, e, q)
    <3> SUFFICES ASSUME NEW t \in Stamps
                 PROVE  /\ q[t] # 0 => \E i \in 1..Len(e) : e[i] = t
                        /\ v.req[t].kind = "text" /\ v.req[t].status = "confirmed" => q[t] = v.req[t].size
      BY DEF Counted
    <3>1. CASE t = w.toApp[1].s
      BY <1>6, <1>8, <2>1, <3>1 DEF Inserting
    <3>2. CASE t # w.toApp[1].s
      <4>1. q[t] = p[t]
        BY <3>2 DEF Counts
      <4>2. Counted(v, e, p)
        BY <1>3, <2>1, LongerCounted DEF Inserting
      <4>3. QED
        BY <4>1, <4>2 DEF Counted
    <3>3. QED
      BY <3>1, <3>2
  <2>3. \A n : Full(v, p, n) => Full(v, q, n)
    <3>1. w.toolkit.text.op # 0 => q[w.toolkit.text.op] = p[w.toolkit.text.op]
      BY <1>6, <1>9, LoopFields DEF Counts
    <3>2. QED
      BY <1>6, <3>1 DEF Full
  <2>4. Told(v, a, b, q)
    BY <1>3, <2>3 DEF Told
  <2>5. QED
    BY <1>3, <1>4, <1>5, <2>1, <2>2, <2>4 DEF Outer, Inserting
<1>11. CASE w.toApp[1].ic \notin a.alive
  <2>1. q = p /\ e = d
    BY <1>11 DEF Counts
  <2>2. QED
    BY <1>2, <1>3, <1>4, <1>5, <2>1 DEF Outer
<1>12. QED
  BY <1>10, <1>11

\* The answer to a sync of a context that is there
Replies(w, a, x, y) ==
  \/ w.toApp[1].ic \in a.alive /\ \E m \in Sayings : m.what = "sync" /\ m.ic = w.toApp[1].ic /\ Behind(x, m, y)
  \/ w.toApp[1].ic \notin a.alive /\ y = x

\* What follows a message of a context that is there
LEMMA SaidMore ==
  ASSUME NEW w, NEW x, NEW m, NEW y, Behind(x, m, y), NEW a, m.ic \in a.alive, m.what # "destroy", Contexts(w, x, a)
  PROVE  Contexts(w, y, a)
<1>1. /\ Len(x) \in Nat /\ Len(y) = Len(x) + 1 /\ y[Len(y)] = m /\ \A i \in 1..Len(x) : i \in 1..Len(y) /\ y[i] = x[i]
      /\ \A i \in 1..Len(y) : i \in 1..Len(x) \/ i = Len(y)
  BY DEF Behind
<1>2. \A c : Ending(x, a, c) => Ending(y, a, c)
  BY <1>1 DEF Ending
<1>3. a.alive \subseteq a.created /\ w.xim.supported \subseteq a.created /\ \A c \in w.xim.supported : Ending(y, a, c)
  BY <1>2 DEF Contexts
<1>4. \A i \in 1..Len(y) : y[i].ic \in a.created /\ Ending(y, a, y[i].ic)
  BY <1>1, <1>2, <1>3 DEF Contexts, Ending
<1>5. ASSUME NEW i \in 1..Len(y), y[i].what = "destroy"
      PROVE  y[i].ic \notin a.alive /\ \A j \in 1..Len(y) : i < j => y[j].ic # y[i].ic
  <2>1. i \in 1..Len(x) /\ y[i] = x[i]
    BY <1>1, <1>5
  <2>2. y[i].ic \notin a.alive
    BY <1>5, <2>1 DEF Contexts
  <2>3. \A j \in 1..Len(y) : i < j => y[j].ic # y[i].ic
    BY <1>1, <1>5, <2>1, <2>2 DEF Contexts
  <2>4. QED
    BY <2>2, <2>3
<1>6. QED
  BY <1>3, <1>4, <1>5 DEF Contexts

\* A sync is read, and answered.
LEMMA SyncReadKeeps ==
  ASSUME NEW w, Loop(w), NEW v, Reads(w, v), w.toApp[1].what = "sync", NEW x \in Seq(Sayings), NEW a, a.state = "idle",
         NEW y, Replies(w, a, x, y), NEW b, NEW p, NEW d \in Seq(Stamps), Outer(w, x, a, b, p, d)
  PROVE  Outer(v, y, a, b, p, d)
<1>1. /\ Written(w, d) /\ Counted(w, d, p) /\ Holding(w, a, d) /\ Told(w, a, b, p)
      /\ Contexts(w, x, a) /\ Fragmented(w, x, a) /\ Flying(w, x, a, p)
  BY DEF Outer
<1>2. Written(v, d)
  BY <1>1, ReadsNext
<1>3. Counted(v, d, p) /\ Told(v, a, b, p) /\ Contexts(v, x, a) /\ Fragmented(v, x, a)
  BY <1>1, ReadsOther
<1>4. Flying(v, x, a, p)
  BY <1>1, ReadsFlying DEF CommitAt
<1>5. Holding(v, a, d)
  BY <1>1 DEF Holding, Reads
<1>6. CASE y = x
  BY <1>2, <1>3, <1>4, <1>5, <1>6 DEF Outer
<1>7. ASSUME w.toApp[1].ic \in a.alive, NEW m \in Sayings, m.what = "sync", m.ic = w.toApp[1].ic, Behind(x, m, y)
      PROVE  Outer(v, y, a, b, p, d)
  <2>1. /\ Len(x) \in Nat /\ Len(y) = Len(x) + 1 /\ y[Len(y)] = m /\ Len(y) \in 1..Len(y)
        /\ \A i \in 1..Len(x) : i \in 1..Len(y) /\ y[i] = x[i]
        /\ \A i \in 1..Len(y) : i \in 1..Len(x) \/ i = Len(y)
    BY <1>7 DEF Behind
  <2>2. Contexts(v, y, a)
    BY <1>3, <1>7, SaidMore
  <2>3. \A c : Spent(v, x, a, c) => Spent(v, y, a, c)
    BY <1>7, <2>1 DEF Spent, Gone
  <2>4. /\ Behead(w.toApp, v.toApp) /\ v.xim = w.xim /\ v.req = w.req /\ v.order = w.order /\ v.toolkit = w.toolkit
        /\ 1 \in 1..Len(w.toApp)
    BY DEF Reads, Behead
  <2>5. Spent(v, y, a, m.ic)
    <3>1. Spent(w, x, a, m.ic)
      BY <1>1, <1>7, <2>4 DEF Fragmented, Aimed, Frag
    <3>2. QED
      BY <2>3, <2>4, <3>1 DEF Spent, Gone
  <2>6. Fragmented(v, y, a)
    <3>1. \A e : Aimed(v, x, a, e) => Aimed(v, y, a, e)
      BY <2>3 DEF Aimed
    <3>2. \A i \in 1..Len(y) : y[i].what = "sync" => Spent(v, y, a, y[i].ic)
      BY <1>3, <2>1, <2>3, <2>5 DEF Fragmented
    <3>3. QED
      BY <1>3, <3>1, <3>2 DEF Fragmented
  <2>7. Flying(v, y, a, p)
    <3>1. CASE v.xim.ic = None
      BY <3>1 DEF Flying
    <3>2. CASE v.xim.ic # None /\ m.ic # v.xim.ic
      <4>1. \A i \in 1..Len(y) : AnswerAt(v, y, i) => i \in 1..Len(x) /\ AnswerAt(v, x, i)
        BY <2>1, <3>2 DEF AnswerAt
      <4>2. QED
        BY <1>4, <3>2, <4>1 DEF Flying
    <3>3. CASE v.xim.ic # None /\ m.ic = v.xim.ic
      <4>1. SyncAt(w, 1) /\ w.xim.ic # None
        BY <1>7, <2>4, <3>3 DEF SyncAt
      <4>2. \A i \in 1..Len(x) : ~AnswerAt(w, x, i)
        BY <1>1, <2>4, <4>1 DEF Flying
      <4>3. ASSUME NEW i \in 1..Len(w.toApp) PROVE ~CommitAt(w, i)
        <5>1. CommitAt(w, i) => i < 1
          BY <1>1, <2>4, <4>1 DEF Flying
        <5>2. QED
          BY <5>1
      <4>4. Left(w, p) = Asked(w)
        BY <1>1, <1>7, <2>4, <3>3, <4>1, <4>3 DEF Flying
      <4>5. ASSUME NEW i \in 1..Len(v.toApp) PROVE ~CommitAt(v, i) /\ ~SyncAt(v, i)
        <5>1. i + 1 \in 1..Len(w.toApp) /\ v.toApp[i] = w.toApp[i + 1] /\ i + 1 # 1
          BY <2>4 DEF Behead
        <5>2. ~CommitAt(w, i + 1)
          BY <4>3, <5>1
        <5>3. ~SyncAt(w, i + 1)
          BY <1>1, <2>4, <4>1, <5>1 DEF Flying
        <5>4. QED
          BY <2>4, <5>1, <5>2, <5>3 DEF CommitAt, SyncAt
      <4>6. \A i \in 1..Len(y) : AnswerAt(v, y, i) => i = Len(y)
        BY <2>1, <2>4, <4>2 DEF AnswerAt
      <4>7. Left(v, p) = Asked(v)
        BY <2>4, <4>4 DEF Left, Asked
      <4>8. \A i \in 1..Len(v.toApp) : Frag(v.toApp[i]) => ((v.toApp[i].ic = v.xim.ic) <=> (v.toApp[i].s = v.order.pending))
        BY <1>4, <3>3 DEF Flying
      <4>10. v.xim.ic \in a.created
        BY <1>4, <3>3 DEF Flying
      <4>9. QED
        BY <4>10, <4>5, <4>6, <4>7, <4>8 DEF Flying
    <3>4. QED
      BY <3>1, <3>2, <3>3
  <2>8. QED
    BY <1>2, <1>3, <1>5, <2>2, <2>6, <2>7 DEF Outer
<1>8. QED
  BY <1>6, <1>7 DEF Replies

\* The application puts the text that it holds into the editor.
Puts(w, a, p, c, q) ==
  /\ c = [a EXCEPT !.state = "idle", !.dones = @ \cup {a.number}]
  /\ q = [p EXCEPT ![a.text] = w.req[a.text].size]

\* The editor that has the text puts it into the document, whole.
LEMMA PutsKeeps ==
  ASSUME NEW w, Loop(w), NEW x, NEW a \in Apps, a.state = "got", NEW b, NEW p, p \in [Stamps -> Nat], NEW c, NEW q,
         Puts(w, a, p, c, q), NEW d \in Seq(Stamps), Outer(w, x, a, b, p, d), NEW e, Inserts(d, a.text, e)
  PROVE  c \in Apps /\ q \in [Stamps -> Nat] /\ Outer(w, x, c, b, q, e) /\ Inserting(w, d, a.text, e)
<1> USE XpraAssumption
<1>1. /\ Written(w, d) /\ Counted(w, d, p) /\ Holding(w, a, d) /\ Told(w, a, b, p)
      /\ Contexts(w, x, a) /\ Fragmented(w, x, a) /\ Flying(w, x, a, p)
  BY DEF Outer
<1>2. /\ a.text \in Stamps /\ Went(w, a.text) /\ Between(w, d, a.text)
      /\ w.req[a.text].status = "issued" => w.toolkit.text.op = a.text
      /\ w.toolkit.text.op # 0 /\ a.number = w.toolkit.text.number => w.toolkit.text.op = a.text
      /\ a.number <= w.toolkit.last
  BY <1>1 DEF Holding
<1>3. Inserting(w, d, a.text, e)
  BY <1>1, <1>2, InsertsInto
<1>4. w \in Loops /\ Firm(w) /\ Adapted(w)
  BY DEF Loop, Core
<1>5. w.req[a.text].size \in Nat
  <2>1. w.req[a.text].size \in 1..MaxFragments
    BY <1>2, <1>4, RequestFields
  <2>2. QED
    BY <2>1
<1>6. /\ c \in Apps /\ c.state = "idle" /\ c.number = a.number /\ c.dones = a.dones \cup {a.number}
      /\ c.alive = a.alive /\ c.created = a.created
  <2>1. a.number \in 0..MaxMarker /\ a.dones \in SUBSET (0..MaxMarker)
    BY DEF Apps
  <2>2. c = [a EXCEPT !.state = "idle", !.dones = a.dones \cup {a.number}]
    BY DEF Puts
  <2>3. QED
    BY <2>1, <2>2 DEF Apps
<1>7. /\ q \in [Stamps -> Nat] /\ q[a.text] = w.req[a.text].size /\ \A t \in Stamps : t # a.text => q[t] = p[t]
  BY <1>2, <1>5 DEF Puts
<1>8. Counted(w, e, q)
  <2> SUFFICES ASSUME NEW t \in Stamps
               PROVE  /\ q[t] # 0 => \E i \in 1..Len(e) : e[i] = t
                      /\ w.req[t].kind = "text" /\ w.req[t].status = "confirmed" => q[t] = w.req[t].size
    BY DEF Counted
  <2>1. CASE t = a.text
    BY <1>3, <1>7, <2>1 DEF Inserting
  <2>2. CASE t # a.text
    <3>1. q[t] = p[t]
      BY <1>7, <2>2
    <3>2. Counted(w, e, p)
      BY <1>1, <1>3, LongerCounted DEF Inserting
    <3>3. QED
      BY <3>1, <3>2 DEF Counted
  <2>3. QED
    BY <2>1, <2>2
<1>9. Holding(w, c, e)
  BY <1>2, <1>6 DEF Holding
<1>10. ASSUME NEW n, Full(w, p, n) PROVE Full(w, q, n)
  <2>1. w.toolkit.text.op # 0 /\ n = w.toolkit.text.number => q[w.toolkit.text.op] = w.req[w.toolkit.text.op].size
    <3> SUFFICES ASSUME w.toolkit.text.op # 0, n = w.toolkit.text.number
                 PROVE  q[w.toolkit.text.op] = w.req[w.toolkit.text.op].size
      OBVIOUS
    <3>1. w.toolkit.text.op \in Stamps /\ p[w.toolkit.text.op] = w.req[w.toolkit.text.op].size
      BY <1>4, <1>10, LoopFields DEF Full
    <3>2. QED
      BY <1>7, <3>1
  <2>2. QED
    BY <1>10, <2>1 DEF Full
<1>11. Full(w, q, a.number)
  BY <1>2, <1>7 DEF Full
<1>12. Told(w, c, b, q)
  BY <1>1, <1>6, <1>10, <1>11 DEF Told
<1>13. Contexts(w, x, c) /\ Fragmented(w, x, c) /\ Flying(w, x, c, p)
  BY <1>1, <1>6 DEF Contexts, Ending, Fragmented, Aimed, Spent, Gone, Flying
<1>14. Flying(w, x, c, q)
  <2>1. CASE w.xim.ic = None
    BY <2>1 DEF Flying
  <2>2. CASE w.xim.ic # None
    <3>1. w.order.pending # 0 /\ w.toolkit.text.op = 0
      BY <1>4, <2>2 DEF Adapted
    <3>2. w.order.pending \in Stamps /\ w.req[w.order.pending].status = "issued"
      BY <1>4, <3>1, LoopFields DEF Firm
    <3>3. a.text # 0
      BY <1>2
    <3>4. w.order.pending # a.text
      BY <1>2, <3>1, <3>2, <3>3
    <3>5. QED
      BY <1>7, <1>13, <3>2, <3>4, FlyingAlike
  <2>3. QED
    BY <2>1, <2>2
<1>15. QED
  BY <1>3, <1>6, <1>7, <1>8, <1>9, <1>12, <1>13, <1>14 DEF Outer, Inserting

\* The application is told of the text, or gives up; a call of its module is on the way.
Quits(w, a, c, d) ==
  /\ c.dones \subseteq a.dones /\ c.alive = a.alive /\ c.created = a.created /\ c.number = a.number
  /\ \/ c.state = "idle"
     \/ c.state = a.state /\ c.text = a.text
     \/ c.state = "got" /\ w.toolkit.text.op # 0 /\ c.text = w.toolkit.text.op /\ c.number = w.toolkit.text.number
        /\ a.state = "asking"

\* A module that stops waiting, answers or ends holds no more than before.
LEMMA QuitsKeeps ==
  ASSUME NEW w, Loop(w), NEW x, NEW a, NEW b, NEW p, NEW d, Outer(w, x, a, b, p, d), NEW c, Quits(w, a, c, d),
         NEW r, \A i \in 1..Len(r) : r[i].call = "done" =>
                   (\E j \in 1..Len(b) : b[j] = r[i]) \/ r[i].n \in a.dones
  PROVE  Outer(w, x, c, r, p, d)
<1>1. /\ Written(w, d) /\ Counted(w, d, p) /\ Holding(w, a, d) /\ Told(w, a, b, p)
      /\ Contexts(w, x, a) /\ Fragmented(w, x, a) /\ Flying(w, x, a, p)
  BY DEF Outer
<1>2. /\ c.dones \subseteq a.dones /\ c.alive = a.alive /\ c.created = a.created /\ c.number = a.number
  BY DEF Quits
<1>3. Holding(w, c, d)
  <2>1. CASE c.state = "idle"
    BY <1>1, <1>2, <2>1 DEF Holding
  <2>2. CASE c.state = a.state /\ c.text = a.text
    BY <1>1, <1>2, <2>2 DEF Holding
  <2>3. CASE c.state = "got" /\ w.toolkit.text.op # 0 /\ c.text = w.toolkit.text.op /\ c.number = w.toolkit.text.number
             /\ a.state = "asking"
    <3>1. Between(w, d, c.text)
      BY <1>1, <1>2, <2>3 DEF Holding
    <3>2. w.toolkit.text.op = w.order.pending /\ w.order.pending \in Stamps
      BY <2>3, LoopFields DEF Loop, Core, Adapted
    <3>3. Went(w, c.text)
      BY <2>3, <3>2 DEF Loop, Firm, Went
    <3>4. QED
      BY <1>1, <1>2, <2>3, <3>1, <3>2, <3>3 DEF Holding
  <2>4. QED
    BY <2>1, <2>2, <2>3 DEF Quits
<1>4. Told(w, c, r, p)
  BY <1>1, <1>2 DEF Told
<1>5. Contexts(w, x, c) /\ Fragmented(w, x, c) /\ Flying(w, x, c, p)
  BY <1>1, <1>2 DEF Contexts, Ending, Fragmented, Aimed, Spent, Gone, Flying
<1>6. QED
  BY <1>1, <1>3, <1>4, <1>5 DEF Outer

\* The application creates a context, says that the focus changed, or destroys a context.
Creates(a, c, m) ==
  /\ m.what = "create" /\ m.ic \in ICs /\ m.ic \notin a.created
  /\ c = [a EXCEPT !.created = @ \cup {m.ic}, !.alive = @ \cup {m.ic}]
Destroys(a, c, m) ==
  /\ m.what = "destroy" /\ m.ic \in a.alive /\ c = [a EXCEPT !.alive = @ \ {m.ic}]
Notes(a, c, m) == m.what \in {"focus", "unfocus"} /\ m.ic \in a.alive /\ c = a

\* What flies, when no answer is said
LEMMA SaidFlying ==
  ASSUME NEW w, NEW x, NEW m, NEW y, Behind(x, m, y), m.what # "sync", NEW a, NEW c, a.created \subseteq c.created,
         w.xim.ic \in a.created /\ w.xim.ic \in c.alive => w.xim.ic \in a.alive, NEW p, Flying(w, x, a, p)
  PROVE  Flying(w, y, c, p)
<1>1. CASE w.xim.ic = None
  BY <1>1 DEF Flying
<1>2. CASE w.xim.ic # None
  <2>1. \A i \in 1..Len(y) : AnswerAt(w, y, i) => i \in 1..Len(x) /\ AnswerAt(w, x, i)
    BY DEF AnswerAt, Behind
  <2>2. w.xim.ic \in c.created /\ (w.xim.ic \in c.alive => w.xim.ic \in a.alive)
    BY <1>2 DEF Flying
  <2>3. QED
    BY <1>2, <2>1, <2>2 DEF Flying
<1>3. QED
  BY <1>1, <1>2

\* The rest is of no concern to the contexts.
LEMMA ContextsKeep ==
  ASSUME NEW w, NEW x, NEW y, NEW a, NEW c, NEW b, NEW p, NEW d, Outer(w, x, a, b, p, d),
         c.state = a.state, c.text = a.text, c.number = a.number, c.dones = a.dones,
         Contexts(w, y, c), Fragmented(w, y, c), Flying(w, y, c, p)
  PROVE  Outer(w, y, c, b, p, d)
<1>1. Holding(w, c, d)
  BY DEF Outer, Holding
<1>2. Told(w, c, b, p)
  BY DEF Outer, Told
<1>3. QED
  BY <1>1, <1>2 DEF Outer

\* A focus that moves says nothing of fragments.
LEMMA NotesKeeps ==
  ASSUME NEW w, NEW x, NEW m, NEW y, Behind(x, m, y), NEW a, NEW c, Notes(a, c, m), NEW b, NEW p, NEW d,
         Outer(w, x, a, b, p, d)
  PROVE  Outer(w, y, c, b, p, d)
<1>1. c = a /\ m.ic \in a.alive /\ m.what # "destroy" /\ m.what # "sync" /\ m.what # "create"
  BY DEF Notes
<1>2. Contexts(w, x, a) /\ Fragmented(w, x, a) /\ Flying(w, x, a, p)
  BY DEF Outer
<1>3. Contexts(w, y, a)
  BY <1>1, <1>2, SaidMore
<1>4. Flying(w, y, a, p)
  BY <1>1, <1>2, SaidFlying
<1>5. \A e : Spent(w, x, a, e) => Spent(w, y, a, e)
  BY <1>1 DEF Spent, Gone, Behind
<1>6. Fragmented(w, y, a)
  <2>1. \A e : Aimed(w, x, a, e) => Aimed(w, y, a, e)
    BY <1>5 DEF Aimed
  <2>2. \A i \in 1..Len(y) : y[i].what = "sync" => i \in 1..Len(x) /\ y[i] = x[i]
    BY <1>1 DEF Behind
  <2>3. QED
    BY <1>2, <1>5, <2>1, <2>2 DEF Fragmented
<1>7. QED
  BY <1>1, <1>3, <1>4, <1>6, ContextsKeep

\* A context that is created is new.
LEMMA CreatesKeeps ==
  ASSUME NEW w, NEW x, NEW m, NEW y, Behind(x, m, y), NEW a \in Apps, NEW c, Creates(a, c, m), NEW b, NEW p, NEW d,
         Outer(w, x, a, b, p, d)
  PROVE  c \in Apps /\ Outer(w, y, c, b, p, d)
<1>1. /\ m.what = "create" /\ m.ic \notin a.created
      /\ c \in Apps /\ c.created = a.created \cup {m.ic} /\ c.alive = a.alive \cup {m.ic}
      /\ c.state = a.state /\ c.text = a.text /\ c.number = a.number /\ c.dones = a.dones
  BY DEF Creates, Apps
<1>2. Contexts(w, x, a) /\ Fragmented(w, x, a) /\ Flying(w, x, a, p)
  BY DEF Outer
<1>3. /\ Len(x) \in Nat /\ Len(y) = Len(x) + 1 /\ y[Len(y)] = m /\ \A i \in 1..Len(x) : i \in 1..Len(y) /\ y[i] = x[i]
      /\ \A i \in 1..Len(y) : i \in 1..Len(x) \/ i = Len(y)
  BY DEF Behind
<1>4. \A e : Ending(x, a, e) => Ending(y, c, e)
  BY <1>1, <1>3 DEF Ending
<1>5. /\ c.alive \subseteq c.created /\ w.xim.supported \subseteq c.created /\ \A e \in w.xim.supported : Ending(y, c, e)
  BY <1>1, <1>2, <1>4 DEF Contexts
<1>6. \A i \in 1..Len(y) : y[i].ic \in c.created /\ Ending(y, c, y[i].ic)
  BY <1>1, <1>2, <1>3, <1>4 DEF Contexts, Ending
<1>7. ASSUME NEW i \in 1..Len(y), y[i].what = "destroy"
      PROVE  y[i].ic \notin c.alive /\ \A j \in 1..Len(y) : i < j => y[j].ic # y[i].ic
  <2>1. i \in 1..Len(x) /\ y[i] = x[i] /\ x[i].ic \in a.created
    BY <1>1, <1>2, <1>3, <1>7 DEF Contexts
  <2>2. y[i].ic \notin c.alive /\ y[i].ic # m.ic
    BY <1>1, <1>2, <1>7, <2>1 DEF Contexts
  <2>3. \A j \in 1..Len(y) : i < j => y[j].ic # y[i].ic
    BY <1>2, <1>3, <1>7, <2>1, <2>2 DEF Contexts
  <2>4. QED
    BY <2>2, <2>3
<1>8. Contexts(w, y, c)
  BY <1>5, <1>6, <1>7 DEF Contexts
<1>9. ASSUME NEW e, Spent(w, x, a, e) PROVE Spent(w, y, c, e)
  <2>1. ASSUME Gone(w, x, a, e) PROVE Gone(w, y, c, e)
    <3>1. e # m.ic
      BY <1>1, <2>1 DEF Gone
    <3>2. QED
      BY <1>1, <1>3, <2>1, <3>1 DEF Gone
  <2>2. QED
    BY <1>9, <2>1 DEF Spent
<1>10. Fragmented(w, y, c)
  <2>1. \A e : Aimed(w, x, a, e) => Aimed(w, y, c, e)
    BY <1>9 DEF Aimed
  <2>2. \A i \in 1..Len(y) : y[i].what = "sync" => i \in 1..Len(x) /\ y[i] = x[i]
    BY <1>1, <1>3
  <2>3. QED
    BY <1>2, <1>9, <2>1, <2>2 DEF Fragmented
<1>11. Flying(w, y, c, p)
  BY <1>1, <1>2, SaidFlying
<1>12. QED
  BY <1>1, <1>8, <1>10, <1>11, ContextsKeep

\* A context that is destroyed answers nothing any more.
LEMMA DestroysKeeps ==
  ASSUME NEW w, NEW x, NEW m, NEW y, Behind(x, m, y), NEW a \in Apps, NEW c, Destroys(a, c, m), NEW b, NEW p, NEW d,
         Outer(w, x, a, b, p, d)
  PROVE  c \in Apps /\ Outer(w, y, c, b, p, d)
<1>1. /\ m.what = "destroy" /\ m.ic \in a.alive
      /\ c \in Apps /\ c.created = a.created /\ c.alive = a.alive \ {m.ic}
      /\ c.state = a.state /\ c.text = a.text /\ c.number = a.number /\ c.dones = a.dones
  BY DEF Destroys, Apps
<1>2. Contexts(w, x, a) /\ Fragmented(w, x, a) /\ Flying(w, x, a, p)
  BY DEF Outer
<1>3. /\ Len(x) \in Nat /\ Len(y) = Len(x) + 1 /\ y[Len(y)] = m /\ Len(y) \in 1..Len(y)
      /\ \A i \in 1..Len(x) : i \in 1..Len(y) /\ y[i] = x[i]
      /\ \A i \in 1..Len(y) : i \in 1..Len(x) \/ i = Len(y)
  BY DEF Behind
<1>4. \A e : Ending(x, a, e) => Ending(y, c, e)
  BY <1>1, <1>3 DEF Ending
<1>5. /\ c.alive \subseteq c.created /\ w.xim.supported \subseteq c.created /\ \A e \in w.xim.supported : Ending(y, c, e)
  BY <1>1, <1>2, <1>4 DEF Contexts
<1>6. \A i \in 1..Len(y) : y[i].ic \in c.created /\ Ending(y, c, y[i].ic)
  <2>1. m.ic \in c.created /\ Ending(y, c, m.ic)
    BY <1>1, <1>2, <1>3 DEF Contexts, Ending
  <2>2. QED
    BY <1>1, <1>2, <1>3, <1>4, <2>1 DEF Contexts
<1>7. ASSUME NEW i \in 1..Len(y), y[i].what = "destroy"
      PROVE  y[i].ic \notin c.alive /\ \A j \in 1..Len(y) : i < j => y[j].ic # y[i].ic
  <2>1. CASE i = Len(y)
    BY <1>1, <1>3, <2>1
  <2>2. CASE i \in 1..Len(x)
    <3>1. y[i] = x[i] /\ y[i].ic \notin a.alive
      BY <1>2, <1>3, <1>7, <2>2 DEF Contexts
    <3>2. y[i].ic \notin c.alive /\ y[i].ic # m.ic
      BY <1>1, <3>1
    <3>3. \A j \in 1..Len(y) : i < j => y[j].ic # y[i].ic
      BY <1>2, <1>3, <1>7, <2>2, <3>1, <3>2 DEF Contexts
    <3>4. QED
      BY <3>2, <3>3
  <2>3. QED
    BY <1>3, <2>1, <2>2
<1>8. Contexts(w, y, c)
  BY <1>5, <1>6, <1>7 DEF Contexts
<1>9. ASSUME NEW e, Spent(w, x, a, e) PROVE Spent(w, y, c, e)
  <2>1. ASSUME Gone(w, x, a, e) PROVE Gone(w, y, c, e)
    BY <1>1, <1>3, <2>1 DEF Gone
  <2>2. QED
    BY <1>9, <2>1 DEF Spent
<1>10. Fragmented(w, y, c)
  <2>1. \A e : Aimed(w, x, a, e) => Aimed(w, y, c, e)
    BY <1>9 DEF Aimed
  <2>2. \A i \in 1..Len(y) : y[i].what = "sync" => i \in 1..Len(x) /\ y[i] = x[i]
    BY <1>1, <1>3
  <2>3. QED
    BY <1>2, <1>9, <2>1, <2>2 DEF Fragmented
<1>11. Flying(w, y, c, p)
  BY <1>1, <1>2, SaidFlying
<1>12. QED
  BY <1>1, <1>8, <1>10, <1>11, ContextsKeep

(* The actions *)
\* The world of a state, and what its messages are
Here(w) ==
  /\ Loop(w) /\ Outer(w, toXim, app, toBus, parts, xdoc)
  /\ w.viewers = viewers /\ w.order = order /\ w.toolkit = toolkit /\ w.xim = xim /\ w.toApp = toApp /\ w.req = xreq
  /\ app \in Apps /\ toBus \in Seq(BusCalls) /\ toXim \in Seq(Sayings)
  /\ parts \in [Stamps -> Nat] /\ xdoc \in Seq(Stamps)
State(w) == w = Xpra!Whole /\ Here(w)

\* What a step does to the requests: some end together, the text is confirmed that
\* the document has, one is issued, one is asked for, or the application acts on one.
Falls(w, x) == \A s \in Stamps :
  /\ SameAsked(w, x, s)
  /\ \/ x.req[s].status = w.req[s].status
     \/ w.req[s].status = "queued" /\ x.req[s].status = "refused"
     \/ w.req[s].status = "issued" /\ x.req[s].status = "failed"
Arrived(w, p) == p[w.order.pending] = w.req[w.order.pending].size
Serves(w, x, p) == Falls(w, x) \/ (Done(w, x) /\ Arrived(w, p)) \/ (\E f : Out(w, x, f)) \/ (\E f : Joins(w, x, f))
Acts(w, x, d, e) == Falls(w, x) /\ x.req = w.req /\ (e = d \/ \E s \in Stamps : Inserting(x, d, s, e))
Outcome(w, x, p, d, e) == (e = d /\ Serves(w, x, p)) \/ Acts(w, x, d, e)

\* The step leads to the world x.
Follows(w, x) ==
  /\ Xpra!Whole' = x /\ Loop(x) /\ Typed' /\ Outer(x, toXim', app', toBus', parts', xdoc')
  /\ Outcome(w, x, parts, xdoc, xdoc')

\* The invariant is about the world of the state.
LEMMA StateWorld == ASSUME XpraInv PROVE State(Xpra!Whole)
<1>1. PICK w : w = Xpra!Whole
  OBVIOUS
<1>2. Loop(w) /\ Typed /\ Outer(w, toXim, app, toBus, parts, xdoc)
  BY <1>1 DEF XpraInv
<1>3. w.viewers = viewers /\ w.order = order /\ w.toolkit = toolkit /\ w.xim = xim /\ w.toApp = toApp /\ w.req = xreq
  BY <1>1 DEF Xpra!Whole
<1>4. QED
  BY <1>1, <1>2, <1>3 DEF State, Here, Typed

\* The world that the handlers make is that of the next state.
LEMMA WholeBecomes == ASSUME NEW w \in Loops, Xpra!Becomes(w) PROVE Xpra!Whole' = w
  BY DEF Xpra!Becomes, Xpra!Whole, Loops

\* A cut is one outcome.
LEMMA CutFalls == ASSUME NEW w, NEW x, Cut(w, x) PROVE Falls(w, x)
  BY DEF Cut, Falls

\* The application leaves what it did not hear: its module's calls get fewer.
Fewer(r) == r \in Seq(BusCalls) /\ \A i \in 1..Len(r) : \E j \in 1..Len(toBus) : r[i] = toBus[j]

\* A handler gives requests up, and a call of the module is answered.
LEMMA CutHears ==
  ASSUME NEW w, State(w), NEW x, Yields(w, x), Xpra!Becomes(x), UNCHANGED <<toXim, parts, xdoc>>,
         app' \in Apps, Quits(x, app, app', xdoc), Fewer(toBus')
  PROVE  Follows(w, x)
<1>1. Loop(w) /\ Loop(x) /\ Cut(w, x) /\ Outer(w, toXim, app, toBus, parts, xdoc) /\ Steady(w)
  BY LoopSteady DEF State, Here, Yields
<1>2. Outer(x, toXim, app, toBus, parts, xdoc)
  BY <1>1, CutKeeps DEF State, Here
<1>3. Outer(x, toXim, app', toBus', parts, xdoc)
  BY <1>1, <1>2, QuitsKeeps DEF Fewer
<1>4. x \in Loops
  BY <1>1 DEF Loop, Core
<1>5. Xpra!Whole' = x
  BY <1>4, WholeBecomes
<1>6. Outcome(w, x, parts, xdoc, xdoc')
  BY <1>1, CutFalls DEF Outcome, Serves
<1>7. Typed'
  BY DEF Typed, State, Here, Fewer
<1>8. QED
  BY <1>1, <1>3, <1>5, <1>6, <1>7 DEF Follows

\* Nothing is heard of the application.
LEMMA CutFollows ==
  ASSUME NEW w, State(w), NEW x, Yields(w, x), Xpra!Becomes(x), UNCHANGED <<toXim, toBus, app, parts, xdoc>>
  PROVE  Follows(w, x)
<1>1. app' \in Apps /\ Quits(x, app, app', xdoc)
  BY DEF State, Here, Quits
<1>2. Fewer(toBus')
  BY DEF State, Here, Fewer
<1>3. QED
  BY <1>1, <1>2, CutHears

(* Viewers *)
\* A handler of the loop
LEMMA HandledBecomes ==
  ASSUME NEW x, Xpra!Handled(x)
  PROVE  ~order.draining /\ Xpra!Becomes(x) /\ UNCHANGED <<toXim, toBus, app, parts, xdoc>>
  BY DEF Xpra!Handled, Xpra!AtRest, Xpra!unheard

\* What a viewer that is lost leaves behind
LEMMA LostFollows ==
  ASSUME NEW w, State(w), NEW v \in Viewers, NEW y,
         \/ y = [w EXCEPT !.viewers[v].failed = TRUE]
         \/ y = [w EXCEPT !.viewers[v].open = FALSE],
         NEW x, Xpra!Handled(x), x = Xpra!Invalidate(y, v) \/ x = y
  PROVE  Follows(w, x)
<1>1. Loop(w) /\ Core(w, 0) /\ Firm(w) /\ Draining(w)
  BY DEF State, Here, Loop
<1>2. /\ Core(y, 0) /\ ~Xpra!Available(y, v) /\ y.order = w.order /\ y.toolkit = w.toolkit /\ y.xim = w.xim
      /\ y.toApp = w.toApp /\ y.req = w.req
  BY <1>1, ViewerLost
<1>3. Firm(y) /\ Draining(y)
  BY <1>1, <1>2 DEF Firm, Draining
<1>4. ASSUME x = Xpra!Invalidate(y, v) PROVE Yields(w, x)
  <2>1. 0 \notin Stamps
    BY XpraAssumption
  <2>2. Silenced(y, x, v)
    BY <1>2, <1>3, <1>4, <2>1, Invalidated
  <2>3. Loop(x) /\ Cut(y, x)
    BY <2>2 DEF Silenced
  <2>4. Cut(w, x)
    BY <1>2, <2>3, CutAlike
  <2>5. QED
    BY <2>3, <2>4 DEF Yields
<1>5. ASSUME x = y PROVE Yields(w, x)
  <2>1. w.toolkit.last \in Nat
    BY <1>1, LoopFields DEF Core
  <2>2. x.toApp = w.toApp /\ x.req = w.req /\ x.order = w.order /\ x.toolkit = w.toolkit /\ x.xim = w.xim
    BY <1>2, <1>5
  <2>3. Cut(w, x)
    BY <2>1, <2>2 DEF Cut, SameAsked
  <2>4. QED
    BY <1>2, <1>3, <1>5, <2>3 DEF Yields, Loop
<1>6. Yields(w, x)
  BY <1>4, <1>5
<1>7. QED
  BY <1>6, HandledBecomes, CutFollows

\* The queue is full, a packet is malformed, or the connection is lost.
LEMMA OverflowFollows ==
  ASSUME NEW w, State(w), NEW v \in Viewers, Xpra!Overflow(v) \/ Xpra!Malformed(v) PROVE \E x : Follows(w, x)
<1>1. PICK y : y = [w EXCEPT !.viewers[v].open = FALSE]
  OBVIOUS
<1>2. PICK x : x = Xpra!Invalidate(y, v)
  OBVIOUS
<1>3. Xpra!Handled(x)
  BY <1>1, <1>2 DEF Xpra!Overflow, Xpra!Malformed, State
<1>4. QED
  BY <1>1, <1>2, <1>3, LostFollows

\* The connection is lost.
LEMMA HangUpFollows == ASSUME NEW w, State(w), NEW v \in Viewers, Xpra!HangUp(v) PROVE \E x : Follows(w, x)
<1>1. PICK y : y = [w EXCEPT !.viewers[v].open = FALSE]
  OBVIOUS
<1>2. Xpra!Handled(y)
  BY <1>1 DEF Xpra!HangUp, State
<1>3. QED
  BY <1>1, <1>2, LostFollows

\* The server cleans up after a viewer.
LEMMA CleanUpFollows == ASSUME NEW w, State(w), NEW v \in Viewers, Xpra!CleanUp(v) PROVE \E x : Follows(w, x)
<1>1. PICK x : x = Xpra!Invalidate(w, v)
  OBVIOUS
<1>2. Xpra!Handled(x)
  BY <1>1 DEF Xpra!CleanUp, State
<1>3. Core(w, 0) /\ Firm(w) /\ 0 \notin Stamps
  BY XpraAssumption DEF State, Here, Loop
<1>4. ~Xpra!Available(w, v)
  BY DEF Xpra!CleanUp, Xpra!Available, State, Here
<1>5. Silenced(w, x, v)
  BY <1>1, <1>3, <1>4, Invalidated
<1>6. Yields(w, x)
  BY <1>5 DEF Silenced, Yields
<1>7. QED
  BY <1>2, <1>6, HandledBecomes, CutFollows

\* A packet is rejected.
LEMMA UnsoundFollows == ASSUME NEW w, State(w), NEW v \in Viewers, Xpra!Unsound(v) PROVE \E x : Follows(w, x)
<1>1. PICK x : x = Xpra!Reject(w, v, 0)
  OBVIOUS
<1>2. Xpra!Handled(x)
  BY <1>1 DEF Xpra!Unsound, State
<1>3. Core(w, 0) /\ Firm(w) /\ 0 \notin Stamps
  BY XpraAssumption DEF State, Here, Loop
<1>4. Rejects(w, x, v)
  BY <1>1, <1>3, Rejected
<1>5. Yields(w, x)
  BY <1>4 DEF Rejects
<1>6. QED
  BY <1>2, <1>5, HandledBecomes, CutFollows

\* The deadline of the text that is pending
LEMMA ExpireFollows == ASSUME NEW w, State(w), Xpra!Expire PROVE \E x : Follows(w, x)
<1>1. PICK x : Fails(w, x)
  BY Zenon DEF Fails
<1>2. Xpra!Handled(x) /\ w.order.pending # 0
  BY <1>1 DEF Fails, Xpra!Expire, State, Here
<1>3. Core(w, 0) /\ Firm(w) /\ w \in Loops /\ Stamped(w, 0)
  BY DEF State, Here, Loop, Core
<1>4. w.order.pending \in Stamps
  BY <1>2, <1>3, LoopFields
<1>5. w.req[w.order.pending].status = "issued"
  BY <1>2, <1>3 DEF Firm
<1>6. w.order.pending \notin w.order.queue
  BY <1>3, <1>4, <1>5 DEF Stamped, Waits
<1>7. Undelivered(w, x)
  BY <1>1, <1>3, <1>4, <1>5, <1>6, NotCompleted DEF Owed
<1>8. QED
  BY <1>2, <1>7, HandledBecomes, CutFollows DEF Undelivered

\* The server ends.
LEMMA CloseFollows == ASSUME NEW w, State(w), Xpra!CloseServer PROVE \E x : Follows(w, x)
<1>1. PICK x : x = Xpra!AdaptersClosed(Xpra!GiveUp(Xpra!OrderClosed(w), OpenOnes(w)))
  OBVIOUS
<1>2. OpenOnes(w) = {s \in Stamps : xreq[s].status \in Xpra!Open}
  BY DEF OpenOnes, State, Here, Xpra!Open
<1>3. Xpra!Handled(x)
  BY <1>1, <1>2 DEF Xpra!CloseServer, State
<1>4. Loop(w) /\ ~w.order.draining
  BY <1>3, HandledBecomes DEF State, Here
<1>5. Yields(w, x)
  BY <1>1, <1>4, ServerClosed
<1>6. QED
  BY <1>3, <1>5, HandledBecomes, CutFollows

\* A handler that serves a request, and nothing is heard of the application
LEMMA ServesFollows ==
  ASSUME NEW w, State(w), NEW x, Loop(x), Outer(x, toXim, app, toBus, parts, xdoc), Serves(w, x, parts),
         Xpra!Becomes(x), UNCHANGED <<toXim, toBus, app, parts, xdoc>>
  PROVE  Follows(w, x)
<1>1. Xpra!Whole' = x
  BY WholeBecomes DEF Loop, Core
<1>2. Typed'
  BY DEF Typed, State, Here
<1>3. Outcome(w, x, parts, xdoc, xdoc')
  BY DEF Outcome
<1>4. QED
  BY <1>1, <1>2, <1>3 DEF Follows

\* The instance counts as this module does.
LEMMA SameCardinality == ASSUME NEW S PROVE Xpra!Cardinality(S) = Cardinality(S)
  BY Zenon DEF Xpra!Cardinality, Cardinality

\* A packet is queued.
LEMMA EnqueueFollows ==
  ASSUME NEW w, State(w), NEW v \in Viewers, NEW k \in {"text", "down"}, NEW n \in 1..MaxFragments, Xpra!Enqueue(v, k, n)
  PROVE  \E x : Follows(w, x)
<1>1. PICK f : f = Xpra!Min({s \in Stamps : w.req[s].status = "none"})
  OBVIOUS
<1>2. Xpra!Unasked = {s \in Stamps : w.req[s].status = "none"}
  BY DEF Xpra!Unasked, State, Here
<1>3. PICK x : x = Xpra!Drains([w EXCEPT
           !.req[f] = [Xpra!NoRequest EXCEPT !.owner = v, !.kind = k, !.size = n, !.status = "queued"],
           !.order.queue = @ \cup {f}])
  OBVIOUS
<1>4. Xpra!Handled(x)
  BY <1>1, <1>2, <1>3 DEF Xpra!Enqueue, Xpra!NewStamp, State
<1>11. Loop(w) /\ w.order = order
  BY DEF State, Here
<1>12. ~order.closed /\ Cardinality(order.queue) < MaxQueue /\ Xpra!Unasked # {}
  BY SameCardinality DEF Xpra!Enqueue
<1>5. Loop(w) /\ ~w.order.closed /\ Cardinality(w.order.queue) < MaxQueue /\ {s \in Stamps : w.req[s].status = "none"} # {}
  BY <1>2, <1>11, <1>12
<1>6. Joins(w, x, f)
  BY <1>1, <1>3, <1>5, Enqueued, Zenon
<1>7. Outer(w, toXim, app, toBus, parts, xdoc) /\ toXim \in Seq(Sayings) /\ app \in Apps /\ toBus \in Seq(BusCalls)
      /\ xdoc \in Seq(Stamps)
  BY DEF State, Here
<1>8. Outer(x, toXim, app, toBus, parts, xdoc)
  BY <1>5, <1>6, <1>7, JoinsKeeps
<1>9. Loop(x) /\ Serves(w, x, parts)
  BY <1>6 DEF Joins, Serves
<1>10. QED
  BY <1>4, <1>8, <1>9, HandledBecomes, ServesFollows

(* Draining the queue *)
\* The request in hand, of a viewer of the server
Handed(w, p, f) == Pops(w, p, f) /\ p = Xpra!Popped /\ f = Xpra!Following

\* While the queue is drained, its first is in hand.
LEMMA InHand == ASSUME NEW w, State(w), order.draining PROVE \E p, f : Handed(w, p, f)
<1>1. PICK f : f = Xpra!Following
  OBVIOUS
<1>2. f = Xpra!Min(w.order.queue)
  BY <1>1 DEF Xpra!Following, State, Here
<1>3. PICK p : p = [w EXCEPT !.order.queue = @ \ {f}]
  OBVIOUS
<1>4. p = Xpra!Popped
  BY <1>1, <1>3 DEF Xpra!Popped, State
<1>5. Loop(w) /\ w.order.draining
  BY DEF State, Here
<1>6. Pops(w, p, f)
  BY <1>2, <1>3, <1>5, Popping
<1>7. QED
  BY <1>1, <1>4, <1>6 DEF Handed

\* A turn of the drain leaves what the application has.
LEMMA TurnBecomes ==
  ASSUME NEW x, Xpra!Turn(x) PROVE Xpra!Becomes(x) /\ UNCHANGED <<toXim, toBus, app, parts, xdoc>>
  BY DEF Xpra!Turn, Xpra!unheard

\* What is popped of a world is given up of the world.
LEMMA PoppedCut ==
  ASSUME NEW w, NEW p, NEW f, Pops(w, p, f), NEW x, Loop(x), Cut(p, x) PROVE Yields(w, x)
<1>1. p.toApp = w.toApp /\ p.req = w.req /\ p.xim = w.xim /\ p.toolkit = w.toolkit /\ p.order.pending = w.order.pending
  BY DEF Pops
<1>2. Cut(w, x)
  BY <1>1, CutAlike
<1>3. QED
  BY <1>2 DEF Yields

\* What waits of a viewer that is not available is dropped.
LEMMA DroppedFollows == ASSUME NEW w, State(w), Xpra!DrainDropped PROVE \E x : Follows(w, x)
<1>1. PICK p, f : Handed(w, p, f)
  BY InHand DEF Xpra!DrainDropped
<1>2. PICK x : x = Xpra!Drains(Xpra!GiveUp(p, {f}))
  OBVIOUS
<1>3. Xpra!Turn(x)
  BY <1>1, <1>2 DEF Xpra!DrainDropped, Handed
<1>4. ~Xpra!Available(w, w.req[f].owner)
  BY <1>1 DEF Xpra!DrainDropped, Handed, State, Here
<1>5. Pops(w, p, f)
  BY <1>1 DEF Handed
<1>6. ~Xpra!Available(p, p.req[f].owner)
  BY <1>4, <1>5 DEF Pops, Xpra!Available
<1>7. Core(p, f) /\ Loose(p, f)
  BY <1>5, <1>6 DEF Pops, Loose
<1>8. Loop(x) /\ Cut(p, x)
  BY <1>2, <1>7, Dropped DEF Drops
<1>9. Yields(w, x)
  BY <1>5, <1>8, PoppedCut
<1>10. QED
  BY <1>3, <1>9, TurnBecomes, CutFollows

\* The request in hand is refused.
LEMMA RefusedFollows ==
  ASSUME NEW w, State(w), NEW p, NEW f, Handed(w, p, f), NEW x, Xpra!Turn(x), x = Xpra!Reject(p, w.req[f].owner, f)
  PROVE  Follows(w, x)
<1>1. Pops(w, p, f)
  BY DEF Handed
<1>2. Core(p, f) /\ Firm(p) /\ w.req[f].owner \in Viewers /\ p.req[f].owner = w.req[f].owner /\ f \in Mine(p, w.req[f].owner)
  BY <1>1 DEF Pops, Firm, Mine
<1>3. Rejects(p, x, w.req[f].owner)
  BY <1>2, Rejected
<1>4. Loop(x) /\ Cut(p, x)
  BY <1>3 DEF Rejects, Yields
<1>5. Yields(w, x)
  BY <1>1, <1>4, PoppedCut
<1>6. QED
  BY <1>5, TurnBecomes, CutFollows

\* The request in hand is refused.
LEMMA DrainRefusedFollows == ASSUME NEW w, State(w), Xpra!DrainRefused PROVE \E x : Follows(w, x)
<1>1. PICK p, f : Handed(w, p, f)
  BY InHand DEF Xpra!DrainRefused, Xpra!TextNext
<1>2. PICK x : x = Xpra!Reject(p, w.req[f].owner, f)
  OBVIOUS
<1>3. w.req = xreq
  BY DEF State, Here
<1>4. Xpra!Turn(x)
  BY <1>1, <1>2, <1>3 DEF Xpra!DrainRefused, Handed
<1>5. QED
  BY <1>1, <1>2, <1>4, RefusedFollows

\* What goes to the application, and how it is kept
LEMMA OutFollows ==
  ASSUME NEW w, State(w), NEW f, NEW x, Out(w, x, f), Outer(x, toXim, app, toBus, parts, xdoc), Xpra!Turn(x)
  PROVE  Follows(w, x)
<1>1. Loop(x) /\ Serves(w, x, parts)
  BY DEF Out, Serves
<1>2. QED
  BY <1>1, TurnBecomes, ServesFollows

\* A key goes to the application.
LEMMA DrainKeyFollows == ASSUME NEW w, State(w), Xpra!DrainKey PROVE \E x : Follows(w, x)
<1>1. PICK p, f : Handed(w, p, f)
  BY InHand DEF Xpra!DrainKey
<1>2. PICK x : x = Xpra!Drains([p EXCEPT !.req[f].status = "confirmed", !.toApp = Append(@, Xpra!Event("key", f, None))])
  OBVIOUS
<1>3. Xpra!Turn(x)
  BY <1>1, <1>2 DEF Xpra!DrainKey, Handed
<1>4. Pops(w, p, f)
  BY <1>1 DEF Handed
<1>5. Xpra!Available(w, w.req[f].owner) /\ w.req[f].kind = "down"
  BY <1>1 DEF Xpra!DrainKey, Handed, State, Here
<1>6. Xpra!Available(p, p.req[f].owner) /\ p.req[f].kind = "down"
  BY <1>4, <1>5 DEF Pops, Xpra!Available
<1>7. KeyOut(w, x, f)
  BY <1>2, <1>4, <1>6, KeyGoes, Zenon
<1>8. Loop(w) /\ Outer(w, toXim, app, toBus, parts, xdoc) /\ toXim \in Seq(Sayings) /\ app \in Apps
      /\ toBus \in Seq(BusCalls) /\ xdoc \in Seq(Stamps)
  BY DEF State, Here
<1>9. Outer(x, toXim, app, toBus, parts, xdoc)
  BY <1>7, <1>8, KeyOutKeeps
<1>10. Out(w, x, f)
  BY <1>7 DEF KeyOut
<1>11. QED
  BY <1>3, <1>9, <1>10, OutFollows

\* A text that no adapter takes is given up.
Spoils(y, z) ==
  /\ z = y \/ Unloaded(y, z)
  /\ z.xim.supported = y.xim.supported /\ (y.xim.lost => z.xim.lost) /\ y.xim.cancelled \subseteq z.xim.cancelled

\* The text in hand fails before it goes.
LEMMA SpoiledFollows ==
  ASSUME NEW w, State(w), NEW p, NEW f, Pops(w, p, f), NEW token, NEW y, Pended(p, y, f, token), NEW z, Spoils(y, z),
         NEW x, Fails(z, x), Xpra!Turn(x)
  PROVE  Follows(w, x)
<1>1. /\ Core(y, f) /\ Owed(y, f) /\ y \in Loops /\ y.req = w.req /\ y.toApp = w.toApp /\ y.xim = w.xim
      /\ y.toolkit = w.toolkit
  BY DEF Pended, Pops, Core
<1>2. w \in Loops /\ w.xim.ic = None /\ w.order.pending = 0 /\ w.toolkit.last \in Nat
  BY LoopFields DEF State, Here, Loop, Core, Pops
<1>3. Core(z, f) /\ Owed(z, f)
  BY <1>1, UnloadedKeeps DEF Spoils, Unloaded, Owed
<1>4. Undelivered(z, x)
  BY <1>3, NotCompleted
<1>5. z \in Loops /\ z.req = w.req /\ z.toApp = w.toApp /\ w.toolkit.last <= z.toolkit.last
  BY <1>1, <1>2 DEF Spoils, Unloaded
<1>6. Emptied(w, z)
  BY <1>1, <1>2, <1>5 DEF Spoils, Emptied
<1>7. Yields(w, x)
  BY <1>2, <1>4, <1>6, CutBack
<1>8. QED
  BY <1>7, TurnBecomes, CutFollows

\* The text next in the queue
LEMMA InHandText ==
  ASSUME NEW w, State(w), Xpra!TextNext
  PROVE  \E p, f : Handed(w, p, f) /\ Xpra!Available(p, p.req[f].owner) /\ p.req[f].kind = "text"
<1>1. PICK p, f : Handed(w, p, f)
  BY InHand DEF Xpra!TextNext
<1>2. Xpra!Available(w, w.req[f].owner) /\ w.req[f].kind = "text"
  BY <1>1 DEF Xpra!TextNext, Handed, State, Here
<1>3. Xpra!Available(p, p.req[f].owner) /\ p.req[f].kind = "text"
  BY <1>1, <1>2 DEF Handed, Pops, Xpra!Available
<1>4. QED
  BY <1>1, <1>3

\* A marker is sent, under a number that was not used.
LEMMA MarkOutFollows ==
  ASSUME NEW w, State(w), NEW f, NEW x, MarkOut(w, x, f), Xpra!Turn(x) PROVE Follows(w, x)
<1>1. Loop(w) /\ Outer(w, toXim, app, toBus, parts, xdoc) /\ toXim \in Seq(Sayings) /\ app \in Apps
      /\ toBus \in Seq(BusCalls) /\ xdoc \in Seq(Stamps)
  BY DEF State, Here
<1>2. Outer(x, toXim, app, toBus, parts, xdoc)
  BY <1>1, MarkOutKeeps
<1>3. Out(w, x, f)
  BY DEF MarkOut
<1>4. QED
  BY <1>2, <1>3, OutFollows

\* The text of an application with a module
LEMMA DrainToolkitFollows ==
  ASSUME NEW w, State(w), NEW clock \in 1..MaxMarker, NEW sends \in BOOLEAN, Xpra!DrainToolkit(clock, sends)
  PROVE  \E x : Follows(w, x)
<1>1. PICK p, f : Handed(w, p, f) /\ Xpra!Available(p, p.req[f].owner) /\ p.req[f].kind = "text"
  BY InHandText DEF Xpra!DrainToolkit
<1>2. Pops(w, p, f) /\ p = Xpra!Popped /\ f = Xpra!Following
  BY <1>1 DEF Handed
<1>3. PICK x : x = Xpra!CommitToolkit(p, f, clock, sends)
  OBVIOUS
<1>4. Xpra!Turn(x)
  BY <1>2, <1>3 DEF Xpra!DrainToolkit
<1>5. PICK y : y = Xpra!Pends(p, f, "toolkit")
  OBVIOUS
<1>6. Loop(w)
  BY DEF State, Here
<1>7. Pended(p, y, f, "toolkit")
  BY <1>2, <1>5, <1>6, Pending
<1>8. PICK number : number = IF clock > p.toolkit.last THEN clock ELSE p.toolkit.last + 1
  OBVIOUS
<1>9. p \in Loops /\ p.toolkit.last \in 0..MaxMarker /\ MaxMarker \in Nat
  BY <1>2, XpraAssumption, LoopFields DEF Pops, Core
<1>10. p.toolkit.last < number /\ number \in Nat
  BY <1>8, <1>9
<1>11. CASE p.toolkit.module = "unsupported" \/ number > MaxMarker
  <2>1. Fails(y, x)
    BY <1>3, <1>5, <1>8, <1>11, Zenon DEF Xpra!CommitToolkit, Fails
  <2>2. Spoils(y, y)
    BY DEF Spoils
  <2>3. QED
    BY <1>2, <1>4, <1>7, <2>1, <2>2, SpoiledFollows
<1>12. CASE ~(p.toolkit.module = "unsupported" \/ number > MaxMarker) /\ ~sends
  <2>1. PICK z : z = [y EXCEPT !.toolkit.last = number]
    OBVIOUS
  <2>2. Fails(z, x)
    BY <1>3, <1>5, <1>8, <1>12, <2>1, Zenon DEF Xpra!CommitToolkit, Fails
  <2>3. number \in 0..MaxMarker
    BY <1>9, <1>10, <1>12
  <2>4. Spoils(y, z)
    <3>1. y \in Loops /\ Core(y, f) /\ y.toolkit = p.toolkit /\ y.xim = p.xim /\ y.toolkit \in Modules
      BY <1>7, LoopFields DEF Pended, Core
    <3>2. PICK m : m = [y.toolkit EXCEPT !.last = number]
      OBVIOUS
    <3>3. m \in Modules /\ m.last = number /\ m.text = y.toolkit.text
      BY <2>3, <3>1, <3>2 DEF Modules
    <3>4. z = [y EXCEPT !.toolkit = m]
      BY <2>1, <3>1, <3>2 DEF Loops
    <3>5. /\ z \in Loops /\ z.toolkit = m /\ z.viewers = y.viewers /\ z.order = y.order /\ z.req = y.req
          /\ z.toApp = y.toApp /\ z.xim = y.xim
      BY <3>1, <3>3, <3>4 DEF Loops
    <3>6. /\ p.toolkit.text.op = 0 /\ p.xim.ic = None /\ p.toolkit.text.number <= p.toolkit.last
          /\ p.xim.focused \in p.xim.supported \cup {None} /\ (p.xim.lost => p.xim.focused = None)
      BY <1>2 DEF Pops, Core, Adapted
    <3>7. p.toolkit.text.number \in Nat /\ p.toolkit.last \in Nat
      BY <1>9, LoopFields
    <3>8. p.toolkit.last <= number /\ p.toolkit.text.number <= number
      BY <1>10, <3>6, <3>7
    <3>9. QED
      BY <3>1, <3>3, <3>5, <3>6, <3>8 DEF Spoils, Unloaded
  <2>5. QED
    BY <1>2, <1>4, <1>7, <2>2, <2>4, SpoiledFollows
<1>13. CASE ~(p.toolkit.module = "unsupported" \/ number > MaxMarker) /\ sends
  <2>1. Marks(y, f, number, x)
    BY <1>3, <1>5, <1>8, <1>13, Zenon DEF Xpra!CommitToolkit, Marks
  <2>2. number \in 0..MaxMarker
    BY <1>9, <1>10, <1>13
  <2>3. MarkOut(w, x, f)
    BY <1>1, <1>2, <1>7, <1>10, <2>1, <2>2, MarkGoes
  <2>4. QED
    BY <1>4, <2>3, MarkOutFollows
<1>14. QED
  BY <1>11, <1>12, <1>13

\* The first fragment is sent.
LEMMA FragOutFollows ==
  ASSUME NEW w, State(w), NEW f, NEW x, FragOut(w, x, f), Xpra!Turn(x) PROVE Follows(w, x)
<1>1. Loop(w) /\ Outer(w, toXim, app, toBus, parts, xdoc) /\ toXim \in Seq(Sayings) /\ app \in Apps
      /\ toBus \in Seq(BusCalls) /\ xdoc \in Seq(Stamps) /\ parts \in [Stamps -> Nat]
  BY DEF State, Here
<1>2. Outer(x, toXim, app, toBus, parts, xdoc)
  BY <1>1, FragOutKeeps
<1>3. Out(w, x, f)
  BY DEF FragOut
<1>4. QED
  BY <1>2, <1>3, OutFollows

\* A world whose text has left the input method
LEMMA LeavesXim ==
  ASSUME NEW y \in Loops, y.toolkit.text.op = 0, y.toolkit.text.number <= y.toolkit.last,
         y.xim.focused \in y.xim.supported \cup {None}, y.xim.lost => y.xim.focused = None,
         NEW z, z = [y EXCEPT !.xim.ic = None, !.xim.left = 0]
  PROVE  Unloads(y, z) /\ Spoils(y, z) /\ z.xim.focused = y.xim.focused
<1>1. PICK g : g = [y.xim EXCEPT !.ic = None, !.left = 0]
  OBVIOUS
<1>2. y.xim \in Focuses /\ 0 \in 0..MaxFragments /\ y.toolkit.last \in Nat
  BY XpraAssumption, LoopFields
<1>3. /\ g \in Focuses /\ g.ic = None /\ g.focused = y.xim.focused /\ g.supported = y.xim.supported
      /\ g.cancelled = y.xim.cancelled /\ g.lost = y.xim.lost
  BY <1>1, <1>2 DEF Focuses
<1>4. z = [y EXCEPT !.xim = g]
  BY <1>1 DEF Loops
<1>5. z \in Loops /\ z.xim = g /\ z.viewers = y.viewers /\ z.order = y.order /\ z.toolkit = y.toolkit
      /\ z.toApp = y.toApp /\ z.req = y.req
  BY <1>3, <1>4 DEF Loops
<1>6. Unloaded(y, z)
  BY <1>2, <1>3, <1>5 DEF Unloaded
<1>7. QED
  BY <1>3, <1>5, <1>6 DEF Unloads, Spoils

\* The text of an application whose focused window has a context, or none
LEMMA DrainXimFollows ==
  ASSUME NEW w, State(w), NEW encodes \in BOOLEAN, Xpra!DrainXim(encodes) PROVE \E x : Follows(w, x)
<1>1. PICK p, f : Handed(w, p, f) /\ Xpra!Available(p, p.req[f].owner) /\ p.req[f].kind = "text"
  BY InHandText DEF Xpra!DrainXim
<1>2. Pops(w, p, f) /\ p = Xpra!Popped /\ f = Xpra!Following /\ w.req = xreq /\ w.xim = xim /\ Loop(w)
  BY <1>1 DEF Handed, State, Here
<1>3. CASE Xpra!Context = None
  <2>1. PICK x : x = Xpra!Reject(p, w.req[f].owner, f)
    OBVIOUS
  <2>2. Xpra!Turn(x)
    BY <1>2, <1>3, <2>1 DEF Xpra!DrainXim
  <2>3. QED
    BY <1>1, <2>1, <2>2, RefusedFollows
<1>4. CASE Xpra!Context # None
  <2>1. PICK x : x = Xpra!CommitXim(p, f, encodes)
    OBVIOUS
  <2>2. Xpra!Turn(x)
    BY <1>2, <1>4, <2>1 DEF Xpra!DrainXim
  <2>3. PICK c : c = p.xim.focused
    OBVIOUS
  <2>4. p \in Loops /\ Adapted(p) /\ p.xim = w.xim /\ p.order.pending = 0
    BY <1>2 DEF Pops, Core
  <2>5. c \in ICs
    <3>1. p.xim.focused \in ICs \cup {None}
      BY <2>4, LoopFields
    <3>2. p.xim.focused # None
      BY <1>2, <1>4, <2>4 DEF Xpra!Context
    <3>3. QED
      BY <2>3, <3>1, <3>2
  <2>6. PICK y : y = Xpra!Pends(p, f, c)
    OBVIOUS
  <2>7. Pended(p, y, f, c)
    BY <1>2, <2>5, <2>6, Pending
  <2>8. CASE c \in p.xim.cancelled
    <3>1. Fails(y, x)
      BY <2>1, <2>3, <2>6, <2>8, Zenon DEF Xpra!CommitXim, Fails
    <3>2. Spoils(y, y)
      BY DEF Spoils
    <3>3. QED
      BY <1>2, <2>2, <2>7, <3>1, <3>2, SpoiledFollows
  <2>9. CASE c \notin p.xim.cancelled
    <3>1. PICK z : z = [y EXCEPT !.xim.ic = c, !.xim.left = p.req[f].size]
      OBVIOUS
    <3>2. x = Xpra!SendFragment(z, encodes)
      BY <2>1, <2>3, <2>6, <2>9, <3>1 DEF Xpra!CommitXim
    <3>3. y \in Loops /\ y.xim = p.xim /\ y.toolkit = p.toolkit /\ y.order.pending = f /\ y.xim \in Focuses
      BY <2>7, LoopFields DEF Pended, Core
    <3>4. p.req[f].size \in 1..MaxFragments /\ MaxFragments \in Nat
      BY <1>2, <2>4, RequestFields, XpraAssumption DEF Pops
    <3>5. PICK g : g = [y.xim EXCEPT !.ic = c, !.left = p.req[f].size]
      OBVIOUS
    <3>12. p.req[f].size \in 0..MaxFragments
      BY <3>4
    <3>6. /\ g \in Focuses /\ g.ic = c /\ g.focused = y.xim.focused /\ g.supported = y.xim.supported
          /\ g.cancelled = y.xim.cancelled /\ g.lost = y.xim.lost
      BY <2>5, <3>3, <3>5, <3>12 DEF Focuses
    <3>7. z = [y EXCEPT !.xim = g]
      BY <3>1, <3>3, <3>5 DEF Loops
    <3>8. z \in Loops /\ z.xim = g /\ z.viewers = y.viewers /\ z.order = y.order /\ z.toolkit = y.toolkit
          /\ z.toApp = y.toApp /\ z.req = y.req
      BY <3>3, <3>6, <3>7, FocusBecomes
    <3>9. CASE encodes
      <4>1. Fragments(z, f, c, x)
        BY <3>2, <3>3, <3>6, <3>8, <3>9 DEF Xpra!SendFragment, Fragments
      <4>2. Focusing(y, c, p.req[f].size, z)
        BY <3>1 DEF Focusing
      <4>4. FragOut(w, x, f)
        BY <1>1, <1>2, <2>3, <2>5, <2>7, <2>9, <4>1, <4>2, FragGoes
      <4>3. QED
        BY <2>2, <4>4, FragOutFollows
    <3>10. CASE ~encodes
      <4>1. PICK u : u = [z EXCEPT !.xim.ic = None, !.xim.left = 0]
        OBVIOUS
      <4>2. Fails(u, x)
        BY <3>2, <3>10, <4>1, Zenon DEF Xpra!SendFragment, Fails
      <4>3. u = [y EXCEPT !.xim.ic = None, !.xim.left = 0]
        <5>1. [z.xim EXCEPT !.ic = None, !.left = 0] = [y.xim EXCEPT !.ic = None, !.left = 0]
          BY <3>3, <3>5, <3>8 DEF Focuses
        <5>2. u = [z EXCEPT !.xim = [z.xim EXCEPT !.ic = None, !.left = 0]]
          BY <3>8, <4>1 DEF Loops
        <5>3. QED
          BY <3>3, <3>7, <5>1, <5>2 DEF Loops
      <4>4. /\ y.toolkit.text.op = 0 /\ y.toolkit.text.number <= y.toolkit.last
            /\ y.xim.focused \in y.xim.supported \cup {None} /\ (y.xim.lost => y.xim.focused = None)
        BY <1>2, <2>4, <3>3 DEF Pops, Adapted
      <4>5. Spoils(y, u)
        BY <3>3, <4>3, <4>4, LeavesXim, Zenon
      <4>6. QED
        BY <1>2, <2>2, <2>7, <4>2, <4>5, SpoiledFollows
    <3>11. QED
      BY <3>9, <3>10
  <2>10. QED
    BY <2>8, <2>9
<1>5. QED
  BY <1>3, <1>4

(* The bus *)
\* A handler that serves a request, and a call of the module is answered.
LEMMA ServesHears ==
  ASSUME NEW w, State(w), NEW x, Loop(x), Outer(x, toXim, app, toBus, parts, xdoc), Serves(w, x, parts),
         Xpra!Becomes(x), UNCHANGED <<toXim, app, parts, xdoc>>, Fewer(toBus')
  PROVE  Follows(w, x)
<1>1. Xpra!Whole' = x
  BY WholeBecomes DEF Loop, Core
<1>2. Quits(x, app, app, xdoc)
  BY DEF Quits
<1>3. Outer(x, toXim, app', toBus', parts, xdoc)
  BY <1>2, QuitsKeeps DEF Fewer
<1>4. Typed'
  BY DEF Typed, State, Here, Fewer
<1>5. Outcome(w, x, parts, xdoc, xdoc')
  BY DEF Outcome
<1>6. QED
  BY <1>1, <1>3, <1>4, <1>5 DEF Follows

\* The first call of the bus, and the others
LEMMA HeadCall ==
  ASSUME toBus \in Seq(BusCalls), toBus # <<>>, toBus' = Tail(toBus)
  PROVE  Fewer(toBus') /\ Head(toBus) \in BusCalls /\ Head(toBus) = toBus[1] /\ 1 \in 1..Len(toBus)
<1>1. PICK q, r : q = toBus /\ r = toBus'
  OBVIOUS
<1>2. r \in Seq(BusCalls) /\ Behead(q, r) /\ Head(q) = q[1] /\ q[1] \in BusCalls
  BY <1>1, Beheaded
<1>3. ASSUME NEW i \in 1..Len(r) PROVE \E j \in 1..Len(q) : r[i] = q[j]
  BY <1>2 DEF Behead
<1>4. 1 \in 1..Len(q)
  BY <1>2 DEF Behead
<1>5. QED
  BY <1>1, <1>2, <1>3, <1>4 DEF Fewer

\* What the server knows of the module changes, and nothing else.
LEMMA ModuleBecomes ==
  ASSUME NEW w \in Loops, NEW m \in Modules, NEW v, v = [w EXCEPT !.toolkit = m]
  PROVE  /\ v \in Loops /\ v.toolkit = m /\ v.viewers = w.viewers /\ v.order = w.order /\ v.xim = w.xim
         /\ v.toApp = w.toApp /\ v.req = w.req
  BY DEF Loops

\* The text stays where it is.
LEMMA ModuleChanges ==
  ASSUME NEW w, Loop(w), NEW m \in Modules, NEW v, v = [w EXCEPT !.toolkit = m],
         m.text.op = w.toolkit.text.op, m.text.op # 0 => m.text.number = w.toolkit.text.number, m.last = w.toolkit.last,
         m.text.number <= m.last
  PROVE  Yields(w, v)
<1>1. /\ w \in Loops /\ Stamped(w, 0) /\ Bounded(w) /\ Owing(w) /\ Sequenced(w) /\ Adapted(w) /\ Sent(w) /\ Shut(w)
      /\ Firm(w) /\ Draining(w)
  BY DEF Loop, Core
<1>2. /\ v \in Loops /\ v.toolkit = m /\ v.viewers = w.viewers /\ v.order = w.order /\ v.xim = w.xim
      /\ v.toApp = w.toApp /\ v.req = w.req
  BY <1>1, ModuleBecomes
<1>3. Stamped(v, 0) /\ Bounded(v) /\ Sequenced(v)
  BY <1>1, <1>2 DEF Stamped, Bounded, Sequenced, Waits, Went
<1>4. Owing(v)
  BY <1>1, <1>2 DEF Owing, Xpra!Available
<1>5. Adapted(v) /\ Shut(v) /\ Firm(v) /\ Draining(v)
  BY <1>1, <1>2 DEF Adapted, Shut, Firm, Draining
<1>6. Sent(v)
  BY <1>1, <1>2 DEF Sent, Went
<1>7. w.toolkit.last \in Nat
  BY <1>1, LoopFields
<1>8. Cut(w, v)
  BY <1>2, <1>7 DEF Cut, SameAsked
<1>9. QED
  BY <1>2, <1>3, <1>4, <1>5, <1>6, <1>8 DEF Yields, Loop, Core

\* The text is gone.
LEMMA ModuleEmptied ==
  ASSUME NEW w, Loop(w), w.toolkit.text.op # 0, NEW m \in Modules, m.text.op = 0, m.text.number = 0,
         m.last = w.toolkit.last, NEW v, v = [w EXCEPT !.toolkit = m]
  PROVE  Unloads(w, v) /\ Emptied(w, v) /\ w.order.pending # 0 /\ w.xim.ic = None /\ w.order.pending = w.toolkit.text.op
<1>1. w \in Loops /\ Adapted(w) /\ w.toolkit.last \in Nat
  BY LoopFields DEF Loop, Core
<1>2. w.order.pending # 0 /\ w.xim.ic = None /\ w.order.pending = w.toolkit.text.op
  BY <1>1 DEF Adapted
<1>3. /\ v \in Loops /\ v.toolkit = m /\ v.viewers = w.viewers /\ v.order = w.order /\ v.xim = w.xim
      /\ v.toApp = w.toApp /\ v.req = w.req
  BY <1>1, ModuleBecomes
<1>4. v.xim.focused \in v.xim.supported \cup {None} /\ (v.xim.lost => v.xim.focused = None)
  BY <1>1, <1>3 DEF Adapted
<1>5. Unloads(w, v)
  BY <1>1, <1>2, <1>3, <1>4 DEF Unloads, Unloaded
<1>6. Emptied(w, v)
  BY <1>1, <1>2, <1>3 DEF Emptied
<1>7. QED
  BY <1>2, <1>5, <1>6

\* A text that the bus has lost is given up.
LEMMA ModuleFails ==
  ASSUME NEW w, Loop(w), w.toolkit.text.op # 0, NEW m \in Modules, m.text.op = 0, m.text.number = 0,
         m.last = w.toolkit.last, NEW v, v = [w EXCEPT !.toolkit = m], NEW x, Fails(v, x)
  PROVE  Yields(w, x)
<1>1. Unloads(w, v) /\ Emptied(w, v) /\ w.order.pending # 0
  BY ModuleEmptied
<1>2. Undelivered(v, x)
  BY <1>1, TextFailed DEF Unloads
<1>3. w \in Loops
  BY DEF Loop, Core
<1>4. QED
  BY <1>1, <1>2, <1>3, CutBack

\* A call that the server hears
LEMMA HearsCall ==
  ASSUME NEW w, State(w), NEW calls, NEW y, Xpra!Hears(calls, y)
  PROVE  /\ Fewer(toBus') /\ UNCHANGED <<toXim, app, parts, xdoc>>
         /\ Head(toBus) \in BusCalls /\ Head(toBus) = toBus[1] /\ 1 \in 1..Len(toBus) /\ Head(toBus).call \in calls
         /\ Xpra!Becomes(y) \/ Xpra!Becomes(w)
  BY HeadCall DEF Xpra!Hears, State, Here

\* A call of the module makes the loop give requests up.
LEMMA YieldsHears ==
  ASSUME NEW w, State(w), NEW y, Yields(w, y), NEW calls, Xpra!Hears(calls, y) PROVE \E x : Follows(w, x)
<1>1. /\ Fewer(toBus') /\ UNCHANGED <<toXim, app, parts, xdoc>> /\ (Xpra!Becomes(y) \/ Xpra!Becomes(w))
  BY HearsCall
<1>2. app' \in Apps /\ Quits(y, app, app', xdoc) /\ Quits(w, app, app', xdoc)
  BY <1>1 DEF State, Here, Quits
<1>3. Yields(w, w)
  <2>1. Loop(w) /\ w.toolkit.last \in Nat
    BY LoopFields DEF State, Here, Loop, Core
  <2>2. QED
    BY <2>1 DEF Yields, Cut, SameAsked
<1>4. CASE Xpra!Becomes(y)
  BY <1>1, <1>2, <1>4, CutHears
<1>5. CASE Xpra!Becomes(w)
  BY <1>1, <1>2, <1>3, <1>5, CutHears
<1>6. QED
  BY <1>1, <1>4, <1>5

\* A module registers, of this version or another.
LEMMA RegisterFollows == ASSUME NEW w, State(w), Xpra!Register PROVE \E x : Follows(w, x)
<1>1. PICK c : c = Head(toBus).call
  OBVIOUS
<1>2. PICK y : y = [w EXCEPT !.toolkit.module = c]
  OBVIOUS
<1>3. Xpra!Hears({"ready", "unsupported"}, y)
  BY <1>1, <1>2 DEF Xpra!Register, State
<1>4. c \in {"ready", "unsupported"}
  BY <1>1, <1>3, HearsCall
<1>5. PICK m : m = [w.toolkit EXCEPT !.module = c]
  OBVIOUS
<1>6. Loop(w) /\ w \in Loops /\ w.toolkit \in Modules /\ Adapted(w)
  BY LoopFields DEF State, Here, Loop, Core
<1>7. m \in Modules /\ m.text = w.toolkit.text /\ m.last = w.toolkit.last
  BY <1>4, <1>5, <1>6 DEF Modules
<1>8. y = [w EXCEPT !.toolkit = m]
  BY <1>2, <1>5, <1>6 DEF Loops
<1>9. m.text.number <= m.last
  BY <1>6, <1>7 DEF Adapted
<1>10. Yields(w, y)
  BY <1>6, <1>7, <1>8, <1>9, ModuleChanges
<1>11. QED
  BY <1>3, <1>10, YieldsHears

\* The module of a text that is gone
LEMMA NoModuleText ==
  ASSUME NEW m, NEW w \in Loops,
         \/ m = [w.toolkit EXCEPT !.text = Xpra!NoText]
         \/ m = [w.toolkit EXCEPT !.module = "none", !.text = Xpra!NoText]
  PROVE  m \in Modules /\ m.text.op = 0 /\ m.text.number = 0 /\ m.last = w.toolkit.last
<1>1. w.toolkit \in Modules /\ MaxMarker \in Nat
  BY LoopFields, XpraAssumption
<1>2. Xpra!NoText \in [op : Stamps \cup {0}, number : 0..MaxMarker, held : BOOLEAN]
      /\ Xpra!NoText.op = 0 /\ Xpra!NoText.number = 0
  BY <1>1 DEF Xpra!NoText
<1>3. QED
  BY <1>1, <1>2 DEF Modules

\* The connection of the module has ended.
LEMMA OwnerChangedFollows == ASSUME NEW w, State(w), Xpra!OwnerChanged PROVE \E x : Follows(w, x)
<1>1. PICK gone : gone = [w EXCEPT !.toolkit.module = "none", !.toolkit.text = Xpra!NoText]
  OBVIOUS
<1>2. PICK m : m = [w.toolkit EXCEPT !.module = "none", !.text = Xpra!NoText]
  OBVIOUS
<1>3. Loop(w) /\ w \in Loops /\ w.toolkit \in Modules /\ Adapted(w) /\ w.toolkit = toolkit /\ w.toolkit.last \in Nat
  BY LoopFields DEF State, Here, Loop, Core
<1>4. m \in Modules /\ m.text.op = 0 /\ m.text.number = 0 /\ m.last = w.toolkit.last
  BY <1>2, <1>3, NoModuleText, Zenon
<1>5. gone = [w EXCEPT !.toolkit = m]
  BY <1>1, <1>2, <1>3 DEF Loops
<1>6. CASE w.toolkit.text.op = 0
  <2>1. m.text.number <= m.last
    BY <1>3, <1>4
  <2>2. Yields(w, gone)
    BY <1>3, <1>4, <1>5, <1>6, <2>1, ModuleChanges
  <2>3. Xpra!Hears({"gone"}, gone)
    BY <1>1, <1>3, <1>6 DEF Xpra!OwnerChanged, State
  <2>4. QED
    BY <2>2, <2>3, YieldsHears
<1>7. CASE w.toolkit.text.op # 0
  <2>1. PICK x : Fails(gone, x)
    BY Zenon DEF Fails
  <2>2. Yields(w, x)
    BY <1>3, <1>4, <1>5, <1>7, <2>1, ModuleFails
  <2>3. Xpra!Hears({"gone"}, x)
    BY <1>1, <1>3, <1>7, <2>1 DEF Xpra!OwnerChanged, State, Fails
  <2>4. QED
    BY <2>2, <2>3, YieldsHears
<1>8. QED
  BY <1>6, <1>7

\* The text of the module is with the application, whole.
LEMMA TextIsThere ==
  ASSUME NEW w, State(w), w.toolkit.text.op # 0, NEW i \in 1..Len(toBus), toBus[i].call = "done",
         toBus[i].n = w.toolkit.text.number
  PROVE  Quiet(w, toXim) /\ parts[w.order.pending] = w.req[w.order.pending].size
<1>1. Loop(w) /\ w \in Loops /\ Adapted(w) /\ toXim \in Seq(Sayings)
  BY DEF State, Here, Loop, Core
<1>2. w.order.pending = w.toolkit.text.op /\ w.xim.ic = None
  BY <1>1 DEF Adapted
<1>3. Told(w, app, toBus, parts) /\ Fragmented(w, toXim, app)
  BY DEF State, Here, Outer
<1>4. Full(w, parts, toBus[i].n)
  BY <1>3 DEF Told
<1>5. parts[w.order.pending] = w.req[w.order.pending].size
  BY <1>2, <1>4 DEF Full
<1>6. ASSUME NEW j \in 1..Len(w.toApp), Frag(w.toApp[j])
      PROVE  w.toApp[j].ic # w.xim.ic /\ w.toApp[j].s # w.order.pending
  <2>1. Aimed(w, toXim, app, w.toApp[j])
    BY <1>3, <1>6 DEF Fragmented
  <2>2. QED
    BY <1>2, <2>1, XpraAssumption DEF Aimed
<1>7. ASSUME NEW j \in 1..Len(toXim) PROVE toXim[j].ic # w.xim.ic
  <2>1. toXim[j] \in Sayings
    BY <1>1, ElementOfSeq
  <2>2. QED
    BY <1>2, <2>1, XpraAssumption DEF Sayings
<1>8. QED
  BY <1>5, <1>6, <1>7 DEF Quiet

\* The module says that the text was taken.
LEMMA DoneFollows == ASSUME NEW w, State(w), Xpra!Done PROVE \E x : Follows(w, x)
<1>1. PICK y : y = [w EXCEPT !.toolkit.text = Xpra!NoText]
  OBVIOUS
<1>2. PICK x : Succeeds(y, x)
  BY Zenon DEF Succeeds
<1>3. PICK z : z = IF w.toolkit.text.op # 0 /\ w.toolkit.text.number = Head(toBus).n /\ ~w.toolkit.text.held THEN x ELSE w
  OBVIOUS
<1>4. /\ Loop(w) /\ w \in Loops /\ w.toolkit \in Modules /\ w.toolkit = toolkit /\ w = Xpra!Whole
      /\ Outer(w, toXim, app, toBus, parts, xdoc) /\ toXim \in Seq(Sayings) /\ app \in Apps /\ xdoc \in Seq(Stamps)
  BY LoopFields DEF State, Here, Loop, Core
<1>5. Xpra!Hears({"done"}, z)
  BY <1>1, <1>2, <1>3, <1>4, Zenon DEF Xpra!Done, Succeeds
<1>6. Fewer(toBus') /\ UNCHANGED <<toXim, app, parts, xdoc>> /\ Head(toBus) = toBus[1] /\ 1 \in 1..Len(toBus)
      /\ Head(toBus).call = "done" /\ (Xpra!Becomes(z) \/ Xpra!Becomes(w))
  BY <1>5, HearsCall
<1>7. Yields(w, w)
  <2>1. w.toolkit.last \in Nat
    BY <1>4, LoopFields
  <2>2. QED
    BY <1>4, <2>1 DEF Yields, Cut, SameAsked
<1>8. CASE z = w
  BY <1>5, <1>7, <1>8, YieldsHears
<1>9. CASE z # w /\ Xpra!Becomes(z)
  <2>1. z = x /\ w.toolkit.text.op # 0 /\ w.toolkit.text.number = toBus[1].n /\ toBus[1].call = "done"
    BY <1>3, <1>6, <1>9
  <2>2. PICK m : m = [w.toolkit EXCEPT !.text = Xpra!NoText]
    OBVIOUS
  <2>3. m \in Modules /\ m.text.op = 0 /\ m.text.number = 0 /\ m.last = w.toolkit.last
    BY <1>4, <2>2, NoModuleText, Zenon
  <2>4. y = [w EXCEPT !.toolkit = m]
    BY <1>1, <1>4, <2>2 DEF Loops
  <2>5. Unloads(w, y) /\ w.order.pending # 0
    BY <1>4, <2>1, <2>3, <2>4, ModuleEmptied
  <2>6. Done(w, x)
    BY <1>2, <1>4, <2>5, TextDone
  <2>7. Quiet(w, toXim) /\ parts[w.order.pending] = w.req[w.order.pending].size
    BY <1>6, <2>1, TextIsThere
  <2>8. Outer(x, toXim, app, toBus, parts, xdoc)
    BY <1>4, <2>6, <2>7, DoneKeeps DEF Outer
  <2>9. Loop(x) /\ Serves(w, x, parts)
    BY <2>6, <2>7 DEF Done, Serves, Arrived
  <2>10. QED
    BY <1>6, <1>9, <2>1, <2>8, <2>9, ServesHears
<1>10. CASE Xpra!Becomes(w)
  <2>1. app' \in Apps /\ Quits(w, app, app', xdoc)
    BY <1>4, <1>6 DEF Quits
  <2>2. QED
    BY <1>6, <1>7, <1>10, <2>1, CutHears
<1>11. QED
  BY <1>6, <1>8, <1>9, <1>10

\* What the application makes of an answer
Hearing(n) == app.state = "asking" /\ app.number = n
Unanswered(n) == app' = IF Hearing(n) THEN [app EXCEPT !.state = "idle"] ELSE app

\* It asked for a text that is not there, or not for it.
LEMMA NoAnswer ==
  ASSUME app \in Apps, NEW n, Unanswered(n), NEW w PROVE app' \in Apps /\ Quits(w, app, app', xdoc)
<1>1. CASE Hearing(n)
  BY <1>1 DEF Unanswered, Apps, Quits
<1>2. CASE ~Hearing(n)
  BY <1>2 DEF Unanswered, Quits
<1>3. QED
  BY <1>1, <1>2

\* The text was taken, and is held no more.
Taken(w, v) == \E b \in BOOLEAN : v = [w EXCEPT !.toolkit.text.held = b]

\* The module takes the text, or it is lost and fails.
LEMMA TakenYields ==
  ASSUME NEW w, Loop(w), NEW v, Taken(w, v)
  PROVE  Yields(w, v) /\ v.toolkit.text.op = w.toolkit.text.op /\ v.toolkit.text.number = w.toolkit.text.number
<1>0. PICK b \in BOOLEAN : v = [w EXCEPT !.toolkit.text.held = b]
  BY DEF Taken
<1>1. w \in Loops /\ w.toolkit \in Modules /\ Adapted(w)
  BY LoopFields DEF Loop, Core
<1>2. PICK t : t = [w.toolkit.text EXCEPT !.held = b]
  OBVIOUS
<1>3. PICK m : m = [w.toolkit EXCEPT !.text = t]
  OBVIOUS
<1>4. /\ t \in [op : Stamps \cup {0}, number : 0..MaxMarker, held : BOOLEAN]
      /\ t.op = w.toolkit.text.op /\ t.number = w.toolkit.text.number
  BY <1>1, <1>2 DEF Modules
<1>5. m \in Modules /\ m.text = t /\ m.last = w.toolkit.last
  BY <1>1, <1>3, <1>4 DEF Modules
<1>6. v = [w EXCEPT !.toolkit = m]
  BY <1>0, <1>1, <1>2, <1>3 DEF Loops, Modules
<1>7. m.text.number <= m.last
  BY <1>1, <1>4, <1>5 DEF Adapted
<1>8. Yields(w, v)
  BY <1>4, <1>5, <1>6, <1>7, ModuleChanges
<1>9. v.toolkit = m
  BY <1>1, <1>5, <1>6 DEF Loops
<1>10. QED
  BY <1>4, <1>5, <1>8, <1>9

\* A module asks for the text of its number.
Answers(n, focused, x) ==
  \/ ~Xpra!Takes(n) /\ x = Xpra!Whole /\ Unanswered(n)
  \/ /\ Xpra!Takes(n) /\ focused /\ Taken(Xpra!Whole, x)
     /\ app' = IF Hearing(n) THEN [app EXCEPT !.state = "got", !.text = toolkit.text.op] ELSE app
  \/ Xpra!Takes(n) /\ ~focused /\ Fails([Xpra!Whole EXCEPT !.toolkit.text = Xpra!NoText], x) /\ Unanswered(n)

\* The parts of Take
LEMMA TakeBecomes ==
  ASSUME NEW focused \in BOOLEAN, Xpra!Take(focused)
  PROVE  /\ \E x : Answers(Head(toBus).n, focused, x) /\ Xpra!Becomes(x)
         /\ toBus # <<>> /\ toBus' = Tail(toBus) /\ UNCHANGED <<toXim, parts, xdoc>>
<1>1. PICK n : n = Head(toBus).n
  OBVIOUS
<1>3. PICK taken : taken = [Xpra!Whole EXCEPT !.toolkit.text.held = FALSE]
  BY Zenon
<1>5. PICK failed : Fails([Xpra!Whole EXCEPT !.toolkit.text = Xpra!NoText], failed)
  BY Zenon DEF Fails
<1>6. failed = Xpra!Completed([Xpra!Whole EXCEPT !.toolkit.text = Xpra!NoText], FALSE)
  BY <1>5, Zenon DEF Fails
<1>7. /\ Xpra!Becomes(IF ~Xpra!Takes(n) THEN Xpra!Whole ELSE IF focused THEN taken ELSE failed)
      /\ app' = IF app.state = "asking" /\ app.number = n
                THEN IF Xpra!Takes(n) /\ focused THEN [app EXCEPT !.state = "got", !.text = toolkit.text.op]
                     ELSE [app EXCEPT !.state = "idle"]
                ELSE app
      /\ toBus # <<>> /\ toBus' = Tail(toBus) /\ UNCHANGED <<toXim, parts, xdoc>>
  BY <1>1, <1>3, <1>6, Zenon DEF Xpra!Take
<1>8. CASE ~Xpra!Takes(n)
  <2>1. Unanswered(n) /\ Xpra!Becomes(Xpra!Whole)
    BY <1>7, <1>8 DEF Unanswered, Hearing
  <2>2. QED
    BY <1>1, <1>7, <1>8, <2>1 DEF Answers
<1>9. CASE Xpra!Takes(n) /\ focused
  <2>1. Xpra!Becomes(taken)
    BY <1>7, <1>9
  <2>2. app' = IF Hearing(n) THEN [app EXCEPT !.state = "got", !.text = toolkit.text.op] ELSE app
    BY <1>7, <1>9 DEF Hearing
  <2>3. Taken(Xpra!Whole, taken)
    BY <1>3, Zenon DEF Taken
  <2>4. Answers(n, focused, taken)
    BY <1>9, <2>2, <2>3 DEF Answers
  <2>5. QED
    BY <1>1, <1>7, <2>1, <2>4
<1>10. CASE Xpra!Takes(n) /\ ~focused
  <2>1. Xpra!Becomes(failed)
    BY <1>7, <1>10
  <2>2. Unanswered(n)
    BY <1>7, <1>10 DEF Unanswered, Hearing
  <2>3. Answers(n, focused, failed)
    BY <1>5, <1>10, <2>2 DEF Answers
  <2>4. QED
    BY <1>1, <1>7, <2>1, <2>3
<1>11. QED
  BY <1>8, <1>9, <1>10

\* Take keeps the invariant.
LEMMA TakeFollows ==
  ASSUME NEW w, State(w), NEW focused \in BOOLEAN, Xpra!Take(focused) PROVE \E x : Follows(w, x)
<1>1. PICK x : Answers(Head(toBus).n, focused, x) /\ Xpra!Becomes(x)
  BY TakeBecomes
<1>2. PICK n : n = Head(toBus).n
  OBVIOUS
<1>3. UNCHANGED <<toXim, parts, xdoc>> /\ Fewer(toBus')
  BY TakeBecomes, HeadCall DEF State, Here
<1>4. Loop(w) /\ w \in Loops /\ w.toolkit \in Modules /\ w.toolkit = toolkit /\ w = Xpra!Whole /\ app \in Apps
  BY LoopFields DEF State, Here, Loop, Core
<1>5. CASE ~Xpra!Takes(n) /\ x = w /\ Unanswered(n)
  <2>1. w.toolkit.last \in Nat
    BY <1>4, LoopFields
  <2>2. Yields(w, x)
    BY <1>4, <1>5, <2>1 DEF Yields, Cut, SameAsked
  <2>3. app' \in Apps /\ Quits(x, app, app', xdoc)
    BY <1>4, <1>5, NoAnswer
  <2>4. QED
    BY <1>1, <1>3, <2>2, <2>3, CutHears
<1>6. ASSUME Xpra!Takes(n), Taken(w, x),
             app' = IF Hearing(n) THEN [app EXCEPT !.state = "got", !.text = toolkit.text.op] ELSE app
      PROVE  \E y : Follows(w, y)
  <2>1. Yields(w, x) /\ x.toolkit.text.op = w.toolkit.text.op /\ x.toolkit.text.number = w.toolkit.text.number
    BY <1>4, <1>6, TakenYields
  <2>2. w.toolkit.text.op # 0 /\ w.toolkit.text.number = n /\ w.toolkit.text.op \in Stamps \cup {0}
    BY <1>4, <1>6, LoopFields DEF Xpra!Takes
  <2>3. CASE Hearing(n)
    <3>1. app' \in Apps
      BY <1>4, <1>6, <2>2, <2>3 DEF Apps
    <3>2. /\ app'.state = "got" /\ app'.text = w.toolkit.text.op /\ app'.number = app.number /\ app'.dones = app.dones
          /\ app'.alive = app.alive /\ app'.created = app.created /\ app.number = n /\ app.state = "asking"
      BY <1>4, <1>6, <2>3 DEF Apps, Hearing
    <3>3. Quits(x, app, app', xdoc)
      BY <2>1, <2>2, <3>2 DEF Quits
    <3>4. QED
      BY <1>1, <1>3, <2>1, <3>1, <3>3, CutHears
  <2>4. CASE ~Hearing(n)
    <3>1. app' \in Apps /\ Quits(x, app, app', xdoc)
      BY <1>4, <1>6, <2>4 DEF Quits
    <3>2. QED
      BY <1>1, <1>3, <2>1, <3>1, CutHears
  <2>5. QED
    BY <2>3, <2>4
<1>7. CASE Xpra!Takes(n) /\ Fails([w EXCEPT !.toolkit.text = Xpra!NoText], x) /\ Unanswered(n)
  <2>1. PICK m : m = [w.toolkit EXCEPT !.text = Xpra!NoText]
    OBVIOUS
  <2>2. m \in Modules /\ m.text.op = 0 /\ m.text.number = 0 /\ m.last = w.toolkit.last
    BY <1>4, <2>1, NoModuleText, Zenon
  <2>3. PICK v : v = [w EXCEPT !.toolkit = m]
    OBVIOUS
  <2>4. [w EXCEPT !.toolkit.text = Xpra!NoText] = v
    BY <1>4, <2>1, <2>3 DEF Loops
  <2>5. Fails(v, x) /\ w.toolkit.text.op # 0
    BY <1>4, <1>7, <2>4 DEF Xpra!Takes
  <2>6. Yields(w, x)
    BY <1>4, <2>2, <2>3, <2>5, ModuleFails
  <2>7. app' \in Apps /\ Quits(x, app, app', xdoc)
    BY <1>4, <1>7, NoAnswer
  <2>8. QED
    BY <1>1, <1>3, <2>6, <2>7, CutHears
<1>8. QED
  BY <1>1, <1>2, <1>4, <1>5, <1>6, <1>7 DEF Answers

(* The input method *)
\* What it says is read, and a handler serves a request.
LEMMA ServesReads ==
  ASSUME NEW w, State(w), NEW y, NEW x, Loop(x), Outer(x, y, app, toBus, parts, xdoc), Serves(w, x, parts),
         Xpra!Becomes(x), toXim' = y, y \in Seq(Sayings), UNCHANGED <<toBus, app, parts, xdoc>>
  PROVE  Follows(w, x)
<1>1. Xpra!Whole' = x
  BY WholeBecomes DEF Loop, Core
<1>2. Typed'
  BY DEF Typed, State, Here
<1>3. Outcome(w, x, parts, xdoc, xdoc')
  BY DEF Outcome
<1>4. QED
  BY <1>1, <1>2, <1>3 DEF Follows

\* Nothing happens to the requests.
LEMMA SameServes ==
  ASSUME NEW w, NEW x, \A s \in Stamps : SameAsked(w, x, s) /\ x.req[s].status = w.req[s].status, NEW p
  PROVE  Serves(w, x, p)
  BY DEF Serves, Falls

\* The contexts change, or the focus.
LEMMA FocusListens ==
  ASSUME NEW w, Loop(w), NEW f \in Focuses, f.ic = w.xim.ic, f.left = w.xim.left,
         f.focused \in f.supported \cup {None}, f.lost => f.focused = None, NEW v, v = [w EXCEPT !.xim = f]
  PROVE  Listens(w, v) /\ Loop(v) /\ v.xim = f
<1>1. w \in Loops
  BY DEF Loop, Core
<1>2. v \in Loops /\ v.xim = f /\ v.viewers = w.viewers /\ v.order = w.order /\ v.toolkit = w.toolkit
      /\ v.toApp = w.toApp /\ v.req = w.req
  BY <1>1 DEF Loops
<1>3. Listens(w, v)
  BY <1>2 DEF Listens
<1>4. QED
  BY <1>2, <1>3, ListensLoop

\* The text that the input method has is given up.
Loses(c, z) == z = [c EXCEPT !.xim.ic = None, !.xim.left = 0]

\* The text that the input method has is lost with the connection.
LEMMA LosesText ==
  ASSUME NEW c, Loop(c), c.xim.ic # None, NEW z, Loses(c, z)
  PROVE  /\ Unloads(c, z) /\ c.order.pending # 0 /\ Steady(z)
         /\ z.req = c.req /\ z.toApp = c.toApp /\ z.order = c.order /\ z.toolkit = c.toolkit /\ z.viewers = c.viewers
         /\ z.xim.ic = None /\ z.xim.supported = c.xim.supported /\ z.xim.cancelled = c.xim.cancelled
         /\ z.xim.lost = c.xim.lost
<1>1. c \in Loops /\ Adapted(c) /\ Core(c, 0) /\ Firm(c) /\ c.xim \in Focuses
  BY LoopFields DEF Loop, Core
<1>2. c.order.pending # 0 /\ c.toolkit.text.op = 0
  BY <1>1 DEF Adapted
<1>3. Unloads(c, z)
  BY <1>1, <1>2, LeavesXim, Zenon DEF Adapted, Loses
<1>4. PICK g : g = [c.xim EXCEPT !.ic = None, !.left = 0]
  OBVIOUS
<1>5. z = [c EXCEPT !.xim = g]
  BY <1>1, <1>4 DEF Loops, Loses
<1>6. z.req = c.req /\ z.toApp = c.toApp /\ z.order = c.order /\ z.toolkit = c.toolkit /\ z.viewers = c.viewers
  BY <1>1, <1>5 DEF Loops
<1>7. z.xim.ic = None /\ z.xim.supported = c.xim.supported /\ z.xim.cancelled = c.xim.cancelled /\ z.xim.lost = c.xim.lost
  BY <1>3 DEF Unloads, Unloaded
<1>8. Core(z, 0)
  BY <1>1, <1>3, UnloadedKeeps DEF Unloads
<1>9. Steady(z)
  BY <1>1, <1>2, <1>6, <1>8 DEF Steady, Firm
<1>10. QED
  BY <1>2, <1>3, <1>6, <1>7, <1>9

\* Such a text fails.
LEMMA LosesFails ==
  ASSUME NEW c, Loop(c), c.xim.ic # None, NEW z, Loses(c, z), NEW x, Fails(z, x),
         NEW y \in Seq(Sayings), NEW a \in Apps, NEW b \in Seq(BusCalls), NEW p, NEW d \in Seq(Stamps), Outer(z, y, a, b, p, d)
  PROVE  Loop(x) /\ Outer(x, y, a, b, p, d) /\ Falls(c, x)
<1>1. Unloads(c, z) /\ c.order.pending # 0 /\ Steady(z) /\ z.req = c.req
  BY LosesText
<1>2. Undelivered(z, x)
  BY <1>1, TextFailed DEF Unloads
<1>3. Loop(x) /\ Cut(z, x)
  BY <1>2 DEF Undelivered, Yields
<1>4. Outer(x, y, a, b, p, d)
  BY <1>1, <1>3, CutKeeps
<1>5. Falls(c, x)
  BY <1>1, <1>3 DEF Falls, Cut, SameAsked
<1>6. QED
  BY <1>3, <1>4, <1>5

\* The connection of the input method hangs up.
Hung(w, l) == \E b \in BOOLEAN : b /\ l = [w EXCEPT !.xim.focused = None, !.xim.lost = b]

\* A connection that hung up says nothing more.
LEMMA HungListens ==
  ASSUME NEW w, Loop(w), NEW l, Hung(w, l)
  PROVE  Loop(l) /\ Listens(w, l) /\ l.xim.ic = w.xim.ic /\ l.xim.supported = w.xim.supported /\ l.xim.lost
<1>1. PICK b \in BOOLEAN : b /\ l = [w EXCEPT !.xim.focused = None, !.xim.lost = b]
  BY Zenon DEF Hung
<1>2. PICK f : f = [w.xim EXCEPT !.focused = None, !.lost = b]
  OBVIOUS
<1>3. w \in Loops /\ w.xim \in Focuses
  BY LoopFields DEF Loop, Core
<1>4. /\ f \in Focuses /\ f.ic = w.xim.ic /\ f.left = w.xim.left /\ f.focused = None /\ f.supported = w.xim.supported
      /\ f.lost = b
  BY <1>2, <1>3 DEF Focuses
<1>5. l = [w EXCEPT !.xim = f]
  BY <1>1, <1>2, <1>3 DEF Loops
<1>6. Listens(w, l) /\ Loop(l) /\ l.xim = f
  BY <1>4, <1>5, FocusListens
<1>7. QED
  BY <1>1, <1>4, <1>6

\* The connection to the X server is lost.
LEMMA XimLostFollows == ASSUME NEW w, State(w), Xpra!XimLost PROVE \E x : Follows(w, x)
<1>1. PICK l : l = [w EXCEPT !.xim.focused = None, !.xim.lost = TRUE]
  BY Zenon
<1>2. Hung(w, l)
  BY <1>1, Zenon DEF Hung
<1>3. /\ Loop(w) /\ w.xim = xim /\ w = Xpra!Whole /\ Outer(w, toXim, app, toBus, parts, xdoc) /\ toXim \in Seq(Sayings)
      /\ app \in Apps /\ toBus \in Seq(BusCalls) /\ xdoc \in Seq(Stamps)
  BY DEF State, Here
<1>4. /\ Loop(l) /\ l.xim.ic = w.xim.ic /\ l.xim.supported = w.xim.supported /\ l.xim.lost
      /\ l.viewers = w.viewers /\ l.order = w.order /\ l.toolkit = w.toolkit /\ l.toApp = w.toApp /\ l.req = w.req
  BY <1>2, <1>3, HungListens DEF Listens
<1>5. CASE w.xim.ic = None
  <2>1. Xpra!Handled(l)
    BY <1>1, <1>3, <1>5, Zenon DEF Xpra!XimLost
  <2>2. Unheard(w, l)
    BY <1>4, <1>5 DEF Unheard
  <2>3. Outer(l, toXim, app, toBus, parts, xdoc)
    BY <1>3, <2>2, UnheardKeeps
  <2>4. Serves(w, l, parts)
    BY <1>4, SameServes DEF SameAsked
  <2>5. QED
    BY <1>4, <2>1, <2>3, <2>4, HandledBecomes, ServesFollows
<1>6. CASE w.xim.ic # None
  <2>1. PICK z : z = [l EXCEPT !.xim.ic = None, !.xim.left = 0]
    OBVIOUS
  <2>2. PICK x : Fails(z, x)
    BY Zenon DEF Fails
  <2>3. x = Xpra!XimFails(l)
    BY <2>1, <2>2, Zenon DEF Fails, Xpra!XimFails
  <2>4. Xpra!Handled(x)
    BY <1>1, <1>3, <1>6, <2>3, Zenon DEF Xpra!XimLost
  <2>5. Loses(l, z) /\ l.xim.ic # None
    BY <1>4, <1>6, <2>1 DEF Loses
  <2>6. /\ z.req = l.req /\ z.toApp = l.toApp /\ z.order = l.order /\ z.toolkit = l.toolkit /\ z.viewers = l.viewers
        /\ z.xim.ic = None /\ z.xim.supported = l.xim.supported /\ z.xim.lost = l.xim.lost
    BY <1>4, <2>5, LosesText
  <2>7. Unheard(w, z)
    BY <1>4, <2>6 DEF Unheard
  <2>8. Outer(z, toXim, app, toBus, parts, xdoc)
    BY <1>3, <2>7, UnheardKeeps
  <2>9. Loop(x) /\ Outer(x, toXim, app, toBus, parts, xdoc) /\ Falls(l, x)
    BY <1>3, <1>4, <2>2, <2>5, <2>8, LosesFails
  <2>10. Serves(w, x, parts)
    BY <1>4, <2>9 DEF Serves, Falls, SameAsked
  <2>11. QED
    BY <2>4, <2>9, <2>10, HandledBecomes, ServesFollows
<1>7. QED
  BY <1>5, <1>6

\* A message is read, and nothing happens to the requests.
LEMMA AttendsFollows ==
  ASSUME NEW w, State(w), NEW y \in Seq(Sayings), NEW v, Attends(w, v, toXim, y), Xpra!Becomes(v), toXim' = y,
         UNCHANGED <<toBus, app, parts, xdoc>>
  PROVE  Follows(w, v)
<1>1. Loop(w) /\ toXim \in Seq(Sayings) /\ Outer(w, toXim, app, toBus, parts, xdoc)
  BY DEF State, Here
<1>2. Listens(w, v)
  BY DEF Attends
<1>3. Loop(v)
  BY <1>1, <1>2, ListensLoop
<1>4. Outer(v, y, app, toBus, parts, xdoc)
  BY <1>1, AttendsKeeps
<1>5. Serves(w, v, parts)
  BY <1>2, SameServes DEF Listens, SameAsked
<1>6. QED
  BY <1>3, <1>4, <1>5, ServesReads

\* A context is created, and takes UTF-8; the focus changes.
LEMMA FocusAttends ==
  ASSUME NEW w, Loop(w), NEW x, NEW y, Behead(x, y), x[1].what # "destroy", NEW f \in Focuses, f.ic = w.xim.ic,
         f.left = w.xim.left, f.focused \in f.supported \cup {None}, f.lost => f.focused = None,
         f.lost = w.xim.lost, f.cancelled = w.xim.cancelled,
         \/ f.supported = w.xim.supported
         \/ x[1].what = "create" /\ f.supported = w.xim.supported \cup {x[1].ic},
         NEW v, v = [w EXCEPT !.xim = f]
  PROVE  Attends(w, v, x, y)
<1>1. Listens(w, v) /\ v.xim = f
  BY FocusListens
<1>2. QED
  BY <1>1 DEF Attends

\* The world as it is
LEMMA StillAttends ==
  ASSUME NEW w, Loop(w), NEW x, NEW y, Behead(x, y), x[1].what # "destroy" PROVE Attends(w, w, x, y)
<1>1. w \in Loops /\ Adapted(w)
  BY DEF Loop, Core
<1>2. QED
  BY <1>1 DEF Attends, Listens, Adapted

\* What the handler makes of a message
Heard(w, m, encodes, x) == w = Xpra!Whole /\ w.xim = xim /\ x = Xpra!Callback(m, encodes)

\* A context that is created, or has the focus, or lost it
LEMMA FocusHeard ==
  ASSUME NEW w, Loop(w), ~w.xim.lost, NEW q \in Seq(Sayings), NEW y, Behead(q, y), NEW encodes, NEW m, m = q[1], m \in Sayings,
         m.what \in {"create", "focus", "unfocus"}, NEW x, Heard(w, m, encodes, x)
  PROVE  Attends(w, x, q, y)
<1>1. w \in Loops /\ w.xim \in Focuses /\ w.xim.focused \in w.xim.supported \cup {None} /\ w.xim.supported \subseteq ICs
      /\ m.ic \in ICs
  BY LoopFields DEF Loop, Core, Adapted, Sayings
<1>2. w = Xpra!Whole /\ w.xim = xim /\ x = Xpra!Callback(m, encodes)
  BY DEF Heard
<1>3. CASE m.what = "create"
  <2>1. CASE m.utf8
    <3>1. x = [w EXCEPT !.xim.supported = @ \cup {m.ic}]
      BY <1>2, <1>3, <2>1 DEF Xpra!Callback
    <3>2. PICK f : f = [w.xim EXCEPT !.supported = @ \cup {m.ic}]
      OBVIOUS
    <3>3. /\ f \in Focuses /\ f.ic = w.xim.ic /\ f.left = w.xim.left /\ f.focused = w.xim.focused
          /\ f.supported = w.xim.supported \cup {m.ic} /\ f.lost = w.xim.lost /\ f.cancelled = w.xim.cancelled
      BY <1>1, <3>2 DEF Focuses
    <3>4. x = [w EXCEPT !.xim = f]
      BY <1>1, <3>1, <3>2 DEF Loops
    <3>5. QED
      BY <1>1, <1>3, <3>3, <3>4, FocusAttends
  <2>2. CASE ~m.utf8
    <3>1. x = w
      BY <1>2, <1>3, <2>2 DEF Xpra!Callback
    <3>2. QED
      BY <1>3, <3>1, StillAttends
  <2>3. QED
    BY <2>1, <2>2
<1>4. ASSUME NEW c, c \in w.xim.supported \cup {None}, x = [w EXCEPT !.xim.focused = c], m.what # "create"
      PROVE  Attends(w, x, q, y)
  <2>1. PICK f : f = [w.xim EXCEPT !.focused = c]
    OBVIOUS
  <2>2. /\ f \in Focuses /\ f.ic = w.xim.ic /\ f.left = w.xim.left /\ f.focused = c
        /\ f.supported = w.xim.supported /\ f.lost = w.xim.lost /\ f.cancelled = w.xim.cancelled
    BY <1>1, <1>4, <2>1 DEF Focuses
  <2>3. x = [w EXCEPT !.xim = f]
    BY <1>1, <1>4, <2>1 DEF Loops
  <2>4. QED
    BY <1>4, <2>2, <2>3, FocusAttends
<1>5. CASE m.what = "focus"
  <2>1. PICK c : c = IF m.ic \in xim.supported THEN m.ic ELSE None
    OBVIOUS
  <2>2. x = [w EXCEPT !.xim.focused = c]
    BY <1>2, <1>5, <2>1 DEF Xpra!Callback
  <2>3. QED
    BY <1>2, <1>4, <1>5, <2>1, <2>2
<1>6. CASE m.what = "unfocus"
  <2>1. PICK c : c = IF xim.focused = m.ic THEN None ELSE xim.focused
    OBVIOUS
  <2>2. x = [w EXCEPT !.xim.focused = c]
    BY <1>2, <1>6, <2>1 DEF Xpra!Callback
  <2>3. c \in w.xim.supported \cup {None}
    BY <1>1, <1>2, <2>1
  <2>4. QED
    BY <1>4, <1>6, <2>2, <2>3
<1>7. QED
  BY <1>3, <1>5, <1>6

\* A context is destroyed: what it was for is forgotten.
Forgotten(w, m) ==
  [w EXCEPT !.xim.focused = IF w.xim.focused = m.ic THEN None ELSE w.xim.focused,
            !.xim.supported = @ \ {m.ic}, !.xim.cancelled = @ \ {m.ic}]

\* What a world that forgets a context has
LEMMA ForgottenParts ==
  ASSUME NEW w, Loop(w), ~w.xim.lost, NEW m, NEW g, g = Forgotten(w, m)
  PROVE  /\ Loop(g) /\ g.xim.ic = w.xim.ic /\ g.xim.left = w.xim.left /\ g.xim.supported = w.xim.supported \ {m.ic}
         /\ g.xim.cancelled = w.xim.cancelled \ {m.ic} /\ g.xim.lost = w.xim.lost
         /\ g.viewers = w.viewers /\ g.order = w.order /\ g.toolkit = w.toolkit /\ g.toApp = w.toApp /\ g.req = w.req
<1>1. w \in Loops /\ w.xim \in Focuses /\ w.xim.focused \in w.xim.supported \cup {None}
  BY LoopFields DEF Loop, Core, Adapted
<1>2. PICK c : c = IF w.xim.focused = m.ic THEN None ELSE w.xim.focused
  OBVIOUS
<1>3. PICK f : f = [w.xim EXCEPT !.focused = c, !.supported = @ \ {m.ic}, !.cancelled = @ \ {m.ic}]
  OBVIOUS
<1>4. c \in (w.xim.supported \ {m.ic}) \cup {None} /\ c \in ICs \cup {None}
  BY <1>1, <1>2 DEF Focuses
<1>5. /\ f \in Focuses /\ f.ic = w.xim.ic /\ f.left = w.xim.left /\ f.focused = c
      /\ f.supported = w.xim.supported \ {m.ic} /\ f.lost = w.xim.lost /\ f.cancelled = w.xim.cancelled \ {m.ic}
  BY <1>1, <1>3, <1>4 DEF Focuses
<1>6. g = [w EXCEPT !.xim = f]
  BY <1>1, <1>2, <1>3 DEF Forgotten, Loops, Focuses
<1>7. Listens(w, g) /\ Loop(g) /\ g.xim = f
  BY <1>4, <1>5, <1>6, FocusListens
<1>8. QED
  BY <1>5, <1>7 DEF Listens

\* What reading a message leads to
Handles(w, y, x) == Loop(x) /\ Outer(x, y, app, toBus, parts, xdoc) /\ Serves(w, x, parts)

\* The destruction of a context is heard, and its text fails.
LEMMA DestroyHeard ==
  ASSUME NEW w, State(w), ~w.xim.lost, NEW y, Behead(toXim, y), y \in Seq(Sayings), NEW encodes,
         NEW m, m = toXim[1], m \in Sayings, m.what = "destroy", NEW x, Heard(w, m, encodes, x)
  PROVE  Handles(w, y, x)
<1>1. /\ Loop(w) /\ toXim \in Seq(Sayings) /\ app \in Apps /\ toBus \in Seq(BusCalls) /\ xdoc \in Seq(Stamps)
      /\ Outer(w, toXim, app, toBus, parts, xdoc) /\ m.ic \in ICs
  BY DEF State, Here, Sayings
<1>2. w = Xpra!Whole /\ w.xim = xim /\ x = Xpra!Callback(m, encodes)
  BY DEF Heard
<1>3. PICK g : g = Forgotten(w, m)
  OBVIOUS
<1>4. /\ Loop(g) /\ g.xim.ic = w.xim.ic /\ g.xim.left = w.xim.left /\ g.xim.supported = w.xim.supported \ {m.ic}
      /\ g.xim.cancelled = w.xim.cancelled \ {m.ic} /\ g.xim.lost = w.xim.lost
      /\ g.viewers = w.viewers /\ g.order = w.order /\ g.toolkit = w.toolkit /\ g.toApp = w.toApp /\ g.req = w.req
  BY <1>1, <1>3, ForgottenParts
<1>5. x = IF xim.ic = m.ic THEN Xpra!XimFails(g) ELSE g
  <2>1. PICK h : h = [Xpra!Whole EXCEPT !.xim.focused = IF xim.focused = m.ic THEN None ELSE xim.focused,
                        !.xim.supported = @ \ {m.ic}, !.xim.cancelled = @ \ {m.ic}]
    OBVIOUS
  <2>2. x = IF xim.ic = m.ic THEN Xpra!XimFails(h) ELSE h
    BY <1>2, <2>1 DEF Xpra!Callback
  <2>3. h = g
    BY <1>2, <1>3, <2>1, Zenon DEF Forgotten
  <2>4. QED
    BY <2>2, <2>3
<1>6. CASE w.xim.ic # m.ic
  <2>1. x = g
    BY <1>2, <1>5, <1>6
  <2>2. Forgets(w, x, toXim, y)
    BY <1>4, <2>1 DEF Forgets
  <2>3. Outer(x, y, app, toBus, parts, xdoc)
    BY <1>1, <2>2, ForgetsKeeps
  <2>4. Serves(w, x, parts)
    BY <1>4, <2>1, SameServes DEF SameAsked
  <2>5. QED
    BY <1>4, <2>1, <2>3, <2>4 DEF Handles
<1>7. CASE w.xim.ic = m.ic
  <2>1. PICK z : z = [g EXCEPT !.xim.ic = None, !.xim.left = 0]
    OBVIOUS
  <2>2. Fails(z, x)
    BY <1>2, <1>5, <1>7, <2>1, Zenon DEF Fails, Xpra!XimFails
  <2>3. Loses(g, z) /\ g.xim.ic # None
    BY <1>1, <1>4, <1>7, <2>1, XpraAssumption DEF Loses
  <2>4. /\ z.req = g.req /\ z.toApp = g.toApp /\ z.order = g.order /\ z.toolkit = g.toolkit /\ z.viewers = g.viewers
        /\ z.xim.ic = None /\ z.xim.supported = g.xim.supported /\ z.xim.cancelled = g.xim.cancelled
        /\ z.xim.lost = g.xim.lost
    BY <1>4, <2>3, LosesText
  <2>5. Forgets(w, z, toXim, y)
    BY <1>4, <1>7, <2>4 DEF Forgets
  <2>6. Outer(z, y, app, toBus, parts, xdoc)
    BY <1>1, <2>5, ForgetsKeeps
  <2>7. Loop(x) /\ Outer(x, y, app, toBus, parts, xdoc) /\ Falls(g, x)
    BY <1>1, <1>4, <2>2, <2>3, <2>6, LosesFails
  <2>8. Serves(w, x, parts)
    BY <1>4, <2>7 DEF Serves, Falls, SameAsked
  <2>9. QED
    BY <2>7, <2>8 DEF Handles
<1>8. QED
  BY <1>6, <1>7

\* The answer to a fragment: the next one, or the end of the text.
LEMMA SyncHeard ==
  ASSUME NEW w, State(w), NEW y, Behead(toXim, y), y \in Seq(Sayings), NEW encodes \in BOOLEAN,
         NEW m, m = toXim[1], m \in Sayings, m.what = "sync", m.ic = w.xim.ic, NEW x, Heard(w, m, encodes, x)
  PROVE  Handles(w, y, x)
<1>1. /\ Loop(w) /\ w \in Loops /\ toXim \in Seq(Sayings) /\ app \in Apps /\ toBus \in Seq(BusCalls) /\ xdoc \in Seq(Stamps)
      /\ Outer(w, toXim, app, toBus, parts, xdoc) /\ m.ic \in ICs /\ w.xim.ic \in ICs /\ w.xim.ic # None
      /\ parts \in [Stamps -> Nat] /\ w.xim.left \in 0..MaxFragments /\ w.order.pending # 0
      /\ w.order.pending \in Stamps \cup {0}
  <2>1. Loop(w) /\ w \in Loops /\ Adapted(w) /\ m.ic \in ICs /\ None \notin ICs
    BY XpraAssumption DEF State, Here, Sayings, Loop, Core
  <2>2. w.order.pending # 0
    BY <2>1 DEF Adapted
  <2>3. QED
    BY <2>1, <2>2, LoopFields DEF State, Here
<1>2. w = Xpra!Whole /\ w.xim = xim /\ x = Xpra!Callback(m, encodes)
  BY DEF Heard
<1>3. x = Xpra!Synced(w, encodes)
  BY <1>2 DEF Xpra!Callback
<1>4. Written(w, xdoc) /\ Counted(w, xdoc, parts) /\ Holding(w, app, xdoc) /\ Told(w, app, toBus, parts)
      /\ Contexts(w, toXim, app) /\ Fragmented(w, toXim, app) /\ Flying(w, toXim, app, parts)
  BY <1>1 DEF Outer
<1>5. Quieted(w, y, app, parts)
  BY <1>1, <1>4, AnswerQuiets DEF Answered
<1>6. PICK z : z = [w EXCEPT !.xim.ic = None, !.xim.left = 0]
  OBVIOUS
<1>7. Loses(w, z)
  BY <1>6 DEF Loses
<1>8. /\ Unloads(w, z) /\ z.req = w.req /\ z.toApp = w.toApp /\ z.order = w.order /\ z.toolkit = w.toolkit
      /\ z.xim.ic = None /\ z.xim.supported = w.xim.supported /\ z.xim.cancelled = w.xim.cancelled
      /\ z.xim.lost = w.xim.lost
  BY <1>1, <1>7, LosesText
<1>9. ASSUME Fails(z, x) PROVE Handles(w, y, x)
  <2>1. Outer(z, y, app, toBus, parts, xdoc)
    BY <1>4, <1>5, <1>8, QuietKeeps
  <2>2. Loop(x) /\ Outer(x, y, app, toBus, parts, xdoc) /\ Falls(w, x)
    BY <1>1, <1>7, <1>9, <2>1, LosesFails
  <2>3. QED
    BY <2>2 DEF Handles, Serves
<1>10. CASE w.xim.focused = w.xim.ic /\ w.xim.left > 0
  <2>1. x = Xpra!SendFragment(w, encodes)
    BY <1>3, <1>10 DEF Xpra!Synced
  <2>2. CASE ~encodes
    <3>1. Fails(z, x)
      BY <1>6, <2>1, <2>2, Zenon DEF Xpra!SendFragment, Fails
    <3>2. QED
      BY <1>9, <3>1
  <2>3. CASE encodes
    <3>1. x = [w EXCEPT !.xim.left = @ - 1, !.req[w.order.pending].status = "issued",
                !.toApp = @ \o <<Xpra!Event("commit", w.order.pending, w.xim.ic), Xpra!Event("sync", w.order.pending, w.xim.ic)>>]
      BY <2>1, <2>3 DEF Xpra!SendFragment
    <3>2. w.xim.left # 0
      BY <1>1, <1>10
    <3>3. Continues(w, x)
      BY <1>1, <3>1, <3>2, Continued, Zenon
    <3>4. Outer(x, y, app, toBus, parts, xdoc)
      BY <1>1, <1>4, <1>5, <3>3, ContinuesKeeps
    <3>5. Serves(w, x, parts) /\ Loop(x)
      BY <3>3, SameServes DEF Continues
    <3>6. QED
      BY <3>4, <3>5 DEF Handles
  <2>4. QED
    BY <2>2, <2>3
<1>11. CASE ~(w.xim.focused = w.xim.ic /\ w.xim.left > 0)
  <2>1. PICK ok : ok = (w.xim.focused = w.xim.ic)
    BY Zenon
  <2>2. x = Xpra!Completed(z, w.xim.focused = w.xim.ic)
    BY <1>3, <1>6, <1>11, Zenon DEF Xpra!Synced
  <2>3. CASE w.xim.focused # w.xim.ic
    <3>1. Fails(z, x)
      BY <2>2, <2>3, Zenon DEF Fails
    <3>2. QED
      BY <1>9, <3>1
  <2>4. CASE w.xim.focused = w.xim.ic
    <3>1. Succeeds(z, x)
      BY <2>2, <2>4, Zenon DEF Succeeds
    <3>2. Done(w, x)
      BY <1>1, <1>8, <3>1, TextDone
    <3>3. w.xim.left = 0
      BY <1>1, <1>11, <2>4, XpraAssumption
    <3>4. parts[w.order.pending] \in Nat
      BY <1>1
    <3>5. parts[w.order.pending] = w.req[w.order.pending].size
      BY <1>5, <3>3, <3>4 DEF Quieted, Left, Asked
    <3>6. Quiet(w, y) /\ Contexts(w, y, app) /\ Fragmented(w, y, app)
      BY <1>5 DEF Quieted
    <3>7. Outer(x, y, app, toBus, parts, xdoc)
      BY <1>1, <1>4, <3>2, <3>5, <3>6, DoneKeeps
    <3>8. Serves(w, x, parts) /\ Loop(x)
      BY <3>2, <3>5 DEF Done, Serves, Arrived
    <3>9. QED
      BY <3>7, <3>8 DEF Handles
  <2>5. QED
    BY <2>3, <2>4
<1>12. QED
  BY <1>10, <1>11

\* A message of the application is read.
LEMMA ReadXimFollows ==
  ASSUME NEW w, State(w), NEW encodes \in BOOLEAN, Xpra!ReadXim(encodes) PROVE \E x : Follows(w, x)
<1>1. PICK q, y, m : q = toXim /\ y = Tail(q) /\ m = Head(q)
  OBVIOUS
<1>2. PICK x : x = Xpra!Callback(m, encodes)
  OBVIOUS
<1>3. /\ Loop(w) /\ w.xim = xim /\ w = Xpra!Whole /\ q \in Seq(Sayings) /\ q # <<>> /\ ~w.xim.lost /\ Xpra!Becomes(x)
      /\ toXim' = y /\ UNCHANGED <<toBus, app, parts, xdoc>>
  BY <1>1, <1>2 DEF State, Here, Xpra!ReadXim
<1>4. y \in Seq(Sayings) /\ Behead(q, y) /\ m = q[1] /\ m \in Sayings
  BY <1>1, <1>3, Beheaded
<1>5. Heard(w, m, encodes, x)
  BY <1>2, <1>3 DEF Heard
<1>6. CASE m.what \in {"create", "focus", "unfocus"}
  <2>1. Attends(w, x, q, y)
    BY <1>3, <1>4, <1>5, <1>6, FocusHeard
  <2>2. QED
    BY <1>1, <1>3, <1>4, <2>1, AttendsFollows
<1>7. CASE m.what = "sync" /\ m.ic # w.xim.ic
  <2>1. x = w
    BY <1>2, <1>3, <1>7 DEF Xpra!Callback
  <2>2. Attends(w, x, q, y)
    BY <1>3, <1>4, <1>7, <2>1, StillAttends
  <2>3. QED
    BY <1>1, <1>3, <1>4, <2>2, AttendsFollows
<1>8. CASE m.what = "sync" /\ m.ic = w.xim.ic
  <2>1. Handles(w, y, x)
    BY <1>1, <1>4, <1>5, <1>8, SyncHeard
  <2>2. QED
    BY <1>3, <1>4, <2>1, ServesReads DEF Handles
<1>9. CASE m.what = "destroy"
  <2>1. Handles(w, y, x)
    BY <1>1, <1>3, <1>4, <1>5, <1>9, DestroyHeard
  <2>2. QED
    BY <1>3, <1>4, <2>1, ServesReads DEF Handles
<1>10. m.what \in {"create", "focus", "unfocus", "sync", "destroy"}
  BY <1>4 DEF Sayings
<1>11. QED
  BY <1>6, <1>7, <1>8, <1>9, <1>10

(* The application *)
\* The world that it leaves, when it reads an event and when it does not
LEMMA FirstReads ==
  ASSUME NEW w, State(w), NEW what, Xpra!First(what), UNCHANGED Xpra!unserved
  PROVE  /\ \E v : Reads(w, v) /\ Xpra!Whole' = v /\ Loop(v)
         /\ w.toApp[1] = Head(toApp) /\ w.toApp[1].what = what /\ w.toApp[1] \in XpraEvent /\ app.state = "idle"
<1>1. /\ Loop(w) /\ w \in Loops /\ w = Xpra!Whole /\ w.toApp = toApp /\ toApp # <<>> /\ Head(toApp).what = what
      /\ toApp' = Tail(toApp) /\ app.state = "idle" /\ w.toApp \in Seq(XpraEvent)
  BY LoopFields DEF State, Here, Loop, Core, Xpra!First, Xpra!Idle
<1>2. PICK v : v = [w EXCEPT !.toApp = Tail(w.toApp)]
  OBVIOUS
<1>3. Reads(w, v) /\ Head(w.toApp) = w.toApp[1]
  BY <1>1, <1>2, ReadingReads DEF Reading
<1>4. Loop(v)
  BY <1>1, <1>3, ReadsLoop
<1>5. Xpra!Whole' = v
  BY <1>1, <1>2 DEF Xpra!Whole, Xpra!unserved
<1>6. w.toApp[1] \in XpraEvent
  BY <1>1, <1>3, Beheaded
<1>7. QED
  BY <1>1, <1>3, <1>4, <1>5, <1>6

\* It changes nothing of the loop.
LEMMA SameWorld ==
  ASSUME NEW w, State(w), UNCHANGED Xpra!unserved, UNCHANGED toApp PROVE Xpra!Whole' = w /\ Loop(w)
  BY DEF State, Here, Xpra!Whole, Xpra!unserved

\* What the step of the application leads to
LEMMA ActsFollows ==
  ASSUME NEW w, State(w), NEW v, Xpra!Whole' = v, Loop(v), v.req = w.req, Typed',
         Outer(v, toXim', app', toBus', parts', xdoc'), xdoc' = xdoc \/ \E s \in Stamps : Inserting(v, xdoc, s, xdoc')
  PROVE  Follows(w, v)
<1>1. Falls(w, v)
  BY DEF Falls, SameAsked
<1>2. QED
  BY <1>1 DEF Follows, Outcome, Acts

\* The document after it
LEMMA InsertedInserts == ASSUME NEW s, Xpra!Inserted(s) PROVE Inserts(xdoc, s, xdoc')
  BY DEF Xpra!Inserted, Inserts

\* It reads a key.
LEMMA AppKeyFollows == ASSUME NEW w, State(w), Xpra!AppKey PROVE \E x : Follows(w, x)
<1>1. Xpra!First("key") /\ UNCHANGED Xpra!unserved /\ UNCHANGED <<toXim, toBus, app, parts>> /\ Xpra!Inserted(Head(toApp).s)
  BY DEF Xpra!AppKey
<1>2. PICK v : Reads(w, v) /\ Xpra!Whole' = v /\ Loop(v)
  BY <1>1, FirstReads
<1>3. w.toApp[1] = Head(toApp) /\ w.toApp[1].what = "key" /\ w.toApp[1].s \in Stamps /\ app.state = "idle"
  BY <1>1, FirstReads DEF XpraEvent
<1>4. Inserts(xdoc, w.toApp[1].s, xdoc')
  BY <1>1, <1>3, InsertedInserts
<1>5. Loop(w) /\ Outer(w, toXim, app, toBus, parts, xdoc) /\ xdoc \in Seq(Stamps) /\ app \in Apps /\ toBus \in Seq(BusCalls)
      /\ toXim \in Seq(Sayings) /\ parts \in [Stamps -> Nat]
  BY DEF State, Here
<1>6. Outer(v, toXim, app, toBus, parts, xdoc') /\ Inserting(v, xdoc, w.toApp[1].s, xdoc')
  BY <1>2, <1>3, <1>4, <1>5, KeyReadKeeps
<1>7. Typed'
  BY <1>1, <1>5, <1>6 DEF Typed, Inserting
<1>8. v.req = w.req
  BY <1>2 DEF Reads
<1>9. QED
  BY <1>1, <1>2, <1>3, <1>6, <1>7, <1>8, ActsFollows

\* A call of its module follows the others.
LEMMA CallFollows ==
  ASSUME toBus \in Seq(BusCalls), NEW c \in BusCalls, toBus' = Append(toBus, c)
  PROVE  /\ toBus' \in Seq(BusCalls)
         /\ \A i \in 1..Len(toBus') : (\E j \in 1..Len(toBus) : toBus'[i] = toBus[j]) \/ toBus'[i] = c
<1>1. PICK q, r : q = toBus /\ r = toBus'
  OBVIOUS
<1>2. r \in Seq(BusCalls) /\ Behind(q, c, r)
  BY <1>1, Appended
<1>3. ASSUME NEW i \in 1..Len(r) PROVE (\E j \in 1..Len(q) : r[i] = q[j]) \/ r[i] = c
  BY <1>2 DEF Behind
<1>4. QED
  BY <1>1, <1>2, <1>3

\* It reads a marker, and its module may ask for the text.
LEMMA AppMarkerFollows == ASSUME NEW w, State(w), NEW asks \in BOOLEAN, Xpra!AppMarker(asks) PROVE \E x : Follows(w, x)
<1>1. Xpra!First("marker") /\ UNCHANGED Xpra!unserved /\ UNCHANGED <<toXim, parts, xdoc>>
  BY DEF Xpra!AppMarker
<1>2. PICK v : Reads(w, v) /\ Xpra!Whole' = v /\ Loop(v)
  BY <1>1, FirstReads
<1>3. w.toApp[1] = Head(toApp) /\ w.toApp[1].what = "marker" /\ w.toApp[1].n \in 0..MaxMarker /\ app.state = "idle"
  BY <1>1, FirstReads DEF XpraEvent
<1>4. Loop(w) /\ Outer(w, toXim, app, toBus, parts, xdoc) /\ xdoc \in Seq(Stamps) /\ app \in Apps /\ toBus \in Seq(BusCalls)
      /\ toXim \in Seq(Sayings) /\ parts \in [Stamps -> Nat]
  BY DEF State, Here
<1>5. PICK c : c = Xpra!Call("take", w.toApp[1].n)
  OBVIOUS
<1>6. c \in BusCalls /\ c.call = "take"
  BY <1>3, <1>5 DEF Xpra!Call, BusCalls
<1>7. \/ /\ toBus' = Append(toBus, c) /\ app' = [app EXCEPT !.state = "asking", !.number = w.toApp[1].n]
      \/ toBus' = toBus /\ app' = app
  BY <1>3, <1>5 DEF Xpra!AppMarker
<1>8. Wonders(w, app, app')
  BY <1>7 DEF Wonders
<1>9. /\ toBus' \in Seq(BusCalls)
      /\ \A i \in 1..Len(toBus') : toBus'[i].call = "done" => \E j \in 1..Len(toBus) : toBus[j] = toBus'[i]
  <2>1. CASE toBus' = Append(toBus, c)
    BY <1>4, <1>6, <2>1, CallFollows
  <2>2. CASE toBus' = toBus
    BY <1>4, <2>2
  <2>3. QED
    BY <1>7, <2>1, <2>2
<1>10. app' \in Apps /\ Outer(v, toXim, app', toBus', parts, xdoc)
  BY <1>2, <1>3, <1>4, <1>8, <1>9, MarkerReadKeeps
<1>11. Typed'
  BY <1>1, <1>4, <1>9, <1>10 DEF Typed
<1>12. v.req = w.req
  BY <1>2 DEF Reads
<1>13. QED
  BY <1>1, <1>2, <1>10, <1>11, <1>12, ActsFollows

\* It reads a fragment.
LEMMA AppCommitFollows == ASSUME NEW w, State(w), Xpra!AppCommit PROVE \E x : Follows(w, x)
<1>1. Xpra!First("commit") /\ UNCHANGED Xpra!unserved /\ UNCHANGED <<toXim, toBus, app>>
  BY DEF Xpra!AppCommit
<1>2. PICK v : Reads(w, v) /\ Xpra!Whole' = v /\ Loop(v)
  BY <1>1, FirstReads
<1>3. w.toApp[1] = Head(toApp) /\ w.toApp[1].what = "commit" /\ w.toApp[1].s \in Stamps /\ app.state = "idle"
  BY <1>1, FirstReads DEF XpraEvent
<1>4. Loop(w) /\ Outer(w, toXim, app, toBus, parts, xdoc) /\ xdoc \in Seq(Stamps) /\ app \in Apps /\ toBus \in Seq(BusCalls)
      /\ toXim \in Seq(Sayings) /\ parts \in [Stamps -> Nat]
  BY DEF State, Here
<1>5. PICK s : s = w.toApp[1].s
  OBVIOUS
<1>6. CASE w.toApp[1].ic \in app.alive
  <2>1. Inserts(xdoc, s, xdoc') /\ parts' = [parts EXCEPT ![s] = @ + 1]
    BY <1>3, <1>5, <1>6, InsertedInserts DEF Xpra!AppCommit
  <2>2. parts' \in [Stamps -> Nat] /\ parts'[s] = parts[s] + 1 /\ \A t \in Stamps : t # s => parts'[t] = parts[t]
    BY <1>3, <1>4, <1>5, <2>1
  <2>3. Counts(w, app, parts, parts')
    BY <1>5, <1>6, <2>2 DEF Counts
  <2>4. IF w.toApp[1].ic \in app.alive THEN Inserts(xdoc, w.toApp[1].s, xdoc') ELSE xdoc' = xdoc
    BY <1>5, <1>6, <2>1
  <2>5. Outer(v, toXim, app, toBus, parts', xdoc') /\ (xdoc' = xdoc \/ Inserting(v, xdoc, w.toApp[1].s, xdoc'))
    BY <1>2, <1>3, <1>4, <2>3, <2>4, CommitReadKeeps
  <2>6. Typed'
    BY <1>1, <1>4, <2>2, <2>5 DEF Typed, Inserting
  <2>7. v.req = w.req
    BY <1>2 DEF Reads
  <2>8. QED
    BY <1>1, <1>2, <1>3, <2>5, <2>6, <2>7, ActsFollows
<1>7. CASE w.toApp[1].ic \notin app.alive
  <2>1. parts' = parts /\ xdoc' = xdoc
    BY <1>3, <1>7 DEF Xpra!AppCommit
  <2>2. Counts(w, app, parts, parts')
    BY <1>4, <1>7, <2>1 DEF Counts
  <2>3. IF w.toApp[1].ic \in app.alive THEN Inserts(xdoc, w.toApp[1].s, xdoc') ELSE xdoc' = xdoc
    BY <1>7, <2>1
  <2>4. Outer(v, toXim, app, toBus, parts', xdoc')
    BY <1>2, <1>3, <1>4, <2>2, <2>3, CommitReadKeeps
  <2>5. Typed'
    BY <1>1, <1>4, <2>1 DEF Typed
  <2>6. v.req = w.req
    BY <1>2 DEF Reads
  <2>7. QED
    BY <1>1, <1>2, <2>1, <2>4, <2>5, <2>6, ActsFollows
<1>8. QED
  BY <1>6, <1>7

\* It reads a sync, and answers it.
LEMMA AppSyncFollows == ASSUME NEW w, State(w), Xpra!AppSync PROVE \E x : Follows(w, x)
<1>1. Xpra!First("sync") /\ UNCHANGED Xpra!unserved /\ UNCHANGED <<toBus, app, parts, xdoc>>
  BY DEF Xpra!AppSync
<1>2. PICK v : Reads(w, v) /\ Xpra!Whole' = v /\ Loop(v)
  BY <1>1, FirstReads
<1>3. w.toApp[1] = Head(toApp) /\ w.toApp[1].what = "sync" /\ w.toApp[1] \in XpraEvent /\ app.state = "idle"
  BY <1>1, FirstReads
<1>4. Loop(w) /\ Outer(w, toXim, app, toBus, parts, xdoc) /\ xdoc \in Seq(Stamps) /\ app \in Apps /\ toBus \in Seq(BusCalls)
      /\ toXim \in Seq(Sayings) /\ parts \in [Stamps -> Nat]
  BY DEF State, Here
<1>5. PICK q, y : q = toXim /\ y = toXim'
  OBVIOUS
<1>6. Replies(w, app, q, y) /\ y \in Seq(Sayings)
  <2>1. CASE w.toApp[1].ic \in app.alive
    <3>1. PICK m : m = Xpra!Says("sync", w.toApp[1].ic)
      OBVIOUS
    <3>2. y = Append(q, m)
      BY <1>3, <1>5, <2>1, <3>1 DEF Xpra!AppSync
    <3>3. m \in Sayings /\ m.what = "sync" /\ m.ic = w.toApp[1].ic
      BY <1>4, <2>1, <3>1 DEF Xpra!Says, Sayings, Apps
    <3>4. y \in Seq(Sayings) /\ Behind(q, m, y)
      BY <1>4, <1>5, <3>2, <3>3, Appended
    <3>5. QED
      BY <2>1, <3>3, <3>4 DEF Replies
  <2>2. CASE w.toApp[1].ic \notin app.alive
    <3>1. y = q
      BY <1>3, <1>5, <2>2 DEF Xpra!AppSync
    <3>2. QED
      BY <1>4, <1>5, <2>2, <3>1 DEF Replies
  <2>3. QED
    BY <2>1, <2>2
<1>7. Outer(v, y, app, toBus, parts, xdoc)
  BY <1>2, <1>3, <1>4, <1>5, <1>6, SyncReadKeeps
<1>8. Typed'
  BY <1>1, <1>4, <1>5, <1>6 DEF Typed
<1>9. v.req = w.req
  BY <1>2 DEF Reads
<1>10. QED
  BY <1>1, <1>2, <1>5, <1>7, <1>8, <1>9, ActsFollows

\* The editor has the text.
LEMMA AppInsertFollows == ASSUME NEW w, State(w), Xpra!AppInsert PROVE \E x : Follows(w, x)
<1>1. /\ UNCHANGED Xpra!unserved /\ UNCHANGED <<toApp, toXim, toBus>> /\ app.state = "got"
      /\ Inserts(xdoc, app.text, xdoc') /\ Puts(w, app, parts, app', parts')
  BY InsertedInserts DEF Xpra!AppInsert, Puts, State, Here
<1>2. Loop(w) /\ Outer(w, toXim, app, toBus, parts, xdoc) /\ xdoc \in Seq(Stamps) /\ app \in Apps /\ toBus \in Seq(BusCalls)
      /\ toXim \in Seq(Sayings) /\ parts \in [Stamps -> Nat]
  BY DEF State, Here
<1>3. /\ app' \in Apps /\ parts' \in [Stamps -> Nat] /\ Outer(w, toXim, app', toBus, parts', xdoc')
      /\ Inserting(w, xdoc, app.text, xdoc')
  BY <1>1, <1>2, PutsKeeps
<1>4. app.text \in Stamps
  BY <1>1, <1>2 DEF Outer, Holding
<1>5. Typed'
  BY <1>1, <1>2, <1>3 DEF Typed, Inserting
<1>6. Xpra!Whole' = w
  BY <1>1, SameWorld
<1>7. QED
  BY <1>1, <1>2, <1>3, <1>4, <1>5, <1>6, ActsFollows

\* It stops waiting, or its module calls.
LEMMA QuitsFollows ==
  ASSUME NEW w, State(w), UNCHANGED Xpra!unserved, UNCHANGED <<toApp, toXim, parts, xdoc>>,
         app' \in Apps, Quits(w, app, app', xdoc), toBus' \in Seq(BusCalls),
         \A i \in 1..Len(toBus') : toBus'[i].call = "done" =>
           (\E j \in 1..Len(toBus) : toBus[j] = toBus'[i]) \/ toBus'[i].n \in app.dones
  PROVE  \E x : Follows(w, x)
<1>1. Loop(w) /\ Outer(w, toXim, app, toBus, parts, xdoc) /\ xdoc \in Seq(Stamps) /\ app \in Apps /\ toBus \in Seq(BusCalls)
      /\ toXim \in Seq(Sayings) /\ parts \in [Stamps -> Nat]
  BY DEF State, Here
<1>2. Outer(w, toXim, app', toBus', parts, xdoc)
  BY <1>1, QuitsKeeps
<1>3. Typed'
  BY <1>1 DEF Typed
<1>4. Xpra!Whole' = w
  BY SameWorld
<1>5. QED
  BY <1>1, <1>2, <1>3, <1>4, ActsFollows

\* It stops waiting for the text.
LEMMA AppStopsFollows == ASSUME NEW w, State(w), Xpra!AppStopsWaiting PROVE \E x : Follows(w, x)
<1>1. app \in Apps /\ toBus \in Seq(BusCalls)
  BY DEF State, Here
<1>2. /\ UNCHANGED Xpra!unserved /\ UNCHANGED <<toApp, toXim, toBus, parts, xdoc>> /\ app' = [app EXCEPT !.state = "idle"]
  BY DEF Xpra!AppStopsWaiting
<1>3. app' \in Apps /\ Quits(w, app, app', xdoc)
  BY <1>1, <1>2 DEF Apps, Quits
<1>4. QED
  BY <1>1, <1>2, <1>3, QuitsFollows

\* Its module calls.
LEMMA CallsFollow ==
  ASSUME NEW w, State(w), UNCHANGED Xpra!unserved, UNCHANGED <<toApp, toXim, parts, xdoc>>,
         app' \in Apps, Quits(w, app, app', xdoc), NEW c \in BusCalls, toBus' = Append(toBus, c),
         c.call = "done" => c.n \in app.dones
  PROVE  \E x : Follows(w, x)
<1>1. toBus \in Seq(BusCalls)
  BY DEF State, Here
<1>2. /\ toBus' \in Seq(BusCalls)
      /\ \A i \in 1..Len(toBus') : (\E j \in 1..Len(toBus) : toBus'[i] = toBus[j]) \/ toBus'[i] = c
  BY <1>1, CallFollows
<1>3. ASSUME NEW i \in 1..Len(toBus'), toBus'[i].call = "done"
      PROVE  (\E j \in 1..Len(toBus) : toBus[j] = toBus'[i]) \/ toBus'[i].n \in app.dones
  BY <1>2, <1>3
<1>4. QED
  BY <1>2, <1>3, QuitsFollows

\* Its module says that the text was inserted.
LEMMA AppDoneFollows == ASSUME NEW w, State(w), NEW n \in 1..MaxMarker, Xpra!AppDone(n) PROVE \E x : Follows(w, x)
<1>1. PICK c : c = Xpra!Call("done", n)
  OBVIOUS
<1>2. /\ UNCHANGED Xpra!unserved /\ UNCHANGED <<toApp, toXim, parts, xdoc>> /\ app' = [app EXCEPT !.dones = @ \ {n}]
      /\ toBus' = Append(toBus, c) /\ n \in app.dones
  BY <1>1 DEF Xpra!AppDone
<1>3. app \in Apps
  BY DEF State, Here
<1>4. n \in 0..MaxMarker
  BY <1>2, <1>3 DEF Apps
<1>5. c \in BusCalls /\ c.call = "done" /\ c.n = n
  BY <1>1, <1>4 DEF Xpra!Call, BusCalls
<1>6. app' \in Apps /\ Quits(w, app, app', xdoc)
  BY <1>2, <1>3 DEF Apps, Quits
<1>7. QED
  BY <1>2, <1>5, <1>6, CallsFollow

\* Its module registers.
LEMMA AppRegisterFollows ==
  ASSUME NEW w, State(w), NEW version \in {"ready", "unsupported"}, Xpra!AppRegister(version) PROVE \E x : Follows(w, x)
<1>1. PICK c : c = Xpra!Call(version, 0)
  OBVIOUS
<1>2. PICK m : m = IF version = "ready" THEN "here" ELSE "gone"
  OBVIOUS
<1>3. /\ UNCHANGED Xpra!unserved /\ UNCHANGED <<toApp, toXim, parts, xdoc>> /\ app' = [app EXCEPT !.module = m]
      /\ toBus' = Append(toBus, c)
  BY <1>1, <1>2 DEF Xpra!AppRegister
<1>4. app \in Apps /\ 0 \in 0..MaxMarker
  BY XpraAssumption DEF State, Here
<1>5. c \in BusCalls /\ c.call # "done"
  BY <1>1, <1>4 DEF Xpra!Call, BusCalls
<1>6. m \in {"here", "gone"}
  BY <1>2
<1>7. app' \in Apps /\ Quits(w, app, app', xdoc)
  BY <1>3, <1>4, <1>6 DEF Apps, Quits
<1>8. QED
  BY <1>3, <1>5, <1>7, CallsFollow

\* Its module ends.
LEMMA AppGoneFollows == ASSUME NEW w, State(w), Xpra!AppGone PROVE \E x : Follows(w, x)
<1>1. PICK c : c = Xpra!Call("gone", 0)
  OBVIOUS
<1>2. /\ UNCHANGED Xpra!unserved /\ UNCHANGED <<toApp, toXim, parts, xdoc>>
      /\ app' = [app EXCEPT !.module = "gone", !.state = "idle", !.dones = {}] /\ toBus' = Append(toBus, c)
  BY <1>1 DEF Xpra!AppGone
<1>3. app \in Apps /\ 0 \in 0..MaxMarker
  BY XpraAssumption DEF State, Here
<1>4. c \in BusCalls /\ c.call # "done"
  BY <1>1, <1>3 DEF Xpra!Call, BusCalls
<1>5. app' \in Apps /\ Quits(w, app, app', xdoc)
  BY <1>2, <1>3 DEF Apps, Quits
<1>6. QED
  BY <1>2, <1>4, <1>5, CallsFollow

\* It says something of one of its contexts.
LEMMA SaysFollows ==
  ASSUME NEW w, State(w), UNCHANGED Xpra!unserved, UNCHANGED <<toApp, toBus, parts, xdoc>>, NEW m \in Sayings,
         toXim' = Append(toXim, m), Creates(app, app', m) \/ Destroys(app, app', m) \/ Notes(app, app', m)
  PROVE  \E x : Follows(w, x)
<1>1. Loop(w) /\ Outer(w, toXim, app, toBus, parts, xdoc) /\ xdoc \in Seq(Stamps) /\ app \in Apps /\ toBus \in Seq(BusCalls)
      /\ toXim \in Seq(Sayings) /\ parts \in [Stamps -> Nat]
  BY DEF State, Here
<1>2. PICK q, y : q = toXim /\ y = toXim'
  OBVIOUS
<1>3. y \in Seq(Sayings) /\ Behind(q, m, y)
  BY <1>1, <1>2, Appended
<1>4. app' \in Apps /\ Outer(w, y, app', toBus, parts, xdoc)
  <2>1. CASE Creates(app, app', m)
    BY <1>1, <1>2, <1>3, <2>1, CreatesKeeps
  <2>2. CASE Destroys(app, app', m)
    BY <1>1, <1>2, <1>3, <2>2, DestroysKeeps
  <2>3. CASE Notes(app, app', m)
    <3>1. app' = app
      BY <2>3 DEF Notes
    <3>2. Outer(w, y, app', toBus, parts, xdoc)
      BY <1>1, <1>2, <1>3, <2>3, NotesKeeps
    <3>3. QED
      BY <1>1, <3>1, <3>2
  <2>4. QED
    BY <2>1, <2>2, <2>3
<1>5. Typed'
  BY <1>1, <1>2, <1>3, <1>4 DEF Typed
<1>6. Xpra!Whole' = w
  BY SameWorld
<1>7. QED
  BY <1>1, <1>2, <1>4, <1>5, <1>6, ActsFollows

\* The input contexts come, get the focus, lose it and go.
LEMMA AppContextFollows == ASSUME NEW w, State(w), NEW ic \in ICs, Xpra!AppContext(ic) PROVE \E x : Follows(w, x)
<1>1. UNCHANGED Xpra!unserved /\ UNCHANGED <<toApp, toBus, parts, xdoc>>
  BY DEF Xpra!AppContext
<1>2. CASE /\ ic \notin app.created /\ app' = [app EXCEPT !.created = @ \cup {ic}, !.alive = @ \cup {ic}]
           /\ \E utf8 \in BOOLEAN : toXim' = Append(toXim, [Xpra!Says("create", ic) EXCEPT !.utf8 = utf8])
  <2>1. PICK utf8 \in BOOLEAN : toXim' = Append(toXim, [Xpra!Says("create", ic) EXCEPT !.utf8 = utf8])
    BY <1>2
  <2>2. PICK m : m = [Xpra!Says("create", ic) EXCEPT !.utf8 = utf8]
    OBVIOUS
  <2>3. m \in Sayings /\ m.what = "create" /\ m.ic = ic
    BY <2>2 DEF Xpra!Says, Sayings
  <2>4. Creates(app, app', m)
    BY <1>2, <2>3 DEF Creates
  <2>5. QED
    BY <1>1, <2>1, <2>2, <2>3, <2>4, SaysFollows
<1>3. CASE ic \in app.alive /\ (\E what \in {"focus", "unfocus"} : toXim' = Append(toXim, Xpra!Says(what, ic))) /\ app' = app
  <2>1. PICK what \in {"focus", "unfocus"} : toXim' = Append(toXim, Xpra!Says(what, ic))
    BY <1>3
  <2>2. PICK m : m = Xpra!Says(what, ic)
    OBVIOUS
  <2>3. m \in Sayings /\ m.what = what /\ m.ic = ic
    BY <2>2 DEF Xpra!Says, Sayings
  <2>4. Notes(app, app', m)
    BY <1>3, <2>3 DEF Notes
  <2>5. QED
    BY <1>1, <2>1, <2>2, <2>3, <2>4, SaysFollows
<1>4. CASE ic \in app.alive /\ toXim' = Append(toXim, Xpra!Says("destroy", ic)) /\ app' = [app EXCEPT !.alive = @ \ {ic}]
  <2>1. PICK m : m = Xpra!Says("destroy", ic)
    OBVIOUS
  <2>2. m \in Sayings /\ m.what = "destroy" /\ m.ic = ic
    BY <2>1 DEF Xpra!Says, Sayings
  <2>3. Destroys(app, app', m)
    BY <1>4, <2>2 DEF Destroys
  <2>4. QED
    BY <1>1, <1>4, <2>1, <2>2, <2>3, SaysFollows
<1>5. QED
  BY <1>2, <1>3, <1>4, Zenon DEF Xpra!AppContext

(* Every step *)
LEMMA ViewerFollows ==
  ASSUME NEW w, State(w), NEW v \in Viewers,
         \/ Xpra!ViewerStep(v)
         \/ Xpra!Overflow(v) \/ Xpra!Unsound(v) \/ Xpra!Malformed(v) \/ Xpra!HangUp(v)
  PROVE  \E x : Follows(w, x)
<1>1. 1 \in 1..MaxFragments
  BY XpraAssumption
<1>2. Xpra!Fragments = 1..MaxFragments
  BY DEF Xpra!Fragments
<1>3. ASSUME NEW size \in Xpra!Fragments, Xpra!Enqueue(v, "text", size) PROVE \E x : Follows(w, x)
  BY <1>2, <1>3, EnqueueFollows
<1>4. CASE Xpra!Enqueue(v, "down", 1)
  BY <1>1, <1>4, EnqueueFollows
<1>5. CASE Xpra!CleanUp(v)
  BY <1>5, CleanUpFollows
<1>6. CASE Xpra!Overflow(v) \/ Xpra!Malformed(v)
  BY <1>6, OverflowFollows
<1>7. CASE Xpra!Unsound(v)
  BY <1>7, UnsoundFollows
<1>8. CASE Xpra!HangUp(v)
  BY <1>8, HangUpFollows
<1>9. QED
  BY <1>3, <1>4, <1>5, <1>6, <1>7, <1>8 DEF Xpra!ViewerStep

\* The steps of the loop
LEMMA LoopFollows == ASSUME NEW w, State(w), Xpra!LoopStep PROVE \E x : Follows(w, x)
<1>1. ASSUME NEW b \in BOOLEAN, Xpra!DrainXim(b) \/ Xpra!ReadXim(b) \/ Xpra!Take(b) PROVE \E x : Follows(w, x)
  BY <1>1, DrainXimFollows, ReadXimFollows, TakeFollows
<1>2. ASSUME NEW clock \in 1..MaxMarker, NEW b \in BOOLEAN, Xpra!DrainToolkit(clock, b) PROVE \E x : Follows(w, x)
  BY <1>2, DrainToolkitFollows
<1>3. \/ Xpra!DrainDropped \/ Xpra!DrainKey \/ Xpra!Done \/ Xpra!Register \/ Xpra!OwnerChanged
      \/ (\E b \in BOOLEAN : Xpra!DrainXim(b) \/ Xpra!ReadXim(b) \/ Xpra!Take(b))
      \/ (\E clock \in 1..MaxMarker, b \in BOOLEAN : Xpra!DrainToolkit(clock, b))
  BY Zenon DEF Xpra!LoopStep
<1>4. QED
  BY <1>1, <1>2, <1>3, DroppedFollows, DrainKeyFollows, DoneFollows, RegisterFollows, OwnerChangedFollows

\* The steps of the application
LEMMA AppFollows == ASSUME NEW w, State(w), Xpra!AppStep PROVE \E x : Follows(w, x)
<1>1. ASSUME NEW b \in BOOLEAN, Xpra!AppMarker(b) PROVE \E x : Follows(w, x)
  BY <1>1, AppMarkerFollows
<1>2. ASSUME NEW version \in {"ready", "unsupported"}, Xpra!AppRegister(version) PROVE \E x : Follows(w, x)
  BY <1>2, AppRegisterFollows
<1>3. \/ Xpra!AppKey \/ Xpra!AppInsert \/ Xpra!AppCommit \/ Xpra!AppSync
      \/ (\E b \in BOOLEAN : Xpra!AppMarker(b))
      \/ (\E version \in {"ready", "unsupported"} : Xpra!AppRegister(version))
      \/ (\E n \in 1..MaxMarker : Xpra!AppDone(n)) \/ (\E ic \in ICs : Xpra!AppContext(ic))
  BY Zenon DEF Xpra!AppStep
<1>4. QED
  BY <1>1, <1>2, <1>3, AppKeyFollows, AppInsertFollows, AppCommitFollows, AppSyncFollows, AppDoneFollows, AppContextFollows

\* What goes wrong
LEMMA TroubleFollows == ASSUME NEW w, State(w), Xpra!Trouble PROVE \E x : Follows(w, x)
<1>1. ASSUME NEW b \in BOOLEAN, Xpra!DrainXim(b) \/ Xpra!ReadXim(b) \/ Xpra!Take(b) PROVE \E x : Follows(w, x)
  BY <1>1, DrainXimFollows, ReadXimFollows, TakeFollows
<1>2. ASSUME NEW clock \in 1..MaxMarker, NEW b \in BOOLEAN, Xpra!DrainToolkit(clock, b) PROVE \E x : Follows(w, x)
  BY <1>2, DrainToolkitFollows
<1>3. ASSUME NEW b \in BOOLEAN, Xpra!AppMarker(b) PROVE \E x : Follows(w, x)
  BY <1>3, AppMarkerFollows
<1>4. ASSUME NEW version \in {"ready", "unsupported"}, Xpra!AppRegister(version) PROVE \E x : Follows(w, x)
  BY <1>4, AppRegisterFollows
<1>5. \/ Xpra!DrainRefused \/ Xpra!Expire \/ Xpra!CloseServer \/ Xpra!XimLost \/ Xpra!AppStopsWaiting \/ Xpra!AppGone
      \/ (\E b \in BOOLEAN : Xpra!DrainXim(b) \/ Xpra!ReadXim(b) \/ Xpra!Take(b))
      \/ (\E clock \in 1..MaxMarker, b \in BOOLEAN : Xpra!DrainToolkit(clock, b))
      \/ (\E v \in Viewers : Xpra!Overflow(v) \/ Xpra!Unsound(v) \/ Xpra!Malformed(v) \/ Xpra!HangUp(v))
      \/ (\E b \in BOOLEAN : Xpra!AppMarker(b))
      \/ (\E version \in {"ready", "unsupported"} : Xpra!AppRegister(version))
  BY Zenon DEF Xpra!Trouble
<1>6. QED
  BY <1>1, <1>2, <1>3, <1>4, <1>5, ViewerFollows, DrainRefusedFollows, ExpireFollows, CloseFollows, XimLostFollows,
     AppStopsFollows, AppGoneFollows

\* Every step leads to a world in order.
LEMMA NextFollows == ASSUME NEW w, State(w), Xpra!Next PROVE \E x : Follows(w, x)
<1>1. Xpra!LoopStep \/ Xpra!AppStep \/ Xpra!Trouble \/ \E v \in Viewers : Xpra!ViewerStep(v)
  BY DEF Xpra!Next
<1>2. QED
  BY <1>1, LoopFollows, AppFollows, TroubleFollows, ViewerFollows

(* The invariant *)
LEMMA XpraStarts == ASSUME Xpra!Init PROVE XpraInv
<1> USE XpraAssumption
<1>1. PICK w : w = Xpra!Whole
  OBVIOUS
<1>2. /\ w.viewers = viewers /\ w.order = order /\ w.toolkit = toolkit /\ w.xim = xim /\ w.toApp = toApp /\ w.req = xreq
      /\ w = [viewers |-> viewers, order |-> order, toolkit |-> toolkit, xim |-> xim, toApp |-> toApp, req |-> xreq]
  BY <1>1 DEF Xpra!Whole
<1>3. /\ order = Xpra!NoOrder /\ toolkit = Xpra!NoModule /\ xim = Xpra!NoFocus
      /\ toApp = <<>> /\ toXim = <<>> /\ toBus = <<>> /\ xdoc = <<>>
      /\ parts = [s \in Stamps |-> 0]
  BY DEF Xpra!Init
<1>4. viewers \in [Viewers -> [open : BOOLEAN, failed : BOOLEAN]]
  BY DEF Xpra!Init
<1>5. xreq \in [Stamps -> XpraRequest] /\ \A s \in Stamps : xreq[s] = Xpra!NoRequest
  BY DEF Xpra!Init, Xpra!NoRequest, XpraRequest
<1>6. 0 \in 0..MaxMarker /\ 0 \in 0..MaxFragments
  OBVIOUS
<1>7. app \in Apps /\ app.state = "idle" /\ app.dones = {} /\ app.alive = {} /\ app.created = {} /\ app.number = 0
  <2>1. PICK route \in {"toolkit", "xim"} :
       app = [route |-> route, module |-> "none", state |-> "idle", number |-> 0, text |-> 0,
              dones |-> {}, alive |-> {}, created |-> {}]
    BY DEF Xpra!Init
  <2>2. QED
    BY <1>6, <2>1 DEF Apps
<1>8. order \in Schedule /\ order.queue = {} /\ order.pending = 0 /\ ~order.draining /\ ~order.closed
  BY <1>3 DEF Xpra!NoOrder, Schedule
<1>9. toolkit \in Modules /\ toolkit.text.op = 0 /\ toolkit.text.number = 0 /\ toolkit.last = 0
  BY <1>3, <1>6 DEF Xpra!NoModule, Xpra!NoText, Modules
<1>10. xim \in Focuses /\ xim.focused = None /\ xim.supported = {} /\ xim.ic = None
  BY <1>3, <1>6 DEF Xpra!NoFocus, Focuses
<1>11. /\ w \in Loops /\ Len(w.toApp) = 0 /\ Len(xdoc) = 0 /\ Len(toXim) = 0 /\ Len(toBus) = 0
  BY <1>2, <1>3, <1>4, <1>5, <1>8, <1>9, <1>10 DEF Loops
<1>12. \A s \in Stamps : w.req[s].status = "none" /\ w.req[s].owner = 0 /\ w.req[s].kind = "none" /\ w.req[s].heard = "nothing"
  BY <1>2, <1>5 DEF Xpra!NoRequest
<1>13. \A i : i \notin 1..0
  OBVIOUS
<1>14. Stamped(w, 0) /\ Owing(w) /\ Sequenced(w)
  BY <1>2, <1>8, <1>12 DEF Stamped, Owing, Sequenced, Waits, Went
<1>15. Bounded(w)
  BY <1>2, <1>8, FS_EmptySet DEF Bounded
<1>16. Adapted(w) /\ Shut(w) /\ Firm(w) /\ Draining(w)
  BY <1>2, <1>8, <1>9, <1>10 DEF Adapted, Shut, Firm, Draining
<1>17. Sent(w)
  BY <1>11, <1>13 DEF Sent
<1>18. Loop(w)
  BY <1>11, <1>14, <1>15, <1>16, <1>17 DEF Loop, Core
<1>19. \A s \in Stamps : parts[s] = 0
  BY <1>3
<1>20. Written(w, xdoc) /\ Counted(w, xdoc, parts)
  BY <1>11, <1>12, <1>13, <1>19 DEF Written, Counted
<1>21. Holding(w, app, xdoc) /\ Told(w, app, toBus, parts)
  BY <1>2, <1>7, <1>9, <1>11, <1>13 DEF Holding, Told
<1>22. Contexts(w, toXim, app) /\ Fragmented(w, toXim, app) /\ Flying(w, toXim, app, parts)
  BY <1>2, <1>7, <1>10, <1>11, <1>13 DEF Contexts, Fragmented, Flying
<1>23. Typed
  BY <1>3, <1>7, <1>19 DEF Typed
<1>24. QED
  BY <1>1, <1>18, <1>20, <1>21, <1>22, <1>23 DEF XpraInv, Outer

\* The invariant is inductive.
LEMMA XpraStep == ASSUME XpraInv, Xpra!Next PROVE XpraInv'
<1>1. PICK w : w = Xpra!Whole
  OBVIOUS
<1>2. PICK x : Follows(w, x)
  BY <1>1, StateWorld, NextFollows
<1>3. QED
  BY <1>2 DEF Follows, XpraInv

\* A step of the other part changes nothing of it.
LEMMA XpraStutters == ASSUME XpraInv, UNCHANGED xpraVars PROVE XpraInv'
<1>1. PICK w : w = Xpra!Whole
  OBVIOUS
<1>2. Loop(w) /\ Typed /\ Outer(w, toXim, app, toBus, parts, xdoc)
  BY <1>1 DEF XpraInv
<1>3. Xpra!Whole' = w
  BY <1>1 DEF Xpra!Whole, xpraVars
<1>4. Typed' /\ Outer(w, toXim', app', toBus', parts', xdoc')
  BY <1>2 DEF Typed, xpraVars
<1>5. QED
  BY <1>2, <1>3, <1>4 DEF XpraInv

\* What the invariant says of input
LEMMA XpraInvOrders == ASSUME XpraInv PROVE NothingPassesText
<1>1. PICK w : State(w)
  BY StateWorld
<1>2. /\ w \in Loops /\ Bounded(w) /\ Owing(w) /\ Sequenced(w) /\ Adapted(w) /\ Firm(w) /\ Counted(w, xdoc, parts)
      /\ w.order = order /\ w.toolkit = toolkit /\ w.xim = xim /\ w.req = xreq /\ app \in Apps
  BY <1>1 DEF State, Here, Loop, Core, Outer
<1>3. Xpra!TypeOK
  <2>1. order.pending \in Stamps \cup {0} /\ toolkit.last \in 0..MaxMarker /\ toolkit.module \in {"none", "ready", "unsupported"}
        /\ xim.cancelled \subseteq ICs /\ xim.left \in 0..MaxFragments
    BY <1>2, LoopFields
  <2>2. Xpra!Cardinality(order.queue) <= MaxQueue
    BY <1>2, SameCardinality DEF Bounded
  <2>3. xim.focused \in xim.supported \cup {None} /\ app.state \in {"idle", "asking", "got"}
    BY <1>2 DEF Adapted, Apps
  <2>4. QED
    BY <2>1, <2>2, <2>3 DEF Xpra!TypeOK
<1>4. ASSUME NEW s \in Stamps, NEW t \in Stamps, t < s, xreq[t].owner = xreq[s].owner, xreq[t].kind = "text",
             xreq[s].status \in {"issued", "confirmed", "failed"}
      PROVE  xreq[t].status = "confirmed"
  <2>1. Went(w, s)
    BY <1>2, <1>4 DEF Went
  <2>2. QED
    BY <1>2, <1>4, <2>1 DEF Sequenced
<1>5. ASSUME NEW s \in Stamps
      PROVE  /\ xreq[s].kind = "text" /\ xreq[s].status = "confirmed" => parts[s] = xreq[s].size
             /\ xreq[s].heard = "success" => xreq[s].status = "confirmed"
             /\ xreq[s].heard = "failure" => xreq[s].status \in {"refused", "failed"}
  BY <1>2 DEF Counted, Owing
<1>6. order.pending # 0 <=> (toolkit.text.op # 0 \/ xim.ic # None)
  BY <1>2 DEF Adapted, Firm
<1>7. QED
  BY <1>3, <1>4, <1>5, <1>6 DEF NothingPassesText, Xpra!NothingPassesText

\* No input of a viewer passes a text of its own that was not confirmed; a confirmed
\* text is in the document whole (the ordered dispatch of input over both adapters).
THEOREM NothingPassesTextHolds == PartsSpec => []NothingPassesText
<1>1. PartsInit => XpraInv
  BY XpraStarts DEF PartsInit
<1>2. XpraInv /\ [PartsNext]_<<part, vars, xpraVars>> => XpraInv'
  BY XpraStep, XpraStutters DEF PartsNext
<1>3. XpraInv => NothingPassesText
  BY XpraInvOrders
<1>4. QED
  BY <1>1, <1>2, <1>3, PTL DEF PartsSpec

(* The contract of ordered, confirmed input *)
\* What the requests of the two worlds are in the contract
Turns(w, x) == State(w) /\ Follows(w, x) /\ w.req = xreq /\ x.req = xreq' /\ xdoc \in Seq(Stamps)

\* The worlds of a step
LEMMA FollowsTurns == ASSUME NEW w, State(w), NEW x, Follows(w, x) PROVE Turns(w, x)
<1>1. Xpra!Whole' = x /\ w.req = xreq /\ xdoc \in Seq(Stamps)
  BY DEF Follows, State, Here
<1>2. x.req = xreq'
  BY <1>1 DEF Xpra!Whole
<1>3. QED
  BY <1>1, <1>2 DEF Turns

\* Nothing is asked of the server at first.
LEMMA XpraContractStarts == ASSUME Xpra!Init PROVE Xpra!Contract!Init
<1>1. \A s \in Stamps : xreq[s].status = "none" /\ xreq[s].owner = 0 /\ xreq[s].kind = "none"
  BY DEF Xpra!Init, Xpra!NoRequest
<1>2. xdoc = <<>>
  BY DEF Xpra!Init
<1>3. QED
  BY <1>1, <1>2 DEF Xpra!Contract!Init

\* Requests that end together are given up, or nothing happens.
LEMMA FallsContract ==
  ASSUME NEW w, NEW x, Turns(w, x), Falls(w, x), xdoc' = xdoc
  PROVE  Xpra!Contract!GiveUp \/ UNCHANGED Xpra!Contract!contractVars
<1> DEFINE gone == {s \in Stamps : xreq'[s].status # xreq[s].status}
<1>1. \A s \in Stamps :
       /\ xreq'[s].owner = xreq[s].owner /\ xreq'[s].kind = xreq[s].kind
       /\ \/ xreq'[s].status = xreq[s].status
          \/ xreq[s].status = "queued" /\ xreq'[s].status = "refused"
          \/ xreq[s].status = "issued" /\ xreq'[s].status = "failed"
  BY DEF Turns, Falls, SameAsked
<1>2. /\ [s \in Stamps |-> xreq'[s].owner] = [s \in Stamps |-> xreq[s].owner]
      /\ [s \in Stamps |-> xreq'[s].kind] = [s \in Stamps |-> xreq[s].kind]
  BY <1>1
<1>3. CASE gone = {}
  <2>1. [s \in Stamps |-> xreq'[s].status] = [s \in Stamps |-> xreq[s].status]
    BY <1>3
  <2>2. QED
    BY <1>2, <2>1 DEF Xpra!Contract!contractVars
<1>4. CASE gone # {}
  <2> DEFINE status == [s \in Stamps |-> xreq[s].status]
  <2>1. gone \in SUBSET {s \in Stamps : status[s] \in {"queued", "issued"}}
    BY <1>1
  <2>2. [s \in Stamps |-> xreq'[s].status] =
        [s \in Stamps |-> IF s \in gone THEN IF status[s] = "queued" THEN "refused" ELSE "failed" ELSE status[s]]
    <3>1. \A s \in Stamps : xreq'[s].status =
            IF s \in gone THEN IF status[s] = "queued" THEN "refused" ELSE "failed" ELSE status[s]
      BY <1>1
    <3>2. QED
      BY <3>1
  <2>3. Xpra!Contract!GiveUp
    BY <1>2, <1>4, <2>1, <2>2 DEF Xpra!Contract!GiveUp
  <2>4. QED
    BY <2>3
<1>5. QED
  BY <1>3, <1>4

\* The document has the text that is confirmed.
LEMMA DoneContract ==
  ASSUME NEW w, NEW x, Turns(w, x), Done(w, x), Arrived(w, parts), xdoc' = xdoc
  PROVE  \E s \in Stamps : Xpra!Contract!Confirm(s)
<1> USE XpraAssumption
<1>1. PICK f \in Stamps : f = w.order.pending /\ xreq[f].status = "issued"
  BY DEF Done, Turns
<1>2. \A s \in Stamps :
       /\ xreq'[s].owner = xreq[s].owner /\ xreq'[s].kind = xreq[s].kind
       /\ xreq'[s].status = IF s = f THEN "confirmed" ELSE xreq[s].status
  BY <1>1 DEF Turns, Done, SameAsked
<1>3. /\ [s \in Stamps |-> xreq'[s].owner] = [s \in Stamps |-> xreq[s].owner]
      /\ [s \in Stamps |-> xreq'[s].kind] = [s \in Stamps |-> xreq[s].kind]
      /\ [s \in Stamps |-> xreq'[s].status] = [[s \in Stamps |-> xreq[s].status] EXCEPT ![f] = "confirmed"]
  BY <1>2
<1>4. w \in Loops /\ Counted(w, xdoc, parts) /\ w.req = xreq
  BY DEF Turns, State, Here, Loop, Core, Outer
<1>5. parts[f] = w.req[f].size /\ w.req[f].size \in 1..MaxFragments
  BY <1>1, <1>4, RequestFields DEF Arrived
<1>6. \E i \in 1..Len(xdoc) : xdoc[i] = f
  <2>1. parts[f] # 0
    BY <1>5
  <2>2. QED
    BY <1>1, <1>4, <2>1, Zenon DEF Counted
<1>7. f \in Xpra!Contract!ToSet(xdoc)
  BY <1>6 DEF Turns, Xpra!Contract!ToSet
<1>8. Xpra!Contract!Confirm(f)
  BY <1>1, <1>3, <1>7 DEF Xpra!Contract!Confirm
<1>9. QED
  BY <1>8

\* A request is issued when no text of its viewer that it follows is open.
LEMMA OutContract ==
  ASSUME NEW w, NEW x, Turns(w, x), NEW f, Out(w, x, f), xdoc' = xdoc
  PROVE  \E s \in Stamps : Xpra!Contract!Issue(s)
<1>1. f \in Stamps /\ xreq[f].status = "queued" /\ Loop(x)
  BY DEF Out, Turns
<1>2. \A s \in Stamps :
       /\ xreq'[s].owner = xreq[s].owner /\ xreq'[s].kind = xreq[s].kind
       /\ s # f => xreq'[s].status = xreq[s].status
  BY DEF Turns, Out, SameAsked
<1>3. PICK r \in {"issued", "confirmed"} : xreq'[f].status = r /\ (r = "confirmed" => xreq[f].kind = "down")
  BY DEF Out, Turns
<1>4. /\ [s \in Stamps |-> xreq'[s].owner] = [s \in Stamps |-> xreq[s].owner]
      /\ [s \in Stamps |-> xreq'[s].kind] = [s \in Stamps |-> xreq[s].kind]
      /\ [s \in Stamps |-> xreq'[s].status] = [[s \in Stamps |-> xreq[s].status] EXCEPT ![f] = r]
  BY <1>1, <1>2, <1>3
<1>5. w \in Loops /\ w.req = xreq /\ Sequenced(x) /\ x.req = xreq' /\ Went(x, f)
  BY <1>3 DEF Turns, State, Here, Loop, Core, Follows, Went
<1>6. ASSUME NEW t \in Stamps, t < f, xreq[t].owner = xreq[f].owner, xreq[t].kind \in {"text", "clip"}
      PROVE  xreq[t].status \in {"confirmed", "failed", "refused"}
  <2>1. xreq[t].kind = "text"
    BY <1>5, <1>6, RequestFields
  <2>2. xreq'[t].status = "confirmed"
    BY <1>1, <1>2, <1>5, <1>6, <2>1 DEF Sequenced
  <2>3. t # f
    BY <1>1, <1>6, XpraAssumption
  <2>4. QED
    BY <1>2, <2>2, <2>3
<1>7. Xpra!Contract!Clear(f, [s \in Stamps |-> xreq[s].owner][f])
  BY <1>1, <1>6 DEF Xpra!Contract!Clear, Xpra!Contract!Confirmable, Xpra!Contract!Settled
<1>8. Xpra!Contract!Issue(f)
  BY <1>1, <1>3, <1>4, <1>7 DEF Xpra!Contract!Issue, Xpra!Contract!Confirmable
<1>9. QED
  BY <1>1, <1>8

\* Requests are asked for in the order of their stamps.
LEMMA JoinsContract ==
  ASSUME NEW w, NEW x, Turns(w, x), NEW f, Joins(w, x, f), xdoc' = xdoc
  PROVE  \E s \in Stamps : Xpra!Contract!Ask(s)
<1>1. f \in Stamps /\ xreq[f].status = "none" /\ \A t \in Stamps : t < f => xreq[t].status # "none"
  BY DEF Joins, Turns
<1>2. PICK v \in Viewers, k \in {"text", "down"} : xreq'[f].owner = v /\ xreq'[f].kind = k /\ xreq'[f].status = "queued"
  BY DEF Joins, Turns
<1>3. \A s \in Stamps : s # f => xreq'[s] = xreq[s]
  BY DEF Joins, Turns
<1>4. /\ [s \in Stamps |-> xreq'[s].owner] = [[s \in Stamps |-> xreq[s].owner] EXCEPT ![f] = v]
      /\ [s \in Stamps |-> xreq'[s].kind] = [[s \in Stamps |-> xreq[s].kind] EXCEPT ![f] = k]
      /\ [s \in Stamps |-> xreq'[s].status] = [[s \in Stamps |-> xreq[s].status] EXCEPT ![f] = "queued"]
  BY <1>1, <1>2, <1>3
<1>5. k \in Xpra!Contract!Confirmable \cup {"down", "up", "close"}
  BY DEF Xpra!Contract!Confirmable
<1>6. Xpra!Contract!Ask(f)
  BY <1>1, <1>4, <1>5 DEF Xpra!Contract!Ask
<1>7. QED
  BY <1>1, <1>6

\* The application acts on what was issued, never behind a later request.
LEMMA ActsContract ==
  ASSUME NEW w, NEW x, Turns(w, x), Acts(w, x, xdoc, xdoc')
  PROVE  (\E s \in Stamps : Xpra!Contract!Apply(s)) \/ UNCHANGED Xpra!Contract!contractVars
<1>1. xreq' = xreq
  BY DEF Turns, Acts
<1>2. CASE xdoc' = xdoc
  BY <1>1, <1>2 DEF Xpra!Contract!contractVars
<1>3. ASSUME xdoc' # xdoc, NEW s \in Stamps, Inserting(x, xdoc, s, xdoc') PROVE Xpra!Contract!Apply(s)
  <2>1. xdoc' = Append(xdoc, s) /\ \A i \in 1..Len(xdoc) : xdoc[i] < s
    BY <1>3 DEF Inserting
  <2>2. PICK j \in 1..Len(xdoc') : xdoc'[j] = s
    BY <1>3 DEF Inserting
  <2>3. Went(x, s)
    BY <1>3, <2>2 DEF Inserting, Written
  <2>4. xreq[s].status \in {"issued", "confirmed", "failed"}
    BY <1>1, <2>3 DEF Went, Turns
  <2>5. \A i \in DOMAIN xdoc : xdoc[i] < s
    BY <2>1 DEF Turns
  <2>6. QED
    BY <1>1, <2>1, <2>4, <2>5 DEF Xpra!Contract!Apply
<1>4. QED
  BY <1>2, <1>3 DEF Acts

\* Every step of the loop is one of the contract.
LEMMA XpraContractStep == ASSUME XpraInv, Xpra!Next PROVE [Xpra!Contract!Next]_Xpra!Contract!contractVars
<1>1. PICK w : State(w)
  BY StateWorld
<1>2. PICK x : Follows(w, x)
  BY <1>1, NextFollows
<1>3. Turns(w, x) /\ Outcome(w, x, parts, xdoc, xdoc')
  BY <1>1, <1>2, FollowsTurns DEF Follows
<1>4. CASE Acts(w, x, xdoc, xdoc')
  BY <1>3, <1>4, ActsContract DEF Xpra!Contract!Next
<1>5. CASE xdoc' = xdoc /\ Falls(w, x)
  BY <1>3, <1>5, FallsContract DEF Xpra!Contract!Next
<1>6. CASE xdoc' = xdoc /\ Done(w, x) /\ Arrived(w, parts)
  BY <1>3, <1>6, DoneContract DEF Xpra!Contract!Next
<1>7. ASSUME xdoc' = xdoc, NEW f, Out(w, x, f) PROVE Xpra!Contract!Next
  BY <1>3, <1>7, OutContract DEF Xpra!Contract!Next
<1>8. ASSUME xdoc' = xdoc, NEW f, Joins(w, x, f) PROVE Xpra!Contract!Next
  BY <1>3, <1>8, JoinsContract DEF Xpra!Contract!Next
<1>9. QED
  BY <1>3, <1>4, <1>5, <1>6, <1>7, <1>8 DEF Outcome, Serves

\* The contract sees nothing of a step that changes nothing.
LEMMA XpraContractStutters == ASSUME UNCHANGED xpraVars PROVE UNCHANGED Xpra!Contract!contractVars
BY DEF xpraVars, Xpra!Contract!contractVars

\* Every behaviour of the server's input is one of the contract that NativeInput
\* keeps: what is refused never reaches the application, what reaches it does so
\* once and in order, and a confirmed text is in its document.
THEOREM KeepsContractHolds == PartsSpec => KeepsContract
<1>1. PartsInit => XpraInv /\ Xpra!Contract!Init
  BY XpraStarts, XpraContractStarts DEF PartsInit
<1>2. XpraInv /\ [PartsNext]_<<part, vars, xpraVars>> => XpraInv' /\ [Xpra!Contract!Next]_Xpra!Contract!contractVars
  BY XpraStep, XpraStutters, XpraContractStep, XpraContractStutters DEF PartsNext
<1>3. QED
  BY <1>1, <1>2, PTL DEF PartsSpec, KeepsContract, Xpra!KeepsContract, Xpra!Contract!Spec
================================================================================
