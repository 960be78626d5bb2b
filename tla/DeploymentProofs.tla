-------------------------- MODULE DeploymentProofs --------------------------
(***************************************************************************)
(* Proofs about Deployment, for any set of policies and whatever fails,    *)
(* and about ProcessPeers and Documents, which its run has beside it.      *)
(*                                                                         *)
(* The inductive invariant IInv says, for every step of the manager, which *)
(* files still differ from those before the transaction and what the       *)
(* snapshot on disk knows of them (Knows), so that a recovery that starts  *)
(* from any point ends in the same files.  Each part of it has a lemma     *)
(* with one step per action.                                               *)
(***************************************************************************)
EXTENDS MCDeployment, SequenceTheorems, FiniteSetTheorems, WellFoundedInduction, TLAPS


Prelude == {"maintain", "consent", "check"}
Opened == {"dispatch", "confirm", "snapshot"}
Ensures == {"driver", "directories", "save version", "backup", "publish", "unit", "enable", "start",
            "verify", "record"}
Removes == {"driver off", "save removal", "disable", "move away", "remove unit"}
Restores == {"stop service", "bring back", "versions", "root", "disable unit", "unit file", "policy",
             "driver file", "enable unit", "start unit", "unload", "remove", "restored"}
Applies == Ensures \cup Removes \cup {"halt"}

\* What the manager is doing fits the journal.
Control ==
  /\ pc \in Opened => mode = "apply" /\ journal = None
  /\ pc \in Prelude => IF mode = "recover" THEN Pending /\ undo = journal.saved
                                       ELSE mode = "apply" /\ journal = None
  /\ pc = "recover" => mode = "apply"
  /\ pc \in Applies => mode = "apply" /\ Pending
  /\ pc \in Restores => mode \in {"rollback", "recover"} /\ Pending
  /\ pc = "commit" => Pending
  /\ pc \in {"collect", "retire"} => journal # None /\ journal.committed
  /\ pc = "clean" => journal = None
  /\ pc # "idle" => outcome = "none"

\* How far an installation has come
HasDriver == (Ensures \ {"driver"}) \cup {"halt"}
HasDirectories == HasDriver \ {"directories"}
HasVersion == {"unit", "enable", "start", "verify", "record"}
HasUnit == HasVersion \ {"unit"}

\* The request decides the steps.
Asked ==
  /\ pc \in HasDirectories /\ Ensuring => root # None
  /\ pc \in Ensures => Ensuring
  /\ pc \in Removes => request.operation = "uninstall"
  /\ mode = "apply" /\ journal = None /\ pc \in Prelude \cup {"snapshot"} =>
       /\ removing = None
       /\ ~Ensuring => root # None

Rules == TypeOK /\ Control /\ Asked


\* The versions of an installation, and its policy
Was(i) == Contract!VersionsOf(i)
PolicyOf(i) == IF i.root = None THEN None ELSE i.root.policy

\* Snapshot u and the backup know all in which tree r and what was moved away
\* differ from installation b.
Knows(u, backup, r, away, b) ==
  /\ u.rootExisted = (b.root # None) /\ u.policy = PolicyOf(b) /\ u.unit = b.unit /\ u.driver = b.driver
  /\ u.removing => u.published = None /\ b.root # None
  /\ away # None => u.removing /\ away = b.root
  /\ away = None /\ b.root # None => r # None
  /\ away = None /\ r # None =>
       /\ \A d \in Digests \ {u.published} : r.versions[d] = Was(b)[d]
       /\ u.published # None /\ u.replace /\ backup = "absent" =>
            r.versions[u.published] = Was(b)[u.published]
  /\ u.published # None =>
       IF u.replace THEN backup \in {"absent", Was(b)[u.published]}
       ELSE Was(b)[u.published] = "absent" /\ backup = "absent"
  /\ u.published = None => backup = "absent"

\* The snapshot on disk, and the one that the manager works from
Working == Applies \cup Restores \cup {"commit"}
Covered == Pending =>
  /\ Knows(journal.saved, journal.backup, root, removing, base)
  /\ pc \in Working =>
       /\ Knows(undo, journal.backup, root, removing, base)
       /\ journal.saved.published \in {None, undo.published}
       /\ mode # "rollback" => undo = journal.saved

\* How far each operation has come
Installing == mode = "apply" /\ Ensuring =>
  /\ pc \in Applies => removing = None /\ ~undo.removing
  /\ pc \in HasDriver => driver
  /\ pc \in {"driver", "directories", "halt", "save version"} => undo.published = None
  /\ pc \in {"backup", "publish"} => undo.published = Target
  /\ pc = "backup" => undo.replace /\ journal.backup = "absent" /\ root.versions[Target] = "altered"
  /\ pc = "publish" /\ undo.replace => journal.backup # "absent"
  /\ pc \in HasVersion => root.versions[Target] = "good" /\ undo.published \in {None, Target}
  /\ pc \in HasUnit => unit = Target
  /\ pc = "commit" => Image = Contract!Ensured(base, Target)

Stopping == mode = "apply" /\ request.operation = "stop" =>
  /\ pc = "halt" => removing = None
  /\ pc \in {"halt", "commit"} => Image = base

Uninstalling == mode = "apply" /\ request.operation = "uninstall" =>
  /\ pc \in Removes \cup {"halt"} => base.root # None
  /\ pc \in (Removes \ {"driver off"}) \cup {"halt"} => ~driver
  /\ pc \in {"driver off", "save removal"} =>
       root = base.root /\ unit = base.unit /\ removing = None /\ undo.published = None
  /\ pc \in {"halt", "disable", "move away"} => undo.removing /\ root = base.root /\ removing = None
  /\ pc = "remove unit" => undo.removing /\ root = None
  /\ pc = "commit" => Image = Contract!Uninstalled

\* How far a restore has come, unless an effect of it has failed
Sure == ~failed \/ ~injected
OutDriver == {"enable unit", "start unit", "unload", "remove", "restored"}
OutPolicy == OutDriver \cup {"driver file"}
OutUnit == OutPolicy \cup {"policy"}
OutVersions == OutUnit \cup {"root", "disable unit", "unit file"}
OutRoot == OutVersions \cup {"versions"}

Progress == mode # "apply" =>
  /\ pc \in OutRoot /\ Sure => removing = None
  /\ pc \in OutVersions /\ Sure /\ root # None => \A d \in Digests : root.versions[d] = Was(base)[d]
  /\ pc \in OutUnit /\ Sure => unit = base.unit
  /\ pc \in OutPolicy /\ Sure /\ base.root # None => root.policy = base.root.policy
  /\ pc \in OutDriver /\ Sure => driver = base.driver
  /\ pc = "restored" /\ Sure /\ base.root = None => root = None
  /\ pc = "commit" => Image = base

\* Where no effect has failed, nothing stands in the way of what was moved away.
Clear == Pending /\ ~injected => removing = None \/ root = None

IInv == Rules /\ Covered /\ Installing /\ Stopping /\ Uninstalling /\ Progress /\ Clear /\ RecoveryRestores

----------------------------------------------------------------------------
(* The types. *)

LEMMA Targets == ASSUME request \in Requests, Ensuring PROVE Target \in Digests
  BY DEF Requests, Ensuring, Target

LEMMA TreeTypes ==
  ASSUME NEW t \in Trees
  PROVE  /\ t.versions \in [Digests -> VersionStates] /\ t.policy \in Digests \cup {None}
         /\ \A d \in Digests : \A v \in VersionStates : [t EXCEPT !.versions[d] = v] \in Trees
         /\ \A d \in Digests \cup {None} : [t EXCEPT !.policy = d] \in Trees
         /\ Remains(t) \in Trees
<1>1. \A d \in Digests : \A v \in VersionStates : [t EXCEPT !.versions[d] = v] \in Trees
  BY DEF Trees
<1>2. \A d \in Digests \cup {None} : [t EXCEPT !.policy = d] \in Trees
  BY DEF Trees
<1>3. Remains(t) \in Trees
  BY DEF Trees, Remains, VersionStates
<1> QED BY <1>1, <1>2, <1>3 DEF Trees

LEMMA EmptyTreeType == EmptyTree \in Trees
  BY DEF EmptyTree, NoVersions, Trees, VersionStates

LEMMA JournalTypes ==
  ASSUME NEW j \in Journals
  PROVE  /\ j.saved \in Snapshots /\ j.committed \in BOOLEAN /\ j.backup \in VersionStates
         /\ \A s \in Snapshots : [j EXCEPT !.saved = s] \in Journals
         /\ \A v \in VersionStates : [j EXCEPT !.backup = v] \in Journals
         /\ \A c \in BOOLEAN : [j EXCEPT !.committed = c] \in Journals
  BY DEF Journals

LEMMA SnapshotTypes ==
  ASSUME NEW s \in Snapshots
  PROVE  /\ s.rootExisted \in BOOLEAN /\ s.policy \in Digests \cup {None}
         /\ s.unit \in Digests \cup {None} /\ s.driver \in BOOLEAN
         /\ s.published \in Digests \cup {None}
         /\ [s EXCEPT !.removing = TRUE] \in Snapshots
         /\ \A d \in Digests : \A x \in BOOLEAN :
              [s EXCEPT !.published = d, !.replace = x] \in Snapshots
  BY DEF Snapshots

LEMMA NoSnapshotType == NoSnapshot \in Snapshots
  BY DEF NoSnapshot, Snapshots

\* What every snapshot that may be taken says
Snapped(s) == \E on \in Seen(Policy # None /\ enabled), up \in Seen(Policy # None /\ running # None) :
                s = Taken(on, up)
LEMMA TakenFields ==
  ASSUME NEW s, Snapped(s)
  PROVE  /\ s.rootExisted = (root # None) /\ s.policy = Policy /\ s.unit = unit
         /\ s.driver = driver /\ s.removing = FALSE /\ s.published = None
         /\ s.enabled => Policy # None /\ enabled
<1>1. PICK on \in Seen(Policy # None /\ enabled), up \in Seen(Policy # None /\ running # None) :
        s = Taken(on, up)
  BY DEF Snapped
<1>2. on => Policy # None /\ enabled
  BY DEF Seen
<1>3. QED
  BY <1>1, <1>2 DEF Taken, NoSnapshot

LEMMA TakenType == ASSUME TypeOK, NEW s, Snapped(s) PROVE s \in Snapshots
<1>1. Policy \in Digests \cup {None}
  BY TreeTypes DEF TypeOK, Policy
<1>2. /\ (root # None) \in BOOLEAN /\ unit \in Digests \cup {None} /\ driver \in BOOLEAN
      /\ (Policy # None /\ enabled) \in BOOLEAN
      /\ (Policy # None /\ running # None) \in BOOLEAN /\ loaded \in BOOLEAN
  BY DEF TypeOK
<1>3. PICK on \in BOOLEAN, up \in BOOLEAN : s = Taken(on, up)
  BY <1>2 DEF Snapped, Seen
<1>4. s = [rootExisted |-> root # None, policy |-> Policy, unit |-> unit, driver |-> driver,
           enabled |-> on, active |-> up, wasLoaded |-> loaded, published |-> None,
           replace |-> FALSE, removing |-> FALSE]
  BY <1>3 DEF Taken, NoSnapshot
<1>5. QED
  BY <1>1, <1>2, <1>4 DEF Snapshots

\* The parts of the type invariant
FilesOK == /\ root \in Trees \cup {None} /\ removing \in Trees \cup {None}
           /\ unit \in Digests \cup {None} /\ running \in Digests \cup {None}
SavedOK == /\ journal \in Journals \cup {None} /\ undo \in Snapshots
           /\ base \in [root : Trees \cup {None}, unit : Digests \cup {None}, driver : BOOLEAN]
HostFlagsOK == /\ driver \in BOOLEAN /\ retired \in BOOLEAN /\ enabled \in BOOLEAN
               /\ wanted \in BOOLEAN /\ loaded \in BOOLEAN /\ attached \in BOOLEAN
RunFlagsOK == /\ active \in BOOLEAN /\ failed \in BOOLEAN /\ baseOn \in BOOLEAN
              /\ consent \in BOOLEAN /\ lapsed \in BOOLEAN /\ hidden \in BOOLEAN
              /\ injected \in BOOLEAN
FlagsOK == HostFlagsOK /\ RunFlagsOK
ManagerOK ==
  /\ pc = "idle" => lease = "none" /\ undo = NoSnapshot /\ mode = "apply"
  /\ lease \in {"none", "held", "lost"}
  /\ pc \in {"idle", "recover", "commit", "collect", "retire", "clean"}
              \cup Prelude \cup Opened \cup Applies \cup Restores
  /\ request \in Requests /\ mode \in {"apply", "rollback", "recover"}
  /\ outcome \in {"none", "refused", "done", "rolled back", "unknown", "stuck"}

LEMMA TypeParts == TypeOK <=> FilesOK /\ SavedOK /\ FlagsOK /\ ManagerOK
<1>1. TypeOK => FilesOK /\ SavedOK
  BY DEF TypeOK, FilesOK, SavedOK
<1>2. TypeOK => ManagerOK
  BY DEF TypeOK, ManagerOK, Prelude, Opened, Ensures, Removes, Restores, Applies
<1>3. TypeOK <=> TypeOK /\ {driver, retired, enabled, wanted, loaded, attached, active, failed,
                           baseOn, consent, lapsed, hidden, injected} \subseteq BOOLEAN
  BY DEF TypeOK
<1>4. {driver, retired, enabled, wanted, loaded, attached, active, failed,
       baseOn, consent, lapsed, hidden, injected} \subseteq BOOLEAN <=> FlagsOK
  BY DEF FlagsOK, HostFlagsOK, RunFlagsOK
<1>5. FilesOK /\ SavedOK /\ ManagerOK /\ {driver, retired, enabled, wanted, loaded, attached, active, failed,
                           baseOn, consent, lapsed, hidden, injected} \subseteq BOOLEAN => TypeOK
  BY ZenonT(60) DEF TypeOK, FilesOK, SavedOK, ManagerOK, Prelude, Opened, Ensures, Removes, Restores, Applies
<1> QED BY <1>1, <1>2, <1>3, <1>4, <1>5

\* The files keep their types.
LEMMA FilesTyped == ASSUME Rules, [Next]_vars PROVE FilesOK'
<1> USE DEF Rules, FilesOK, TypeOK, Control, Asked, Pending, Prelude, Opened, Ensures, Removes,
            Restores, Applies, HasDriver, HasDirectories, HasVersion, HasUnit, Apply, Proceed,
            RollBack, Restored, Fault, Broken, Tried, Refused, End, Unknown, files, log, host,
            service, memory, history, excuses, NoExcuse
<1>1. CASE Attach BY <1>1 DEF Attach, Admits
<1>2. CASE Detach BY <1>2 DEF Detach
<1>3. CASE DaemonCrash BY <1>3 DEF DaemonCrash, Gone
<1>4. CASE DaemonStart BY <1>4 DEF DaemonStart
<1>5. CASE Recover BY <1>5 DEF Recover
<1>6. CASE Dispatch BY <1>6 DEF Dispatch, Seen
<1>7. CASE Confirm BY <1>7 DEF Confirm
<1>8. CASE Maintain BY <1>8 DEF Maintain, Seen
<1>9. CASE Consent BY <1>9 DEF Consent
<1>10. CASE Check BY <1>10 DEF Check
<1>11. CASE TakeSnapshot BY <1>11 DEF TakeSnapshot, FirstStep, Image
<1>12. CASE PrepareDriver BY <1>12 DEF PrepareDriver
<1>13. CASE MakeDirectories BY <1>13, EmptyTreeType DEF MakeDirectories, AfterDirectories
<1>14. CASE Halt BY <1>14 DEF Halt, AfterHalt, StopUnit, Gone
<1>15. CASE SaveVersion BY <1>15 DEF SaveVersion
<1>16. CASE Retained BY <1>16 DEF Retained
<1>17. CASE BackUp
  <2>1. root \in Trees /\ Target \in Digests
    BY <1>17, Targets DEF BackUp
  <2>2. [root EXCEPT !.versions[Target] = "absent"] \in Trees
    BY <2>1 DEF Trees, VersionStates
  <2>3. QED
    BY <1>17, <2>1, <2>2 DEF BackUp, SetVersion
<1>18. CASE Publish
  <2>1. root \in Trees /\ Target \in Digests
    BY <1>18, Targets DEF Publish
  <2>2. [root EXCEPT !.versions[Target] = "good"] \in Trees
    BY <2>1 DEF Trees, VersionStates
  <2>3. QED
    BY <1>18, <2>1, <2>2 DEF Publish, SetVersion
<1>19. CASE WriteUnit BY <1>19, Targets DEF WriteUnit
<1>20. CASE Enable BY <1>20 DEF Enable
<1>21. CASE StartNew BY <1>21 DEF StartNew, StartUnit
<1>22. CASE Verify BY <1>22 DEF Verify
<1>23. CASE WriteRecord
  <2>1. root \in Trees /\ Target \in Digests
    BY <1>23, Targets DEF WriteRecord
  <2>2. [root EXCEPT !.policy = Target] \in Trees
    BY <2>1 DEF Trees
  <2>3. QED
    BY <1>23, <2>1, <2>2 DEF WriteRecord
<1>24. CASE SaveRemoval BY <1>24 DEF SaveRemoval
<1>25. CASE MoveAway BY <1>25 DEF MoveAway
<1>26. CASE RemoveUnit BY <1>26 DEF RemoveUnit
<1>27. CASE RestoreStop BY <1>27 DEF RestoreStop, StopUnit, Gone
<1>28. CASE RestoreRoot BY <1>28, ZenonT(60) DEF RestoreRoot
<1>29. CASE RestoreVersion
  <2>1. CASE root' = root
    BY <1>29, <2>1 DEF RestoreVersion
  <2>2. CASE root' # root
    <3>1. root \in Trees /\ undo.published \in Digests /\ journal.backup \in VersionStates
      BY <1>29, <2>2, SnapshotTypes, JournalTypes DEF RestoreVersion
    <3>2. \A v \in VersionStates : [root EXCEPT !.versions[undo.published] = v] \in Trees
      BY <3>1 DEF Trees
    <3>3. root' \in Trees
      <4> HIDE DEF FilesOK
      <4>1. \E v \in VersionStates : root' = [root EXCEPT !.versions[undo.published] = v]
        BY <1>29, <2>2, <3>1 DEF RestoreVersion, SetVersion, VersionStates
      <4>2. QED
        BY <3>2, <4>1
    <3>4. QED
      BY <1>29, <3>3 DEF RestoreVersion
  <2>3. QED
    BY <2>1, <2>2
<1>30. CASE RestoreDirectory BY <1>30, EmptyTreeType DEF RestoreDirectory
<1>31. CASE RestoreDisable BY <1>31 DEF RestoreDisable
<1>32. CASE RestoreUnit BY <1>32, SnapshotTypes DEF RestoreUnit
<1>33. CASE RestorePolicy
  <2>1. CASE root # None
    <3>1. [root EXCEPT !.policy = undo.policy] \in Trees
      BY <2>1, SnapshotTypes DEF Trees
    <3>2. QED
      BY <1>33, <2>1, <3>1 DEF RestorePolicy
  <2>2. CASE root = None
    BY <1>33, <2>2 DEF RestorePolicy
  <2>3. QED
    BY <2>1, <2>2
<1>34. CASE RestoreDriver BY <1>34 DEF RestoreDriver
<1>35. CASE RestoreEnable BY <1>35 DEF RestoreEnable
<1>36. CASE RestoreStart BY <1>36 DEF RestoreStart, StartUnit
<1>37. CASE RestoreModule BY <1>37 DEF RestoreModule
<1>38. CASE RestoreAbsence BY <1>38, TreeTypes DEF RestoreAbsence
<1>39. CASE EndRestore BY <1>39 DEF EndRestore
<1>40. CASE Commit BY <1>40 DEF Commit
<1>41. CASE Collect BY <1>41, TreeTypes DEF Collect
<1>42. CASE Retire BY <1>42 DEF Retire
<1>43. CASE Clean BY <1>43 DEF Clean, Ended
<1>44. CASE Crash BY <1>44 DEF Crash
<1>45. CASE Reboot BY <1>45 DEF Reboot
<1>46. ASSUME NEW r \in Requests, Manage(r) PROVE FilesOK'
  BY <1>46 DEF Manage
<1>47. CASE UNCHANGED vars BY <1>47 DEF vars
<1> QED
  BY <1>1, <1>2, <1>3, <1>4, <1>5, <1>6, <1>7, <1>8, <1>9, <1>10, <1>11, <1>12, <1>13, <1>14, <1>15,
     <1>16, <1>17, <1>18, <1>19, <1>20, <1>21, <1>22, <1>23, <1>24, <1>25, <1>26, <1>27, <1>28,
     <1>29, <1>30, <1>31, <1>32, <1>33, <1>34, <1>35, <1>36, <1>37, <1>38, <1>39, <1>40, <1>41,
     <1>42, <1>43, <1>44, <1>45, <1>46, <1>47 DEF Next, Manager, Daemon, Applying, Restoring,
     Committing

\* The journal and the snapshots keep their types.
LEMMA SavedTyped == ASSUME Rules, [Next]_vars PROVE SavedOK'
<1> USE DEF Rules, SavedOK, TypeOK, Control, Asked, Pending, Prelude, Opened, Ensures, Removes,
            Restores, Applies, HasDriver, HasDirectories, HasVersion, HasUnit, Apply, Proceed,
            RollBack, Restored, Fault, Broken, Tried, Refused, End, Unknown, files, log, host,
            service, memory, history, excuses, NoExcuse
<1>1. CASE Attach BY <1>1 DEF Attach, Admits
<1>2. CASE Detach BY <1>2 DEF Detach
<1>3. CASE DaemonCrash BY <1>3 DEF DaemonCrash, Gone
<1>4. CASE DaemonStart BY <1>4 DEF DaemonStart
<1>5. CASE Recover BY <1>5, NoSnapshotType, JournalTypes DEF Recover
<1>6. CASE Dispatch BY <1>6, NoSnapshotType DEF Dispatch, Seen
<1>7. CASE Confirm BY <1>7, NoSnapshotType DEF Confirm
<1>8. CASE Maintain BY <1>8 DEF Maintain, Seen
<1>9. CASE Consent BY <1>9, NoSnapshotType DEF Consent
<1>10. CASE Check BY <1>10, NoSnapshotType DEF Check
<1>11. CASE TakeSnapshot
  <2>1. CASE Refused
    BY <1>11, <2>1, NoSnapshotType DEF TakeSnapshot
  <2>2. CASE Snapped(undo') /\ base' = Image /\ journal' = [saved |-> undo', committed |-> FALSE, backup |-> "absent"]
    <3>1. undo' \in Snapshots
      BY <2>2, TakenType
    <3>2. journal' \in Journals
      BY <2>2, <3>1 DEF Journals, VersionStates
    <3>3. base' \in [root : Trees \cup {None}, unit : Digests \cup {None}, driver : BOOLEAN]
      BY <2>2 DEF Image
    <3>4. QED
      BY <2>2, <3>1, <3>2, <3>3
  <2>3. QED
    BY <1>11, <2>1, <2>2 DEF TakeSnapshot, Snapped
<1>12. CASE PrepareDriver BY <1>12 DEF PrepareDriver
<1>13. CASE MakeDirectories BY <1>13 DEF MakeDirectories, AfterDirectories
<1>14. CASE Halt BY <1>14 DEF Halt, AfterHalt, StopUnit, Gone
<1>15. CASE SaveVersion
  <2>1. undo' \in Snapshots
    <3>1. Target \in Digests /\ (Version(Target) = "altered") \in BOOLEAN
      BY <1>15, Targets DEF SaveVersion
    <3>2. [undo EXCEPT !.published = Target, !.replace = Version(Target) = "altered"] \in Snapshots
      BY <3>1, ZenonT(60) DEF Snapshots
    <3>3. QED
      BY <1>15, <3>2 DEF SaveVersion
  <2>2. [journal EXCEPT !.saved = undo'] \in Journals
    BY <1>15, <2>1, JournalTypes DEF SaveVersion
  <2>3. QED
    BY <1>15, <2>1, <2>2 DEF SaveVersion
<1>16. CASE Retained BY <1>16 DEF Retained
<1>17. CASE BackUp
  <2>1. journal \in Journals /\ Version(Target) \in VersionStates
    BY <1>17, Targets, TreeTypes DEF BackUp, Version, VersionStates
  <2>2. [journal EXCEPT !.backup = Version(Target)] \in Journals
    BY <2>1, JournalTypes
  <2>3. QED
    BY <1>17, <2>2 DEF BackUp
<1>18. CASE Publish BY <1>18 DEF Publish, SetVersion
<1>19. CASE WriteUnit BY <1>19 DEF WriteUnit
<1>20. CASE Enable BY <1>20 DEF Enable
<1>21. CASE StartNew BY <1>21 DEF StartNew, StartUnit
<1>22. CASE Verify BY <1>22 DEF Verify
<1>23. CASE WriteRecord BY <1>23 DEF WriteRecord
<1>24. CASE SaveRemoval
  <2>1. undo' \in Snapshots
    BY <1>24, SnapshotTypes DEF SaveRemoval
  <2>2. [journal EXCEPT !.saved = undo'] \in Journals
    BY <1>24, <2>1, JournalTypes DEF SaveRemoval
  <2>3. QED
    BY <1>24, <2>1, <2>2 DEF SaveRemoval
<1>25. CASE MoveAway BY <1>25 DEF MoveAway
<1>26. CASE RemoveUnit BY <1>26 DEF RemoveUnit
<1>27. CASE RestoreStop BY <1>27 DEF RestoreStop, StopUnit, Gone
<1>28. CASE RestoreRoot BY <1>28, NoSnapshotType, ZenonT(60) DEF RestoreRoot
<1>29. CASE RestoreVersion
  <2>1. journal \in Journals /\ "absent" \in VersionStates
    BY <1>29 DEF RestoreVersion, VersionStates
  <2>2. [journal EXCEPT !.backup = "absent"] \in Journals
    BY <2>1, JournalTypes
  <2>3. journal' = journal \/ journal' = [journal EXCEPT !.backup = "absent"]
    BY <1>29 DEF RestoreVersion
  <2>4. QED
    BY <1>29, <2>1, <2>2, <2>3 DEF RestoreVersion
<1>30. CASE RestoreDirectory BY <1>30 DEF RestoreDirectory
<1>31. CASE RestoreDisable BY <1>31 DEF RestoreDisable
<1>32. CASE RestoreUnit BY <1>32 DEF RestoreUnit
<1>33. CASE RestorePolicy BY <1>33 DEF RestorePolicy
<1>34. CASE RestoreDriver BY <1>34 DEF RestoreDriver
<1>35. CASE RestoreEnable BY <1>35 DEF RestoreEnable
<1>36. CASE RestoreStart BY <1>36 DEF RestoreStart, StartUnit
<1>37. CASE RestoreModule BY <1>37 DEF RestoreModule
<1>38. CASE RestoreAbsence BY <1>38 DEF RestoreAbsence
<1>39. CASE EndRestore BY <1>39, NoSnapshotType DEF EndRestore
<1>40. CASE Commit BY <1>40, NoSnapshotType, JournalTypes DEF Commit
<1>41. CASE Collect BY <1>41, NoSnapshotType DEF Collect
<1>42. CASE Retire BY <1>42, NoSnapshotType DEF Retire
<1>43. CASE Clean BY <1>43, NoSnapshotType DEF Clean, Ended
<1>44. CASE Crash BY <1>44, NoSnapshotType DEF Crash
<1>45. CASE Reboot BY <1>45, NoSnapshotType DEF Reboot
<1>46. ASSUME NEW r \in Requests, Manage(r) PROVE SavedOK'
  BY <1>46 DEF Manage
<1>47. CASE UNCHANGED vars BY <1>47 DEF vars
<1> QED
  BY <1>1, <1>2, <1>3, <1>4, <1>5, <1>6, <1>7, <1>8, <1>9, <1>10, <1>11, <1>12, <1>13, <1>14, <1>15,
     <1>16, <1>17, <1>18, <1>19, <1>20, <1>21, <1>22, <1>23, <1>24, <1>25, <1>26, <1>27, <1>28,
     <1>29, <1>30, <1>31, <1>32, <1>33, <1>34, <1>35, <1>36, <1>37, <1>38, <1>39, <1>40, <1>41,
     <1>42, <1>43, <1>44, <1>45, <1>46, <1>47 DEF Next, Manager, Daemon, Applying, Restoring,
     Committing

\* The flags of the host keep their types.
LEMMA HostFlagsTyped == ASSUME HostFlagsOK, undo \in Snapshots, [Next]_vars PROVE HostFlagsOK'
<1> USE DEF HostFlagsOK, Apply, Proceed, RollBack, Restored, Fault, Broken, Tried, Refused, End,
            Unknown, files, log, host, service, memory, history, excuses, NoExcuse
<1>1. CASE Attach BY <1>1 DEF Attach, Admits
<1>2. CASE Detach BY <1>2 DEF Detach
<1>3. CASE DaemonCrash BY <1>3 DEF DaemonCrash, Gone
<1>4. CASE DaemonStart BY <1>4 DEF DaemonStart
<1>5. CASE Recover BY <1>5 DEF Recover
<1>6. CASE Dispatch BY <1>6 DEF Dispatch, Seen
<1>7. CASE Confirm BY <1>7 DEF Confirm
<1>8. CASE Maintain BY <1>8 DEF Maintain, Seen
<1>9. CASE Consent BY <1>9 DEF Consent
<1>10. CASE Check BY <1>10 DEF Check
<1>11. CASE TakeSnapshot BY <1>11, ZenonT(60) DEF TakeSnapshot, FirstStep, Image
<1>12. CASE PrepareDriver BY <1>12 DEF PrepareDriver
<1>13. CASE MakeDirectories BY <1>13 DEF MakeDirectories, AfterDirectories
<1>14. CASE Halt BY <1>14 DEF Halt, AfterHalt, StopUnit, Gone
<1>15. CASE SaveVersion BY <1>15 DEF SaveVersion
<1>16. CASE Retained BY <1>16 DEF Retained
<1>17. CASE BackUp BY <1>17 DEF BackUp, SetVersion
<1>18. CASE Publish BY <1>18 DEF Publish, SetVersion
<1>19. CASE WriteUnit BY <1>19 DEF WriteUnit
<1>20. CASE Enable BY <1>20 DEF Enable
<1>21. CASE StartNew BY <1>21 DEF StartNew, StartUnit
<1>22. CASE Verify BY <1>22 DEF Verify
<1>23. CASE WriteRecord BY <1>23 DEF WriteRecord
<1>24. CASE SaveRemoval BY <1>24 DEF SaveRemoval
<1>25. CASE MoveAway BY <1>25 DEF MoveAway
<1>26. CASE RemoveUnit BY <1>26 DEF RemoveUnit
<1>27. CASE RestoreStop BY <1>27 DEF RestoreStop, StopUnit, Gone
<1>28. CASE RestoreRoot BY <1>28 DEF RestoreRoot
<1>29. CASE RestoreVersion BY <1>29 DEF RestoreVersion, SetVersion
<1>30. CASE RestoreDirectory BY <1>30 DEF RestoreDirectory
<1>31. CASE RestoreDisable BY <1>31 DEF RestoreDisable
<1>32. CASE RestoreUnit BY <1>32 DEF RestoreUnit
<1>33. CASE RestorePolicy BY <1>33 DEF RestorePolicy
<1>34. CASE RestoreDriver BY <1>34, SnapshotTypes DEF RestoreDriver
<1>35. CASE RestoreEnable BY <1>35 DEF RestoreEnable
<1>36. CASE RestoreStart BY <1>36 DEF RestoreStart, StartUnit
<1>37. CASE RestoreModule BY <1>37 DEF RestoreModule
<1>38. CASE RestoreAbsence BY <1>38 DEF RestoreAbsence
<1>39. CASE EndRestore BY <1>39 DEF EndRestore
<1>40. CASE Commit BY <1>40 DEF Commit
<1>41. CASE Collect BY <1>41 DEF Collect
<1>42. CASE Retire BY <1>42 DEF Retire
<1>43. CASE Clean BY <1>43 DEF Clean, Ended
<1>44. CASE Crash BY <1>44 DEF Crash
<1>45. CASE Reboot BY <1>45 DEF Reboot
<1>46. ASSUME NEW r \in Requests, Manage(r) PROVE HostFlagsOK'
  BY <1>46 DEF Manage
<1>47. CASE UNCHANGED vars BY <1>47 DEF vars
<1> QED
  BY <1>1, <1>2, <1>3, <1>4, <1>5, <1>6, <1>7, <1>8, <1>9, <1>10, <1>11, <1>12, <1>13, <1>14, <1>15,
     <1>16, <1>17, <1>18, <1>19, <1>20, <1>21, <1>22, <1>23, <1>24, <1>25, <1>26, <1>27, <1>28,
     <1>29, <1>30, <1>31, <1>32, <1>33, <1>34, <1>35, <1>36, <1>37, <1>38, <1>39, <1>40, <1>41,
     <1>42, <1>43, <1>44, <1>45, <1>46, <1>47 DEF Next, Manager, Daemon, Applying, Restoring,
     Committing

\* So do those of the manager.
LEMMA RunFlagsTyped == ASSUME HostFlagsOK, RunFlagsOK, [Next]_vars PROVE RunFlagsOK'
<1> USE DEF HostFlagsOK, RunFlagsOK, Apply, Proceed, RollBack, Restored, Fault, Broken, Tried,
            Refused, End, Unknown, files, log, host, service, memory, history, excuses, NoExcuse
<1>1. CASE Attach BY <1>1 DEF Attach, Admits
<1>2. CASE Detach BY <1>2 DEF Detach
<1>3. CASE DaemonCrash BY <1>3 DEF DaemonCrash, Gone
<1>4. CASE DaemonStart BY <1>4 DEF DaemonStart
<1>5. CASE Recover BY <1>5 DEF Recover
<1>6. CASE Dispatch BY <1>6 DEF Dispatch, Seen
<1>7. CASE Confirm BY <1>7 DEF Confirm
<1>8. CASE Maintain BY <1>8 DEF Maintain, Seen
<1>9. CASE Consent BY <1>9 DEF Consent
<1>10. CASE Check BY <1>10 DEF Check
<1>11. CASE TakeSnapshot BY <1>11 DEF TakeSnapshot, FirstStep, Image
<1>12. CASE PrepareDriver BY <1>12 DEF PrepareDriver
<1>13. CASE MakeDirectories BY <1>13 DEF MakeDirectories, AfterDirectories
<1>14. CASE Halt BY <1>14 DEF Halt, AfterHalt, StopUnit, Gone
<1>15. CASE SaveVersion BY <1>15 DEF SaveVersion
<1>16. CASE Retained BY <1>16 DEF Retained
<1>17. CASE BackUp BY <1>17 DEF BackUp, SetVersion
<1>18. CASE Publish BY <1>18 DEF Publish, SetVersion
<1>19. CASE WriteUnit BY <1>19 DEF WriteUnit
<1>20. CASE Enable BY <1>20 DEF Enable
<1>21. CASE StartNew BY <1>21 DEF StartNew, StartUnit
<1>22. CASE Verify BY <1>22 DEF Verify
<1>23. CASE WriteRecord BY <1>23 DEF WriteRecord
<1>24. CASE SaveRemoval BY <1>24 DEF SaveRemoval
<1>25. CASE MoveAway BY <1>25 DEF MoveAway
<1>26. CASE RemoveUnit BY <1>26 DEF RemoveUnit
<1>27. CASE RestoreStop BY <1>27 DEF RestoreStop, StopUnit, Gone
<1>28. CASE RestoreRoot BY <1>28 DEF RestoreRoot
<1>29. CASE RestoreVersion BY <1>29 DEF RestoreVersion, SetVersion
<1>30. CASE RestoreDirectory BY <1>30 DEF RestoreDirectory
<1>31. CASE RestoreDisable BY <1>31 DEF RestoreDisable
<1>32. CASE RestoreUnit BY <1>32 DEF RestoreUnit
<1>33. CASE RestorePolicy BY <1>33 DEF RestorePolicy
<1>34. CASE RestoreDriver BY <1>34 DEF RestoreDriver
<1>35. CASE RestoreEnable BY <1>35 DEF RestoreEnable
<1>36. CASE RestoreStart BY <1>36 DEF RestoreStart, StartUnit
<1>37. CASE RestoreModule BY <1>37 DEF RestoreModule
<1>38. CASE RestoreAbsence BY <1>38 DEF RestoreAbsence
<1>39. CASE EndRestore BY <1>39 DEF EndRestore
<1>40. CASE Commit BY <1>40 DEF Commit
<1>41. CASE Collect BY <1>41 DEF Collect
<1>42. CASE Retire BY <1>42 DEF Retire
<1>43. CASE Clean BY <1>43 DEF Clean, Ended
<1>44. CASE Crash BY <1>44 DEF Crash
<1>45. CASE Reboot BY <1>45 DEF Reboot
<1>46. ASSUME NEW r \in Requests, Manage(r) PROVE RunFlagsOK'
  BY <1>46 DEF Manage
<1>47. CASE UNCHANGED vars BY <1>47 DEF vars
<1> QED
  BY <1>1, <1>2, <1>3, <1>4, <1>5, <1>6, <1>7, <1>8, <1>9, <1>10, <1>11, <1>12, <1>13, <1>14, <1>15,
     <1>16, <1>17, <1>18, <1>19, <1>20, <1>21, <1>22, <1>23, <1>24, <1>25, <1>26, <1>27, <1>28,
     <1>29, <1>30, <1>31, <1>32, <1>33, <1>34, <1>35, <1>36, <1>37, <1>38, <1>39, <1>40, <1>41,
     <1>42, <1>43, <1>44, <1>45, <1>46, <1>47 DEF Next, Manager, Daemon, Applying, Restoring,
     Committing

\* The manager keeps its type.
LEMMA ManagerTyped == ASSUME Rules, [Next]_vars PROVE ManagerOK'
<1> USE DEF Rules, ManagerOK, TypeOK, Prelude, Opened, Ensures, Removes, Restores, Applies,
            HasDriver, HasDirectories, HasVersion, HasUnit, Apply, Proceed, RollBack, Restored,
            Fault, Broken, Tried, Refused, End, Unknown, files, log, host, service, memory, history, excuses, NoExcuse
<1>1. CASE Attach BY <1>1, ZenonT(60) DEF Attach, Admits
<1>2. CASE Detach BY <1>2, ZenonT(60) DEF Detach
<1>3. CASE DaemonCrash BY <1>3, ZenonT(60) DEF DaemonCrash, Gone
<1>4. CASE DaemonStart BY <1>4, ZenonT(60) DEF DaemonStart
<1>5. CASE Recover BY <1>5 DEF Recover
<1>6. CASE Dispatch BY <1>6 DEF Dispatch, Seen
<1>7. CASE Confirm BY <1>7 DEF Confirm
<1>8. CASE Maintain BY <1>8 DEF Maintain, Seen
<1>9. CASE Consent BY <1>9 DEF Consent
<1>10. CASE Check BY <1>10 DEF Check
<1>11. CASE TakeSnapshot BY <1>11 DEF TakeSnapshot, FirstStep, Image
<1>12. CASE PrepareDriver BY <1>12 DEF PrepareDriver
<1>13. CASE MakeDirectories BY <1>13 DEF MakeDirectories, AfterDirectories
<1>14. CASE Halt BY <1>14 DEF Halt, AfterHalt, StopUnit, Gone
<1>15. CASE SaveVersion BY <1>15 DEF SaveVersion
<1>16. CASE Retained BY <1>16 DEF Retained
<1>17. CASE BackUp BY <1>17 DEF BackUp, SetVersion
<1>18. CASE Publish BY <1>18 DEF Publish, SetVersion
<1>19. CASE WriteUnit BY <1>19 DEF WriteUnit
<1>20. CASE Enable BY <1>20 DEF Enable
<1>21. CASE StartNew BY <1>21 DEF StartNew, StartUnit
<1>22. CASE Verify BY <1>22 DEF Verify
<1>23. CASE WriteRecord BY <1>23 DEF WriteRecord
<1>24. CASE SaveRemoval BY <1>24 DEF SaveRemoval
<1>25. CASE MoveAway BY <1>25 DEF MoveAway
<1>26. CASE RemoveUnit BY <1>26 DEF RemoveUnit
<1>27. CASE RestoreStop BY <1>27 DEF RestoreStop, StopUnit, Gone
<1>28. CASE RestoreRoot
  <2>1. CASE End("stuck")
    BY <1>28, <2>1 DEF RestoreRoot
  <2>2. CASE pc' = "versions" /\ UNCHANGED <<request, mode, undo, outcome, lease>>
    BY <2>2
  <2>3. QED
    BY <1>28, <2>1, <2>2 DEF RestoreRoot
<1>29. CASE RestoreVersion BY <1>29 DEF RestoreVersion, SetVersion
<1>30. CASE RestoreDirectory BY <1>30 DEF RestoreDirectory
<1>31. CASE RestoreDisable BY <1>31 DEF RestoreDisable
<1>32. CASE RestoreUnit BY <1>32 DEF RestoreUnit
<1>33. CASE RestorePolicy BY <1>33 DEF RestorePolicy
<1>34. CASE RestoreDriver BY <1>34 DEF RestoreDriver
<1>35. CASE RestoreEnable BY <1>35 DEF RestoreEnable
<1>36. CASE RestoreStart BY <1>36 DEF RestoreStart, StartUnit
<1>37. CASE RestoreModule BY <1>37 DEF RestoreModule
<1>38. CASE RestoreAbsence BY <1>38 DEF RestoreAbsence
<1>39. CASE EndRestore BY <1>39 DEF EndRestore
<1>40. CASE Commit BY <1>40 DEF Commit
<1>41. CASE Collect BY <1>41 DEF Collect
<1>42. CASE Retire BY <1>42 DEF Retire
<1>43. CASE Clean BY <1>43 DEF Clean, Ended
<1>44. CASE Crash BY <1>44 DEF Crash
<1>45. CASE Reboot BY <1>45 DEF Reboot
<1>46. ASSUME NEW r \in Requests, Manage(r) PROVE ManagerOK'
  BY <1>46 DEF Manage
<1>47. CASE UNCHANGED vars
  <2>1. pc' = pc /\ lease' = lease /\ undo' = undo /\ mode' = mode /\ request' = request /\ outcome' = outcome
    BY <1>47 DEF vars
  <2>2. QED
    BY <2>1, ZenonT(60)
<1> QED
  BY <1>1, <1>2, <1>3, <1>4, <1>5, <1>6, <1>7, <1>8, <1>9, <1>10, <1>11, <1>12, <1>13, <1>14, <1>15,
     <1>16, <1>17, <1>18, <1>19, <1>20, <1>21, <1>22, <1>23, <1>24, <1>25, <1>26, <1>27, <1>28,
     <1>29, <1>30, <1>31, <1>32, <1>33, <1>34, <1>35, <1>36, <1>37, <1>38, <1>39, <1>40, <1>41,
     <1>42, <1>43, <1>44, <1>45, <1>46, <1>47 DEF Next, Manager, Daemon, Applying, Restoring,
     Committing

LEMMA StepTyped == ASSUME Rules, [Next]_vars PROVE TypeOK'
<1>1. FlagsOK /\ undo \in Snapshots
  BY TypeParts DEF Rules, SavedOK
<1>2. FilesOK' /\ SavedOK' /\ FlagsOK' /\ ManagerOK'
  BY <1>1, FilesTyped, SavedTyped, HostFlagsTyped, RunFlagsTyped, ManagerTyped DEF FlagsOK
<1>3. (TypeOK <=> FilesOK /\ SavedOK /\ FlagsOK /\ ManagerOK)'
  BY TypeParts, PTL
<1>4. QED
  BY <1>2, <1>3

----------------------------------------------------------------------------
(* The manager, its journal and its request. *)

LEMMA JournalFields ==
  ASSUME NEW j \in Journals
  PROVE  /\ \A s \in Snapshots :
              /\ [j EXCEPT !.saved = s] # None /\ [j EXCEPT !.saved = s].saved = s
              /\ [j EXCEPT !.saved = s].committed = j.committed /\ [j EXCEPT !.saved = s].backup = j.backup
         /\ \A v \in VersionStates :
              /\ [j EXCEPT !.backup = v] # None /\ [j EXCEPT !.backup = v].saved = j.saved
              /\ [j EXCEPT !.backup = v].committed = j.committed /\ [j EXCEPT !.backup = v].backup = v
         /\ \A c \in BOOLEAN :
              /\ [j EXCEPT !.committed = c] # None /\ [j EXCEPT !.committed = c].saved = j.saved
              /\ [j EXCEPT !.committed = c].committed = c /\ [j EXCEPT !.committed = c].backup = j.backup
<1>1. ASSUME NEW s \in Snapshots PROVE [j EXCEPT !.saved = s] # None
  <2>1. [j EXCEPT !.saved = s] \in Journals
    BY DEF Journals
  <2>2. QED
    BY <2>1, NoneIsNoJournal
<1>2. ASSUME NEW v \in VersionStates PROVE [j EXCEPT !.backup = v] # None
  <2>1. [j EXCEPT !.backup = v] \in Journals
    BY DEF Journals
  <2>2. QED
    BY <2>1, NoneIsNoJournal
<1>3. ASSUME NEW c \in BOOLEAN PROVE [j EXCEPT !.committed = c] # None
  <2>1. [j EXCEPT !.committed = c] \in Journals
    BY DEF Journals
  <2>2. QED
    BY <2>1, NoneIsNoJournal
<1>4. QED
  BY <1>1, <1>2, <1>3 DEF Journals

LEMMA PutVersion ==
  ASSUME NEW t \in Trees, NEW d \in Digests, NEW v \in VersionStates
  PROVE  [t EXCEPT !.versions[d] = v] \in Trees /\ [t EXCEPT !.versions[d] = v] # None
<1>1. [t EXCEPT !.versions[d] = v] \in Trees
  BY DEF Trees
<1>2. QED
  BY <1>1, NoneIsNoTree

\* What a step of the transaction can do to a journal keeps it open.
LEMMA SavedMoves ==
  ASSUME journal \in Journals, undo' \in Snapshots,
         journal' = journal \/ journal' = [journal EXCEPT !.saved = undo']
  PROVE  /\ journal' # None /\ journal'.committed = journal.committed /\ journal'.backup = journal.backup
         /\ journal'.saved = journal.saved \/ journal'.saved = undo'
<1>1. CASE journal' = journal
  BY <1>1, NoneIsNoJournal
<1>2. CASE journal' = [journal EXCEPT !.saved = undo']
  BY <1>2, JournalFields
<1>3. QED
  BY <1>1, <1>2

LEMMA BackupMoves ==
  ASSUME journal \in Journals, NEW v \in VersionStates,
         journal' = journal \/ journal' = [journal EXCEPT !.backup = v]
  PROVE  /\ journal' # None /\ journal'.committed = journal.committed /\ journal'.saved = journal.saved
         /\ journal'.backup = journal.backup \/ journal'.backup = v
<1>1. CASE journal' = journal
  BY <1>1, NoneIsNoJournal
<1>2. CASE journal' = [journal EXCEPT !.backup = v]
  BY <1>2, JournalFields
<1>3. QED
  BY <1>1, <1>2

\* The manager keeps to its journal.
LEMMA ControlKept == ASSUME Rules, [Next]_vars PROVE Control'
<1> USE DEF Rules, Control, Pending, Prelude, Opened, Ensures, Removes, Restores, Applies,
            HasDriver, HasDirectories, HasVersion, HasUnit, Apply, Proceed, RollBack, Restored,
            Fault, Broken, Tried, Refused, End, Unknown, files, log, host, service, memory, history, excuses, NoExcuse
<1>1. CASE Attach BY <1>1 DEF Attach, Admits
<1>2. CASE Detach BY <1>2 DEF Detach
<1>3. CASE DaemonCrash BY <1>3 DEF DaemonCrash, Gone
<1>4. CASE DaemonStart BY <1>4 DEF DaemonStart
<1>5. CASE Recover BY <1>5 DEF Recover
<1>6. CASE Dispatch BY <1>6 DEF Dispatch, Seen
<1>7. CASE Confirm BY <1>7 DEF Confirm
<1>8. CASE Maintain BY <1>8 DEF Maintain, Seen
<1>9. CASE Consent BY <1>9 DEF Consent
<1>10. CASE Check BY <1>10 DEF Check
<1>11. CASE TakeSnapshot
  <2>1. CASE Refused
    BY <1>11, <2>1 DEF TakeSnapshot
  <2>2. CASE pc' = FirstStep /\ Snapped(undo') /\ journal' = [saved |-> undo', committed |-> FALSE, backup |-> "absent"]
             /\ UNCHANGED <<mode, outcome>>
    <3>0. [saved |-> undo', committed |-> FALSE, backup |-> "absent"] \in Journals
      BY <2>2, TakenType DEF Rules, Journals, VersionStates
    <3>1. journal' # None /\ ~journal'.committed
      BY <2>2, <3>0, NoneIsNoJournal
    <3>2. mode = "apply" /\ outcome = "none"
      BY <1>11 DEF TakeSnapshot
    <3>3. QED
      BY <2>2, <3>1, <3>2 DEF FirstStep
  <2>3. QED
    BY <1>11, <2>1, <2>2 DEF TakeSnapshot, Snapped
<1>12. CASE PrepareDriver BY <1>12 DEF PrepareDriver
<1>13. CASE MakeDirectories BY <1>13 DEF MakeDirectories, AfterDirectories
<1>14. CASE Halt BY <1>14 DEF Halt, AfterHalt, StopUnit, Gone
<1>15. CASE SaveVersion
  <2>1. journal \in Journals
    BY <1>15 DEF SaveVersion, TypeOK
  <2>2. undo' \in Snapshots
    <3> HIDE DEF Rules
    <3>1. [Next]_vars
      BY <1>15 DEF Next, Manager, Applying
    <3>2. QED
      BY <3>1, SavedTyped DEF SavedOK
  <2>3. journal' = journal \/ journal' = [journal EXCEPT !.saved = undo']
    BY <1>15 DEF SaveVersion
  <2>4. journal' # None /\ journal'.committed = journal.committed
    BY <2>1, <2>2, <2>3, SavedMoves
  <2>5. QED
    BY <1>15, <2>4 DEF SaveVersion
<1>16. CASE Retained BY <1>16 DEF Retained
<1>17. CASE BackUp
  <2>1. journal \in Journals
    BY <1>17 DEF BackUp, TypeOK
  <2>2. Version(Target) \in VersionStates
    BY <1>17, Targets, TreeTypes DEF BackUp, Version, VersionStates, TypeOK, Asked
  <2>3. journal' = journal \/ journal' = [journal EXCEPT !.backup = Version(Target)]
    BY <1>17 DEF BackUp
  <2>4. journal' # None /\ journal'.committed = journal.committed
    BY <2>1, <2>2, <2>3, BackupMoves
  <2>5. QED
    BY <1>17, <2>4 DEF BackUp
<1>18. CASE Publish BY <1>18 DEF Publish, SetVersion
<1>19. CASE WriteUnit BY <1>19 DEF WriteUnit
<1>20. CASE Enable BY <1>20 DEF Enable
<1>21. CASE StartNew BY <1>21 DEF StartNew, StartUnit
<1>22. CASE Verify BY <1>22 DEF Verify
<1>23. CASE WriteRecord BY <1>23 DEF WriteRecord
<1>24. CASE SaveRemoval
  <2>1. journal \in Journals
    BY <1>24 DEF SaveRemoval, TypeOK
  <2>2. undo' \in Snapshots
    <3> HIDE DEF Rules
    <3>1. [Next]_vars
      BY <1>24 DEF Next, Manager, Applying
    <3>2. QED
      BY <3>1, SavedTyped DEF SavedOK
  <2>3. journal' = journal \/ journal' = [journal EXCEPT !.saved = undo']
    BY <1>24 DEF SaveRemoval
  <2>4. journal' # None /\ journal'.committed = journal.committed
    BY <2>1, <2>2, <2>3, SavedMoves
  <2>5. QED
    BY <1>24, <2>4 DEF SaveRemoval
<1>25. CASE MoveAway BY <1>25 DEF MoveAway
<1>26. CASE RemoveUnit BY <1>26 DEF RemoveUnit
<1>27. CASE RestoreStop BY <1>27 DEF RestoreStop, StopUnit, Gone
<1>28. CASE RestoreRoot BY <1>28 DEF RestoreRoot
<1>29. CASE RestoreVersion
  <2>1. journal \in Journals
    BY <1>29 DEF RestoreVersion, TypeOK
  <2>2. "absent" \in VersionStates
    BY DEF VersionStates
  <2>3. journal' = journal \/ journal' = [journal EXCEPT !.backup = "absent"]
    BY <1>29 DEF RestoreVersion
  <2>4. journal' # None /\ journal'.committed = journal.committed
    BY <2>1, <2>2, <2>3, BackupMoves
  <2>5. QED
    BY <1>29, <2>4 DEF RestoreVersion
<1>30. CASE RestoreDirectory BY <1>30 DEF RestoreDirectory
<1>31. CASE RestoreDisable BY <1>31 DEF RestoreDisable
<1>32. CASE RestoreUnit BY <1>32 DEF RestoreUnit
<1>33. CASE RestorePolicy BY <1>33 DEF RestorePolicy
<1>34. CASE RestoreDriver BY <1>34 DEF RestoreDriver
<1>35. CASE RestoreEnable BY <1>35 DEF RestoreEnable
<1>36. CASE RestoreStart BY <1>36 DEF RestoreStart, StartUnit
<1>37. CASE RestoreModule BY <1>37 DEF RestoreModule
<1>38. CASE RestoreAbsence BY <1>38 DEF RestoreAbsence
<1>39. CASE EndRestore BY <1>39 DEF EndRestore
<1>40. CASE Commit
  <2>1. CASE pc' = "idle" /\ mode' = "apply"
    BY <2>1
  <2>2. CASE pc' = "collect" /\ journal' = [journal EXCEPT !.committed = TRUE] /\ UNCHANGED outcome
    <3>1. journal' # None /\ journal'.committed
      BY <1>40, <2>2, JournalFields, JournalTypes DEF TypeOK, Commit
    <3>2. QED
      BY <1>40, <2>2, <3>1 DEF Commit
  <2>3. CASE RollBack /\ UNCHANGED journal
    BY <1>40, <2>3 DEF Commit
  <2>4. QED
    BY <1>40, <2>1, <2>2, <2>3 DEF Commit
<1>41. CASE Collect BY <1>41 DEF Collect
<1>42. CASE Retire BY <1>42 DEF Retire
<1>43. CASE Clean BY <1>43 DEF Clean, Ended
<1>44. CASE Crash BY <1>44 DEF Crash
<1>45. CASE Reboot BY <1>45 DEF Reboot
<1>46. ASSUME NEW r \in Requests, Manage(r) PROVE Control'
  <2>1. mode = "apply" /\ pc' = "recover" /\ mode' = mode /\ outcome' = "none"
    BY <1>46 DEF Manage, TypeOK
  <2>2. QED
    BY <2>1
<1>47. CASE UNCHANGED vars BY <1>47 DEF vars
<1> QED
  BY <1>1, <1>2, <1>3, <1>4, <1>5, <1>6, <1>7, <1>8, <1>9, <1>10, <1>11, <1>12, <1>13, <1>14, <1>15,
     <1>16, <1>17, <1>18, <1>19, <1>20, <1>21, <1>22, <1>23, <1>24, <1>25, <1>26, <1>27, <1>28,
     <1>29, <1>30, <1>31, <1>32, <1>33, <1>34, <1>35, <1>36, <1>37, <1>38, <1>39, <1>40, <1>41,
     <1>42, <1>43, <1>44, <1>45, <1>46, <1>47 DEF Next, Manager, Daemon, Applying, Restoring,
     Committing

\* The request keeps deciding the steps.
LEMMA AskedKept == ASSUME Rules, [Next]_vars PROVE Asked'
<1> USE DEF Rules, Control, Asked, Ensuring, Pending, Prelude, Opened, Ensures, Removes, Restores,
            Applies, HasDriver, HasDirectories, HasVersion, HasUnit, Apply, Proceed, RollBack,
            Restored, Fault, Broken, Tried, Refused, End, Unknown, files, log, host, service,
            memory, history, excuses, NoExcuse
<1>1. CASE Attach BY <1>1 DEF Attach, Admits
<1>2. CASE Detach BY <1>2 DEF Detach
<1>3. CASE DaemonCrash BY <1>3 DEF DaemonCrash, Gone
<1>4. CASE DaemonStart BY <1>4 DEF DaemonStart
<1>5. CASE Recover BY <1>5 DEF Recover
<1>6. CASE Dispatch
  <2>1. CASE pc' = "idle"
    BY <2>1
  <2>2. CASE Acceptable /\ pc' \in {"confirm", "snapshot", "maintain"} /\ UNCHANGED <<files, request>>
    <3>1. removing = None /\ (~Ensuring => root # None)
      BY <2>2 DEF Acceptable, Policy
    <3>2. QED
      BY <2>2, <3>1
  <2>3. QED
    BY <1>6, <2>1, <2>2 DEF Dispatch
<1>7. CASE Confirm BY <1>7 DEF Confirm
<1>8. CASE Maintain BY <1>8 DEF Maintain, Seen
<1>9. CASE Consent BY <1>9 DEF Consent
<1>10. CASE Check BY <1>10 DEF Check
<1>11. CASE TakeSnapshot
  <2>1. CASE pc' = "idle"
    BY <2>1
  <2>2. CASE pc' = FirstStep /\ UNCHANGED <<root, request>>
    <3>1. root' # None \/ Ensuring
      BY <1>11, <2>2 DEF TakeSnapshot
    <3>2. QED
      BY <2>2, <3>1 DEF FirstStep, Requests, TypeOK
  <2>3. QED
    BY <1>11, <2>1, <2>2 DEF TakeSnapshot, Snapped
<1>12. CASE PrepareDriver BY <1>12 DEF PrepareDriver
<1>13. CASE MakeDirectories
  <2>1. Ensuring /\ request' = request
    BY <1>13 DEF MakeDirectories
  <2>2. CASE pc' = "stop service"
    BY <2>2
  <2>3. CASE pc' \in {"halt", "save version"} /\ root' # None
    BY <2>1, <2>3
  <2>4. QED
    BY <1>13, <2>2, <2>3, EmptyTreeType, NoneIsNoTree DEF MakeDirectories, AfterDirectories
<1>14. CASE Halt
  <2>1. CASE pc' = "stop service"
    BY <2>1
  <2>2. CASE pc' = AfterHalt /\ UNCHANGED <<root, request>>
    BY <1>14, <2>2 DEF Halt, AfterHalt, Requests, TypeOK
  <2>3. QED
    BY <1>14, <2>1, <2>2 DEF Halt
<1>15. CASE SaveVersion BY <1>15 DEF SaveVersion
<1>16. CASE Retained BY <1>16 DEF Retained
<1>17. CASE BackUp
  <2>1. Target \in Digests /\ root \in Trees
    BY <1>17, Targets DEF BackUp, TypeOK
  <2>2. "absent" \in VersionStates
    BY DEF VersionStates
  <2>3. [root EXCEPT !.versions[Target] = "absent"] # None
    BY <2>1, <2>2, PutVersion
  <2>4. QED
    BY <1>17, <2>3 DEF BackUp, SetVersion
<1>18. CASE Publish
  <2>1. Target \in Digests /\ root \in Trees
    BY <1>18, Targets DEF Publish, TypeOK
  <2>2. "good" \in VersionStates
    BY DEF VersionStates
  <2>3. [root EXCEPT !.versions[Target] = "good"] # None
    BY <2>1, <2>2, PutVersion
  <2>4. QED
    BY <1>18, <2>3 DEF Publish, SetVersion
<1>19. CASE WriteUnit BY <1>19 DEF WriteUnit
<1>20. CASE Enable BY <1>20 DEF Enable
<1>21. CASE StartNew BY <1>21 DEF StartNew, StartUnit
<1>22. CASE Verify BY <1>22 DEF Verify
<1>23. CASE WriteRecord BY <1>23 DEF WriteRecord
<1>24. CASE SaveRemoval BY <1>24 DEF SaveRemoval
<1>25. CASE MoveAway BY <1>25 DEF MoveAway
<1>26. CASE RemoveUnit BY <1>26 DEF RemoveUnit
<1>27. CASE RestoreStop BY <1>27 DEF RestoreStop, StopUnit, Gone
<1>28. CASE RestoreRoot BY <1>28 DEF RestoreRoot
<1>29. CASE RestoreVersion BY <1>29 DEF RestoreVersion, SetVersion
<1>30. CASE RestoreDirectory BY <1>30 DEF RestoreDirectory
<1>31. CASE RestoreDisable BY <1>31 DEF RestoreDisable
<1>32. CASE RestoreUnit BY <1>32 DEF RestoreUnit
<1>33. CASE RestorePolicy BY <1>33 DEF RestorePolicy
<1>34. CASE RestoreDriver BY <1>34 DEF RestoreDriver
<1>35. CASE RestoreEnable BY <1>35 DEF RestoreEnable
<1>36. CASE RestoreStart BY <1>36 DEF RestoreStart, StartUnit
<1>37. CASE RestoreModule BY <1>37 DEF RestoreModule
<1>38. CASE RestoreAbsence BY <1>38 DEF RestoreAbsence
<1>39. CASE EndRestore BY <1>39 DEF EndRestore
<1>40. CASE Commit BY <1>40 DEF Commit
<1>41. CASE Collect BY <1>41 DEF Collect
<1>42. CASE Retire BY <1>42 DEF Retire
<1>43. CASE Clean BY <1>43 DEF Clean, Ended
<1>44. CASE Crash BY <1>44 DEF Crash
<1>45. CASE Reboot BY <1>45 DEF Reboot
<1>46. ASSUME NEW r \in Requests, Manage(r) PROVE Asked'
  <2>1. pc' = "recover"
    BY <1>46 DEF Manage
  <2>2. QED
    BY <2>1
<1>47. CASE UNCHANGED vars BY <1>47 DEF vars
<1> QED
  BY <1>1, <1>2, <1>3, <1>4, <1>5, <1>6, <1>7, <1>8, <1>9, <1>10, <1>11, <1>12, <1>13, <1>14, <1>15,
     <1>16, <1>17, <1>18, <1>19, <1>20, <1>21, <1>22, <1>23, <1>24, <1>25, <1>26, <1>27, <1>28,
     <1>29, <1>30, <1>31, <1>32, <1>33, <1>34, <1>35, <1>36, <1>37, <1>38, <1>39, <1>40, <1>41,
     <1>42, <1>43, <1>44, <1>45, <1>46, <1>47 DEF Next, Manager, Daemon, Applying, Restoring,
     Committing

----------------------------------------------------------------------------
(* What a snapshot knows. *)

LEMMA Typed == ASSUME TypeOK
  PROVE /\ undo \in Snapshots /\ undo.published \in Digests \cup {None}
        /\ journal # None => /\ journal \in Journals /\ journal.saved \in Snapshots /\ journal.backup \in VersionStates
                             /\ journal.saved.published \in Digests \cup {None}
        /\ root # None => root \in Trees
        /\ base.root \in Trees \cup {None}
<1>1. undo \in Snapshots /\ undo.published \in Digests \cup {None}
  BY SnapshotTypes DEF TypeOK
<1>2. ASSUME journal # None
      PROVE  /\ journal \in Journals /\ journal.saved \in Snapshots /\ journal.backup \in VersionStates
             /\ journal.saved.published \in Digests \cup {None}
  BY <1>2, JournalTypes, SnapshotTypes DEF TypeOK
<1>3. (root # None => root \in Trees) /\ base.root \in Trees \cup {None}
  BY DEF TypeOK
<1>4. QED
  BY <1>1, <1>2, <1>3

LEMMA WasVersions ==
  ASSUME NEW b, b.root \in Trees \cup {None}
  PROVE  /\ b.root = None => Was(b) = NoVersions /\ \A d \in Digests : Was(b)[d] = "absent"
         /\ b.root # None => Was(b) = b.root.versions
         /\ Was(b) \in [Digests -> VersionStates]
<1>1. CASE b.root = None
  BY <1>1 DEF Was, Contract!VersionsOf, Contract!NoVersions, NoVersions, VersionStates
<1>2. CASE b.root # None
  BY <1>2 DEF Was, Contract!VersionsOf, Trees
<1>3. QED
  BY <1>1, <1>2

\* What is known depends on the versions of the tree only.
LEMMA KnowsVersions ==
  ASSUME NEW u, NEW k, NEW r, NEW a, NEW b, NEW t, Knows(u, k, r, a, b),
         (t = None) <=> (r = None), t # None => t.versions = r.versions
  PROVE  Knows(u, k, t, a, b)
  BY DEF Knows

\* What was moved away is whole, whatever stands in its place.
LEMMA KnowsAway ==
  ASSUME NEW u, NEW k, NEW r, NEW a, NEW b, NEW t, Knows(u, k, r, a, b), a # None
  PROVE  Knows(u, k, t, a, b)
  BY DEF Knows

LEMMA KnowsTaken ==
  ASSUME TypeOK, removing = None, NEW s, Snapped(s)
  PROVE  Knows(s, "absent", root, removing, Image)
<1>1. /\ s.rootExisted = (root # None) /\ s.policy = Policy /\ s.unit = unit
      /\ s.driver = driver /\ s.removing = FALSE /\ s.published = None
  BY TakenFields
<1>2. Image.root = root /\ Image.unit = unit /\ Image.driver = driver
  BY DEF Image
<1>3. root # None => Was(Image) = root.versions
  BY <1>2, WasVersions DEF TypeOK
<1> HIDE DEF Image
<1>4. QED
  BY <1>1, <1>2, <1>3 DEF Knows, PolicyOf, Policy

LEMMA KnowsDirectories ==
  ASSUME NEW u, NEW k, NEW b, b.root \in Trees \cup {None}, Knows(u, k, None, None, b), u.published = None
  PROVE  Knows(u, k, EmptyTree, None, b)
<1>1. b.root = None
  BY DEF Knows
<1>2. EmptyTree.versions = Was(b)
  BY <1>1, WasVersions DEF EmptyTree
<1>3. QED
  BY <1>1, <1>2 DEF Knows

LEMMA KnowsPublished ==
  ASSUME NEW u \in Snapshots, NEW r \in Trees, NEW b, Knows(u, "absent", r, None, b),
         NEW d \in Digests, u.published = None, ~u.removing, r.versions[d] # "good"
  PROVE  Knows([u EXCEPT !.published = d, !.replace = r.versions[d] = "altered"], "absent", r, None, b)
<1> DEFINE v == [u EXCEPT !.published = d, !.replace = r.versions[d] = "altered"]
<1>1. /\ v.rootExisted = u.rootExisted /\ v.policy = u.policy /\ v.unit = u.unit /\ v.driver = u.driver
      /\ v.removing = u.removing /\ v.published = d /\ v.replace = (r.versions[d] = "altered")
  BY DEF Snapshots
<1>2. r.versions[d] = Was(b)[d] /\ r.versions[d] \in {"absent", "altered"}
  BY DigestsAssumption, TreeTypes, NoneIsNoTree DEF Knows, VersionStates
<1> HIDE DEF v
<1>3. Knows(v, "absent", r, None, b)
  BY <1>1, <1>2, DigestsAssumption, NoneIsNoTree DEF Knows
<1>4. QED
  BY <1>3 DEF v

LEMMA KnowsBackup ==
  ASSUME NEW u, NEW r \in Trees, NEW b, Knows(u, "absent", r, None, b),
         u.published \in Digests, u.replace
  PROVE  Knows(u, r.versions[u.published], [r EXCEPT !.versions[u.published] = "absent"], None, b)
<1> DEFINE t == [r EXCEPT !.versions[u.published] = "absent"]
<1>1. t # None /\ t.versions[u.published] = "absent" /\ \A d \in Digests \ {u.published} : t.versions[d] = r.versions[d]
  <2>1. t \in Trees /\ t # None
    BY PutVersion DEF VersionStates
  <2>2. QED
    BY <2>1 DEF Trees
<1> HIDE DEF t
<1>2. r.versions[u.published] = Was(b)[u.published]
  BY DigestsAssumption, NoneIsNoTree DEF Knows
<1>3. Knows(u, r.versions[u.published], t, None, b)
  BY <1>1, <1>2, DigestsAssumption, NoneIsNoTree DEF Knows
<1>4. QED
  BY <1>3 DEF t

\* The version that is known to change may have any state, unless the only copy
\* of the old one is in its place.
LEMMA KnowsChange ==
  ASSUME NEW u, NEW k, NEW r \in Trees, NEW b, Knows(u, k, r, None, b), NEW v \in VersionStates,
         u.published \in Digests, u.replace => k # "absent"
  PROVE  Knows(u, k, [r EXCEPT !.versions[u.published] = v], None, b)
<1> DEFINE t == [r EXCEPT !.versions[u.published] = v]
<1>1. t # None /\ \A d \in Digests \ {u.published} : t.versions[d] = r.versions[d]
  <2>1. t \in Trees /\ t # None
    BY PutVersion
  <2>2. QED
    BY <2>1 DEF Trees
<1> HIDE DEF t
<1>2. Knows(u, k, t, None, b)
  BY <1>1, DigestsAssumption, NoneIsNoTree DEF Knows
<1>3. QED
  BY <1>2 DEF t

LEMMA KnowsRemoval ==
  ASSUME NEW u \in Snapshots, NEW r, NEW b, Knows(u, "absent", r, None, b), u.published = None, b.root # None
  PROVE  Knows([u EXCEPT !.removing = TRUE], "absent", r, None, b)
<1> DEFINE v == [u EXCEPT !.removing = TRUE]
<1>1. /\ v.rootExisted = u.rootExisted /\ v.policy = u.policy /\ v.unit = u.unit /\ v.driver = u.driver
      /\ v.removing = TRUE /\ v.published = None
  BY DEF Snapshots
<1> HIDE DEF v
<1>2. Knows(v, "absent", r, None, b)
  BY <1>1 DEF Knows
<1>3. QED
  BY <1>2 DEF v

LEMMA KnowsMoved ==
  ASSUME NEW u, NEW k, NEW r, NEW b, Knows(u, k, r, None, b), u.removing, r = b.root, r # None
  PROVE  Knows(u, k, None, r, b)
  BY DEF Knows

LEMMA KnowsReturned ==
  ASSUME NEW u, NEW k, NEW r, NEW a, NEW b, Knows(u, k, r, a, b), a # None, b.root \in Trees \cup {None}
  PROVE  Knows(u, k, a, None, b)
<1>1. a.versions = Was(b) /\ u.removing /\ a = b.root
  BY WasVersions DEF Knows
<1>2. QED
  BY <1>1 DEF Knows

\* The changed version is put back: one snapshot u knows what is to be done,
\* any other one v agrees afterwards.
LEMMA KnowsRestored ==
  ASSUME NEW u, NEW v, NEW k, NEW r \in Trees, NEW b, b.root \in Trees \cup {None},
         Knows(u, k, r, None, b), Knows(v, k, r, None, b), u.published \in Digests,
         NEW w, w = (IF u.replace /\ k # "absent" THEN k ELSE "absent"), ~u.replace \/ k # "absent",
         v.published \in Digests \cup {None}, w \in VersionStates
  PROVE  Knows(v, "absent", [r EXCEPT !.versions[u.published] = w], None, b)
<1> DEFINE t == [r EXCEPT !.versions[u.published] = w]
<1>1. /\ t # None /\ t.versions[u.published] = w
      /\ \A d \in Digests \ {u.published} : t.versions[d] = r.versions[d]
  <2>1. t \in Trees /\ t # None
    BY PutVersion
  <2>2. QED
    BY <2>1 DEF Trees
<1>2. w = Was(b)[u.published]
  BY DigestsAssumption DEF Knows
<1> HIDE DEF t
<1>3. \A d \in Digests : t.versions[d] = Was(b)[d]
  BY <1>1, <1>2, NoneIsNoTree DEF Knows
<1>4. Knows(v, "absent", t, None, b)
  BY <1>1, <1>3 DEF Knows
<1>5. QED
  BY <1>4 DEF t

LEMMA KnowsOther ==
  ASSUME NEW v, NEW k, NEW r, NEW b, NEW t, Knows(v, k, r, None, b), t # None,
         \A d \in Digests \ {v.published} : t.versions[d] = Was(b)[d],
         v.published # None /\ v.replace /\ k = "absent" => t.versions[v.published] = Was(b)[v.published]
  PROVE  Knows(v, k, t, None, b)
  BY DEF Knows

\* The same if putting it back fails halfway
LEMMA KnowsHalfRestored ==
  ASSUME NEW u, NEW v, NEW k, NEW r \in Trees, NEW b, b.root \in Trees \cup {None},
         Knows(u, k, r, None, b), Knows(v, k, r, None, b), u.published \in Digests,
         NEW w \in {"altered", "absent"}, w = "absent" \/ r.versions[u.published] # "absent",
         ~u.replace \/ k # "absent", v.published \in {None, u.published}
  PROVE  Knows(v, k, [r EXCEPT !.versions[u.published] = w], None, b)
<1> DEFINE t == [r EXCEPT !.versions[u.published] = w]
<1>1. /\ t # None /\ t.versions[u.published] = w
      /\ \A d \in Digests \ {u.published} : t.versions[d] = r.versions[d]
  <2>1. t \in Trees /\ t # None
    BY PutVersion DEF VersionStates
  <2>2. QED
    BY <2>1 DEF Trees
<1> HIDE DEF t
<1>2. u.published # None /\ r # None
  BY DigestsAssumption, NoneIsNoTree
<1>3. ASSUME k = "absent" PROVE Knows(v, k, t, None, b)
  <2>1. ~u.replace /\ Was(b)[u.published] = "absent"
    BY <1>2, <1>3 DEF Knows
  <2>2. v.published = None \/ v.replace => t.versions[u.published] = Was(b)[u.published]
    <3>1. v.published = None \/ v.replace => r.versions[u.published] = Was(b)[u.published]
      BY <1>2, <1>3 DEF Knows
    <3>2. QED
      BY <1>1, <2>1, <3>1
  <2>3. \A d \in Digests \ {v.published} : t.versions[d] = Was(b)[d]
    <3>1. \A d \in Digests \ {v.published} : r.versions[d] = Was(b)[d]
      BY <1>2 DEF Knows
    <3>2. CASE v.published = None
      BY <1>1, <2>2, <3>1, <3>2
    <3>3. CASE v.published = u.published
      BY <1>1, <3>1, <3>3
    <3>4. QED
      BY <3>2, <3>3
  <2>4. v.published # None /\ v.replace => t.versions[v.published] = Was(b)[v.published]
    BY <2>2
  <2>5. QED
    BY <1>1, <2>3, <2>4, KnowsOther
<1>4. ASSUME k # "absent" PROVE Knows(v, k, t, None, b)
  <2>1. v.published = u.published /\ v.replace
    BY <1>2, <1>4 DEF Knows
  <2>2. \A d \in Digests \ {v.published} : t.versions[d] = Was(b)[d]
    <3>1. \A d \in Digests \ {v.published} : r.versions[d] = Was(b)[d]
      BY <1>2 DEF Knows
    <3>2. QED
      BY <1>1, <2>1, <3>1
  <2>3. QED
    BY <1>1, <1>4, <2>2, KnowsOther
<1>5. QED
  BY <1>3, <1>4 DEF t

LEMMA KnowsAbsence ==
  ASSUME NEW u, NEW k, NEW r \in Trees, NEW a, NEW b, Knows(u, k, r, a, b), b.root = None,
         u.published \in Digests \cup {None}
  PROVE  Knows(u, k, None, a, b) /\ Knows(u, k, Remains(r), a, b)
<1>1. a = None
  BY DEF Knows
<1>2. \A d \in Digests : Was(b)[d] = "absent"
  BY WasVersions
<1>3. \A d \in Digests : r.versions[d] = "absent" => Remains(r).versions[d] = "absent"
  BY DEF Remains
<1>4. Remains(r) # None
  BY TreeTypes, NoneIsNoTree
<1>5. Knows(u, k, None, a, b)
  BY <1>1 DEF Knows
<1>6. Knows(u, k, Remains(r), a, b)
  BY <1>1, <1>2, <1>3, <1>4, NoneIsNoTree DEF Knows
<1>7. QED
  BY <1>5, <1>6

\* The snapshots keep knowing all that has changed.
LEMMA CoveredKept == ASSUME Rules, Covered, Installing, Uninstalling, [Next]_vars PROVE Covered'
<1> USE DEF Rules, Covered, Control, Working, Pending, Prelude, Opened, Ensures, Removes, Restores,
            Applies, HasDriver, HasDirectories, HasVersion, HasUnit, Apply, Proceed, RollBack,
            Restored, Fault, Broken, Tried, Refused, End, Unknown, files, log, host, service,
            memory, history, excuses, NoExcuse
<1>1. CASE Attach BY <1>1 DEF Attach, Admits
<1>2. CASE Detach BY <1>2 DEF Detach
<1>3. CASE DaemonCrash BY <1>3 DEF DaemonCrash, Gone
<1>4. CASE DaemonStart BY <1>4 DEF DaemonStart
<1>5. CASE Recover BY <1>5 DEF Recover
<1>6. CASE Dispatch BY <1>6 DEF Dispatch, Seen
<1>7. CASE Confirm BY <1>7 DEF Confirm
<1>8. CASE Maintain BY <1>8 DEF Maintain, Seen
<1>9. CASE Consent BY <1>9 DEF Consent
<1>10. CASE Check BY <1>10 DEF Check
<1>11. CASE TakeSnapshot
  <2>1. CASE journal' = journal
    BY <1>11, <2>1 DEF TakeSnapshot
  <2>2. CASE /\ Snapped(undo') /\ journal' = [saved |-> undo', committed |-> FALSE, backup |-> "absent"]
             /\ base' = Image /\ UNCHANGED <<files, mode>>
    <3>1. removing = None /\ mode = "apply"
      BY <1>11 DEF TakeSnapshot, Asked
    <3>2. Knows(undo', "absent", root, removing, Image)
      BY <2>2, <3>1, KnowsTaken
    <3>3. journal'.saved = undo' /\ journal'.backup = "absent" /\ root' = root /\ removing' = removing /\ mode' = mode
      BY <2>2
    <3>4. QED
      BY <2>2, <3>1, <3>2, <3>3
  <2>3. QED
    BY <1>11, <2>1, <2>2 DEF TakeSnapshot, Snapped
<1>12. CASE PrepareDriver BY <1>12 DEF PrepareDriver
<1>13. CASE MakeDirectories
  <2>1. CASE UNCHANGED root
    BY <1>13, <2>1 DEF MakeDirectories
  <2>2. CASE root = None /\ root' = EmptyTree
    <3>1. removing = None /\ undo.published = None /\ undo = journal.saved
      BY <1>13 DEF MakeDirectories, Installing, Asked
    <3>2. Knows(undo, journal.backup, EmptyTree, None, base)
      BY <1>13, <2>2, <3>1, Typed, KnowsDirectories DEF MakeDirectories
    <3>3. QED
      BY <1>13, <2>2, <3>1, <3>2 DEF MakeDirectories
  <2>3. QED
    BY <1>13, <2>1, <2>2 DEF MakeDirectories
<1>14. CASE Halt BY <1>14 DEF Halt, AfterHalt, StopUnit, Gone
<1>15. CASE SaveVersion
  <2>1. /\ Target \in Digests /\ root \in Trees /\ removing = None /\ undo \in Snapshots
        /\ undo.published = None /\ ~undo.removing /\ undo = journal.saved /\ journal \in Journals
    BY <1>15, Targets, Typed DEF SaveVersion, Installing, Asked, TypeOK
  <2>2. Knows(undo, "absent", root, None, base) /\ journal.backup = "absent"
    BY <1>15, <2>1 DEF SaveVersion, Knows
  <2>3. undo' = [undo EXCEPT !.published = Target, !.replace = root.versions[Target] = "altered"]
    BY <1>15, <2>1, NoneIsNoTree DEF SaveVersion, Version
  <2>4. Knows(undo', "absent", root, None, base)
    <3>1. root.versions[Target] # "good"
      BY <1>15, <2>1, NoneIsNoTree DEF SaveVersion, Version
    <3>2. QED
      BY <2>1, <2>2, <2>3, <3>1, KnowsPublished
  <2>5. undo'.published = Target /\ undo' \in Snapshots
    BY <2>1, <2>3 DEF Snapshots
  <2>6. /\ journal'.backup = "absent" /\ journal' # None /\ ~journal'.committed
        /\ journal'.saved = undo' \/ (journal'.saved = undo /\ mode' = "rollback")
    <3>1. CASE journal' = journal /\ mode' = "rollback"
      BY <1>15, <2>1, <2>2, <3>1 DEF SaveVersion
    <3>2. CASE journal' = [journal EXCEPT !.saved = undo']
      <4>1. /\ journal' # None /\ journal'.saved = undo'
            /\ journal'.committed = journal.committed /\ journal'.backup = journal.backup
        <5>1. journal \in Journals /\ undo' \in Snapshots
          BY <2>1, <2>5
        <5>2. QED
          BY <5>1, <3>2, JournalFields
      <4>2. QED
        BY <1>15, <2>2, <4>1 DEF SaveVersion
    <3>3. QED
      BY <1>15, <3>1, <3>2 DEF SaveVersion
  <2>7. QED
    BY <1>15, <2>1, <2>2, <2>4, <2>5, <2>6 DEF SaveVersion
<1>16. CASE Retained BY <1>16 DEF Retained
<1>17. CASE BackUp
  <2>1. /\ Target \in Digests /\ root \in Trees /\ removing = None /\ undo.published = Target /\ undo.replace
        /\ undo = journal.saved /\ journal \in Journals /\ journal.backup = "absent"
    BY <1>17, Targets, Typed DEF BackUp, Installing, Asked, TypeOK
  <2>2. CASE UNCHANGED <<root, journal>>
    BY <1>17, <2>2 DEF BackUp
  <2>3. CASE SetVersion(Target, "absent") /\ journal' = [journal EXCEPT !.backup = Version(Target)]
    <3>1. Knows(undo, root.versions[Target], [root EXCEPT !.versions[Target] = "absent"], None, base)
      BY <1>17, <2>1, KnowsBackup DEF BackUp
    <3>2. journal'.backup = root.versions[Target] /\ journal' # None /\ ~journal'.committed /\ journal'.saved = undo
      <4>1. Version(Target) = root.versions[Target] /\ root.versions[Target] \in VersionStates
        BY <2>1, TreeTypes, NoneIsNoTree DEF Version
      <4>2. journal' = [journal EXCEPT !.backup = root.versions[Target]]
        BY <2>3, <4>1
      <4>3. /\ journal' # None /\ journal'.saved = journal.saved
            /\ journal'.committed = journal.committed /\ journal'.backup = root.versions[Target]
        BY <2>1, <4>1, <4>2, JournalFields, ZenonT(60)
      <4>4. QED
        BY <1>17, <2>1, <4>3 DEF BackUp
    <3>3. Knows(undo, journal'.backup, root', None, base)
      BY <2>3, <3>1, <3>2 DEF SetVersion
    <3>4. QED
      BY <1>17, <2>1, <3>2, <3>3 DEF BackUp
  <2>4. QED
    BY <1>17, <2>2, <2>3 DEF BackUp
<1>18. CASE Publish
  <2>1. /\ Target \in Digests /\ root \in Trees /\ removing = None /\ undo.published = Target
        /\ undo = journal.saved /\ undo.replace => journal.backup # "absent"
    BY <1>18, Targets, Typed DEF Publish, Installing, Asked, TypeOK
  <2>2. CASE UNCHANGED root
    BY <1>18, <2>2 DEF Publish
  <2>3. CASE SetVersion(Target, "good")
    <3>1. "good" \in VersionStates
      BY DEF VersionStates
    <3>2. Knows(undo, journal.backup, [root EXCEPT !.versions[Target] = "good"], None, base)
      BY <1>18, <2>1, <3>1, KnowsChange DEF Publish
    <3>3. Knows(undo, journal.backup, root', None, base)
      BY <2>3, <3>2 DEF SetVersion
    <3>4. QED
      BY <1>18, <2>1, <3>3 DEF Publish
  <2>4. QED
    BY <1>18, <2>2, <2>3 DEF Publish
<1>19. CASE WriteUnit BY <1>19 DEF WriteUnit
<1>20. CASE Enable BY <1>20 DEF Enable
<1>21. CASE StartNew BY <1>21 DEF StartNew, StartUnit
<1>22. CASE Verify BY <1>22 DEF Verify
<1>23. CASE WriteRecord
  <2>1. CASE UNCHANGED root
    BY <1>23, <2>1 DEF WriteRecord
  <2>2. CASE root # None /\ root' = [root EXCEPT !.policy = Target]
    <3>1. root' # None /\ root'.versions = root.versions
      <4>1. root \in Trees
        BY <2>2, Typed
      <4>2. Target \in Digests \cup {None}
        BY <1>23, Targets, Typed, SnapshotTypes DEF WriteRecord, Asked, TypeOK
      <4>3. root' \in Trees
        BY <2>2, <4>1, <4>2, TreeTypes
      <4>4. QED
        BY <2>2, <4>1, <4>3, NoneIsNoTree DEF Trees
    <3>2. /\ Knows(journal.saved, journal.backup, root', removing, base)
          /\ Knows(undo, journal.backup, root', removing, base)
      BY <1>23, <2>2, <3>1, KnowsVersions DEF WriteRecord
    <3>3. QED
      BY <1>23, <3>2 DEF WriteRecord
  <2>3. QED
    BY <1>23, <2>1, <2>2 DEF WriteRecord, Asked
<1>24. CASE SaveRemoval
  <2>1. /\ base.root # None /\ removing = None /\ undo \in Snapshots
        /\ undo.published = None /\ undo = journal.saved /\ journal \in Journals
    BY <1>24, Typed DEF SaveRemoval, Uninstalling, Asked
  <2>2. Knows(undo, "absent", root, None, base) /\ journal.backup = "absent"
    BY <1>24, <2>1 DEF SaveRemoval, Knows
  <2>3. undo' = [undo EXCEPT !.removing = TRUE]
    BY <1>24 DEF SaveRemoval
  <2>4. Knows(undo', "absent", root, None, base)
    BY <2>1, <2>2, <2>3, KnowsRemoval
  <2>5. undo'.published = None /\ undo' \in Snapshots
    BY <2>1, <2>3 DEF Snapshots
  <2>6. /\ journal'.backup = "absent" /\ journal' # None /\ ~journal'.committed
        /\ journal'.saved = undo' \/ (journal'.saved = undo /\ mode' = "rollback")
    <3>1. CASE journal' = journal /\ mode' = "rollback"
      BY <1>24, <2>1, <2>2, <3>1 DEF SaveRemoval
    <3>2. CASE journal' = [journal EXCEPT !.saved = undo']
      <4>1. /\ journal' # None /\ journal'.saved = undo'
            /\ journal'.committed = journal.committed /\ journal'.backup = journal.backup
        BY <2>1, <2>5, <3>2, JournalFields
      <4>2. QED
        BY <1>24, <2>2, <4>1 DEF SaveRemoval
    <3>3. QED
      BY <1>24, <3>1, <3>2 DEF SaveRemoval
  <2>7. QED
    BY <1>24, <2>1, <2>2, <2>4, <2>5, <2>6 DEF SaveRemoval
<1>25. CASE MoveAway
  <2>1. root = base.root /\ root # None /\ removing = None /\ undo.removing /\ undo = journal.saved
    BY <1>25 DEF MoveAway, Uninstalling, Asked
  <2>2. CASE UNCHANGED <<root, removing>>
    BY <1>25, <2>2 DEF MoveAway
  <2>3. CASE root' = None /\ removing' = root
    <3>1. Knows(undo, journal.backup, None, root, base)
      BY <1>25, <2>1, KnowsMoved DEF MoveAway
    <3>2. QED
      BY <1>25, <2>1, <2>3, <3>1 DEF MoveAway
  <2>4. QED
    BY <1>25, <2>2, <2>3 DEF MoveAway
<1>26. CASE RemoveUnit BY <1>26 DEF RemoveUnit
<1>27. CASE RestoreStop BY <1>27 DEF RestoreStop, StopUnit, Gone
<1>28. CASE RestoreRoot
  <2>1. CASE UNCHANGED <<root, removing>>
    BY <1>28, <2>1 DEF RestoreRoot
  <2>2. CASE removing # None /\ root' = removing /\ removing' = None
    <3>1. /\ Knows(journal.saved, journal.backup, removing, None, base)
          /\ Knows(undo, journal.backup, removing, None, base)
      BY <1>28, <2>2, KnowsReturned, Typed DEF RestoreRoot
    <3>2. QED
      BY <1>28, <2>2, <3>1 DEF RestoreRoot
  <2>3. QED
    BY <1>28, <2>1, <2>2 DEF RestoreRoot
<1>29. CASE RestoreVersion
  <2>1. CASE UNCHANGED <<root, journal>>
    BY <1>29, <2>1 DEF RestoreVersion
  <2>2. ASSUME ~UNCHANGED <<root, journal>>
        PROVE  /\ undo.published \in Digests /\ root \in Trees /\ removing = None
               /\ (~undo.replace \/ journal.backup # "absent") /\ journal \in Journals
    <3>1. undo.published # None /\ root # None /\ (~undo.replace \/ journal.backup # "absent")
      BY <1>29, <2>2 DEF RestoreVersion
    <3>2. removing = None
      BY <1>29, <3>1 DEF RestoreVersion, Knows
    <3>3. QED
      BY <1>29, <3>1, <3>2, Typed DEF RestoreVersion
  <2> DEFINE w == IF undo.replace /\ journal.backup # "absent" THEN journal.backup ELSE "absent"
  <2>3. CASE ~UNCHANGED <<root, journal>> /\ SetVersion(undo.published, w) /\ journal' = [journal EXCEPT !.backup = "absent"]
    <3>1. w \in VersionStates /\ "absent" \in VersionStates
      <4>1. "absent" \in VersionStates
        BY DEF VersionStates
      <4>2. journal.backup \in VersionStates
        BY <2>2, <2>3, JournalTypes
      <4>3. QED
        BY <4>1, <4>2
    <3> HIDE DEF w
    <3>2. /\ Knows(journal.saved, "absent", [root EXCEPT !.versions[undo.published] = w], None, base)
          /\ Knows(undo, "absent", [root EXCEPT !.versions[undo.published] = w], None, base)
      BY <1>29, <2>2, <2>3, <3>1, KnowsRestored, Typed DEF RestoreVersion, w
    <3>3. journal'.backup = "absent" /\ journal'.saved = journal.saved
      BY <2>2, <2>3, <3>1, JournalFields
    <3>4. QED
      BY <1>29, <2>2, <2>3, <3>2, <3>3 DEF RestoreVersion, SetVersion
  <2>4. CASE /\ ~UNCHANGED <<root, journal>> /\ UNCHANGED journal
             /\ \E v \in {"altered", "absent"} : /\ v = "absent" \/ Version(undo.published) # "absent"
                                                 /\ SetVersion(undo.published, v)
    <3>1. PICK v \in {"altered", "absent"} : /\ v = "absent" \/ root.versions[undo.published] # "absent"
                                             /\ root' = [root EXCEPT !.versions[undo.published] = v]
      BY <2>2, <2>4, NoneIsNoTree DEF Version, SetVersion
    <3>2. /\ Knows(journal.saved, journal.backup, [root EXCEPT !.versions[undo.published] = v], None, base)
          /\ Knows(undo, journal.backup, [root EXCEPT !.versions[undo.published] = v], None, base)
      BY <1>29, <2>2, <2>4, <3>1, KnowsHalfRestored, Typed DEF RestoreVersion
    <3>3. QED
      BY <1>29, <2>2, <2>4, <3>1, <3>2 DEF RestoreVersion
  <2>5. QED
    BY <1>29, <2>1, <2>3, <2>4 DEF RestoreVersion
<1>30. CASE RestoreDirectory
  <2>1. CASE UNCHANGED root
    BY <1>30, <2>1 DEF RestoreDirectory
  <2>2. CASE undo.rootExisted /\ root = None
    <3>1. removing # None
      BY <1>30, <2>2 DEF RestoreDirectory, Knows
    <3>2. /\ Knows(journal.saved, journal.backup, root', removing, base)
          /\ Knows(undo, journal.backup, root', removing, base)
      BY <1>30, <3>1, KnowsAway DEF RestoreDirectory
    <3>3. QED
      BY <1>30, <3>2 DEF RestoreDirectory
  <2>3. QED
    BY <1>30, <2>1, <2>2 DEF RestoreDirectory
<1>31. CASE RestoreDisable BY <1>31 DEF RestoreDisable
<1>32. CASE RestoreUnit BY <1>32 DEF RestoreUnit
<1>33. CASE RestorePolicy
  <2>1. CASE UNCHANGED root
    BY <1>33, <2>1 DEF RestorePolicy
  <2>2. CASE root # None /\ root' = [root EXCEPT !.policy = undo.policy]
    <3>1. root' # None /\ root'.versions = root.versions
      <4>1. root \in Trees
        BY <2>2, Typed
      <4>2. undo.policy \in Digests \cup {None}
        BY <1>33, Targets, Typed, SnapshotTypes DEF RestorePolicy, Asked, TypeOK
      <4>3. root' \in Trees
        BY <2>2, <4>1, <4>2, TreeTypes
      <4>4. QED
        BY <2>2, <4>1, <4>3, NoneIsNoTree DEF Trees
    <3>2. /\ Knows(journal.saved, journal.backup, root', removing, base)
          /\ Knows(undo, journal.backup, root', removing, base)
      BY <1>33, <2>2, <3>1, KnowsVersions DEF RestorePolicy
    <3>3. QED
      BY <1>33, <3>2 DEF RestorePolicy
  <2>3. QED
    BY <1>33, <2>1, <2>2 DEF RestorePolicy, Asked
<1>34. CASE RestoreDriver BY <1>34 DEF RestoreDriver
<1>35. CASE RestoreEnable BY <1>35 DEF RestoreEnable
<1>36. CASE RestoreStart BY <1>36 DEF RestoreStart, StartUnit
<1>37. CASE RestoreModule BY <1>37 DEF RestoreModule
<1>38. CASE RestoreAbsence
  <2>1. CASE UNCHANGED root
    BY <1>38, <2>1 DEF RestoreAbsence
  <2>2. CASE ~undo.rootExisted /\ root # None /\ root' \in {None, Remains(root)}
    <3>1. base.root = None
      BY <1>38, <2>2 DEF RestoreAbsence, Knows
    <3>2. root \in Trees /\ journal.saved.published \in Digests \cup {None} /\ undo.published \in Digests \cup {None}
      BY <1>38, <2>2, Typed DEF RestoreAbsence
    <3>3. /\ Knows(journal.saved, journal.backup, None, removing, base)
          /\ Knows(undo, journal.backup, None, removing, base)
          /\ Knows(journal.saved, journal.backup, Remains(root), removing, base)
          /\ Knows(undo, journal.backup, Remains(root), removing, base)
      BY <1>38, <3>1, <3>2, KnowsAbsence DEF RestoreAbsence
    <3>4. CASE root' = None
      BY <1>38, <3>3, <3>4 DEF RestoreAbsence
    <3>5. CASE root' = Remains(root)
      BY <1>38, <3>3, <3>5 DEF RestoreAbsence
    <3>6. QED
      BY <2>2, <3>4, <3>5
  <2>3. QED
    BY <1>38, <2>1, <2>2 DEF RestoreAbsence
<1>39. CASE EndRestore BY <1>39 DEF EndRestore
<1>40. CASE Commit
  <2>1. CASE UNCHANGED journal
    BY <1>40, <2>1 DEF Commit
  <2>2. ASSUME NEW d \in BOOLEAN, journal' = [journal EXCEPT !.committed = d]
        PROVE  Covered'
    <3>1. journal'.saved = journal.saved /\ journal'.backup = journal.backup /\ journal'.committed = d
      <4>1. journal \in Journals
        BY <1>40, Typed DEF Commit
      <4>2. QED
        BY <2>2, <4>1, JournalFields
    <3>2. CASE d
      BY <3>1, <3>2
    <3>3. CASE ~d
      BY <1>40, <2>2, <3>1, <3>3 DEF Commit
    <3>4. QED
      BY <3>2, <3>3
  <2>3. QED
    BY <1>40, <2>1, <2>2, JournalTypes, Typed DEF Commit
<1>41. CASE Collect BY <1>41 DEF Collect
<1>42. CASE Retire BY <1>42 DEF Retire
<1>43. CASE Clean BY <1>43 DEF Clean, Ended
<1>44. CASE Crash BY <1>44 DEF Crash
<1>45. CASE Reboot BY <1>45 DEF Reboot
<1>46. ASSUME NEW r \in Requests, Manage(r) PROVE Covered'
  BY <1>46 DEF Manage
<1>47. CASE UNCHANGED vars BY <1>47 DEF vars
<1> QED
  BY <1>1, <1>2, <1>3, <1>4, <1>5, <1>6, <1>7, <1>8, <1>9, <1>10, <1>11, <1>12, <1>13, <1>14, <1>15,
     <1>16, <1>17, <1>18, <1>19, <1>20, <1>21, <1>22, <1>23, <1>24, <1>25, <1>26, <1>27, <1>28,
     <1>29, <1>30, <1>31, <1>32, <1>33, <1>34, <1>35, <1>36, <1>37, <1>38, <1>39, <1>40, <1>41,
     <1>42, <1>43, <1>44, <1>45, <1>46, <1>47 DEF Next, Manager, Daemon, Applying, Restoring,
     Committing

----------------------------------------------------------------------------
(* The operations, the restore, and the contract. *)

\* Each operation keeps coming as far.
LEMMA InstallingKept == ASSUME IInv, [Next]_vars PROVE (Installing /\ Stopping /\ Uninstalling)'
<1> USE DEF IInv, Rules, Control, Asked, Pending, Ensuring, Installing, Stopping, Uninstalling,
            Prelude, Opened, Ensures, Removes, Restores, Applies, HasDriver, HasDirectories,
            HasVersion, HasUnit, Apply, Proceed, RollBack, Restored, Fault, Broken, Tried, Refused,
            End, Unknown, files, log, host, service, memory, history, excuses, NoExcuse
<1>1. CASE Attach BY <1>1 DEF Attach, Admits
<1>2. CASE Detach
  <2>1. Image' = Image /\ Target' = Target
    BY <1>2 DEF Detach, Image, Target
  <2>2. QED
    BY <1>2, <2>1 DEF Detach
<1>3. CASE DaemonCrash
  <2>1. Image' = Image /\ Target' = Target
    BY <1>3 DEF DaemonCrash, Gone, Image, Target
  <2>2. QED
    BY <1>3, <2>1 DEF DaemonCrash, Gone
<1>4. CASE DaemonStart
  <2>1. Image' = Image /\ Target' = Target
    BY <1>4 DEF DaemonStart, Image, Target
  <2>2. QED
    BY <1>4, <2>1 DEF DaemonStart
<1>5. CASE Recover BY <1>5 DEF Recover
<1>6. CASE Dispatch BY <1>6 DEF Dispatch, Seen
<1>7. CASE Confirm BY <1>7 DEF Confirm
<1>8. CASE Maintain BY <1>8 DEF Maintain, Seen
<1>9. CASE Consent BY <1>9 DEF Consent
<1>10. CASE Check BY <1>10 DEF Check
<1>11. CASE TakeSnapshot
  <2>1. CASE pc' = "idle"
    BY <1>11, <2>1
  <2>2. CASE pc' = FirstStep /\ Snapped(undo') /\ base' = Image /\ UNCHANGED <<files, request, mode>>
    <3>1. undo'.published = None /\ undo'.removing = FALSE
      BY <2>2, TakenFields
    <3>2. Image' = Image /\ Image.root = root /\ Image.unit = unit
      BY <2>2 DEF Image
    <3> HIDE DEF Image
    <3>3. removing = None /\ (~Ensuring => root # None)
      BY <1>11 DEF TakeSnapshot
    <3>4. request.operation \in {"ensure", "stop", "uninstall"}
      BY DEF TypeOK, Requests
    <3>5. QED
      BY <2>2, <3>1, <3>2, <3>3, <3>4 DEF FirstStep
  <2>3. QED
    BY <1>11, <2>1, <2>2 DEF TakeSnapshot, Snapped
<1>12. CASE PrepareDriver BY <1>12 DEF PrepareDriver
<1>13. CASE MakeDirectories BY <1>13 DEF MakeDirectories, AfterDirectories
<1>14. CASE Halt
  <2>1. Image' = Image /\ Target' = Target
    BY <1>14 DEF Halt, Image, Target
  <2>2. CASE pc' = "stop service" /\ mode' = "rollback"
    BY <2>2
  <2>3. CASE pc' = AfterHalt /\ UNCHANGED mode
    <3>1. request.operation \in {"ensure", "stop", "uninstall"}
      BY DEF TypeOK, Requests
    <3>2. QED
      BY <1>14, <2>1, <2>3, <3>1 DEF Halt, AfterHalt
  <2>4. QED
    BY <1>14, <2>2, <2>3 DEF Halt
<1>15. CASE SaveVersion
  <2>1. CASE pc' = "stop service" /\ mode' = "rollback"
    BY <2>1
  <2>2. CASE /\ pc' = (IF undo'.replace THEN "backup" ELSE "publish") /\ journal' = [journal EXCEPT !.saved = undo']
             /\ UNCHANGED mode
    <3>1. /\ journal.backup = "absent" /\ root # None /\ ~undo.removing /\ undo \in Snapshots /\ journal \in Journals
      BY <1>15, Typed DEF SaveVersion, Covered, Working, Knows
    <3>2. undo'.published = Target /\ undo'.removing = undo.removing /\ undo'.replace = (root.versions[Target] = "altered")
      BY <1>15, <3>1 DEF SaveVersion, Snapshots, Version
    <3>3. journal'.backup = "absent"
      BY <2>2, <3>1 DEF Journals
    <3>4. Target' = Target
      BY <1>15 DEF SaveVersion, Target
    <3>5. QED
      BY <1>15, <2>2, <3>1, <3>2, <3>3, <3>4 DEF SaveVersion
  <2>3. QED
    BY <1>15, <2>1, <2>2 DEF SaveVersion
<1>16. CASE Retained
  <2>1. Target' = Target /\ root # None /\ Ensuring
    BY <1>16 DEF Retained, Target
  <2>2. root.versions[Target] = "good"
    BY <1>16, <2>1 DEF Retained, Version
  <2>3. QED
    BY <1>16, <2>1, <2>2 DEF Retained
<1>17. CASE BackUp
  <2>1. CASE pc' = "stop service" /\ mode' = "rollback"
    BY <2>1
  <2>2. CASE pc' = "publish" /\ journal' = [journal EXCEPT !.backup = Version(Target)]
    <3>1. journal \in Journals /\ root # None /\ root.versions[Target] = "altered" /\ undo.published = Target
      BY <1>17, Typed DEF BackUp
    <3>2. journal'.backup = "altered"
      BY <2>2, <3>1 DEF Journals, Version
    <3>3. Target' = Target
      BY <1>17 DEF BackUp, Target
    <3>4. QED
      BY <1>17, <2>2, <3>1, <3>2, <3>3 DEF BackUp
  <2>3. QED
    BY <1>17, <2>1, <2>2 DEF BackUp
<1>18. CASE Publish
  <2>1. CASE pc' = "stop service" /\ mode' = "rollback"
    BY <2>1
  <2>2. CASE pc' = "unit" /\ SetVersion(Target, "good")
    <3>1. root \in Trees /\ Target \in Digests /\ undo.published = Target
      BY <1>18, Typed, Targets DEF Publish, TypeOK
    <3>2. root'.versions[Target] = "good"
      BY <2>2, <3>1 DEF Trees, SetVersion
    <3>3. Target' = Target
      BY <1>18 DEF Publish, Target
    <3>4. QED
      BY <1>18, <2>2, <3>1, <3>2, <3>3 DEF Publish
  <2>3. QED
    BY <1>18, <2>1, <2>2 DEF Publish
<1>19. CASE WriteUnit
  <2>1. Target' = Target
    BY <1>19 DEF WriteUnit, Target
  <2>2. QED
    BY <1>19, <2>1 DEF WriteUnit
<1>20. CASE Enable
  <2>1. Image' = Image /\ Target' = Target
    BY <1>20 DEF Enable, Image, Target
  <2>2. QED
    BY <1>20, <2>1 DEF Enable
<1>21. CASE StartNew
  <2>1. Image' = Image /\ Target' = Target
    BY <1>21 DEF StartNew, StartUnit, Image, Target
  <2>2. QED
    BY <1>21, <2>1 DEF StartNew, StartUnit
<1>22. CASE Verify
  <2>1. Image' = Image /\ Target' = Target
    BY <1>22 DEF Verify, Image, Target
  <2>2. QED
    BY <1>22, <2>1 DEF Verify
<1>23. CASE WriteRecord
  <2>1. CASE pc' = "stop service" /\ mode' = "rollback"
    BY <2>1
  <2>2. CASE pc' = "commit" /\ root' = [root EXCEPT !.policy = Target]
    <3>1. /\ root \in Trees /\ Target \in Digests /\ base.root \in Trees \cup {None} /\ driver = TRUE /\ unit = Target
          /\ root.versions[Target] = "good" /\ undo.published \in {None, Target} /\ removing = None
      BY <1>23, Typed, Targets DEF WriteRecord, TypeOK
    <3>2. \A d \in Digests \ {Target} : root.versions[d] = Was(base)[d]
      BY <1>23, <3>1, NoneIsNoTree, DigestsAssumption DEF WriteRecord, Covered, Working, Knows
    <3>3. root.versions = [Was(base) EXCEPT ![Target] = "good"]
      BY <3>1, <3>2, WasVersions DEF Trees
    <3>4. root' = [versions |-> root.versions, policy |-> Target]
      BY <2>2, <3>1 DEF Trees
    <3>5. Contract!Ensured(base, Target) = [root |-> root', unit |-> Target, driver |-> TRUE]
      BY <3>3, <3>4 DEF Contract!Ensured, Was
    <3>6. Image' = [root |-> root', unit |-> unit, driver |-> driver] /\ Target' = Target /\ base' = base
      BY <1>23 DEF WriteRecord, Image, Target
    <3>7. Image' = Contract!Ensured(base', Target')
      BY <3>1, <3>5, <3>6
    <3>8. QED
      BY <1>23, <2>2, <3>7 DEF WriteRecord
  <2>3. QED
    BY <1>23, <2>1, <2>2 DEF WriteRecord
<1>24. CASE SaveRemoval
  <2>1. CASE pc' = "stop service" /\ mode' = "rollback"
    BY <2>1
  <2>2. CASE pc' = "halt" /\ UNCHANGED mode
    <3>1. undo'.removing = TRUE
      BY <1>24, Typed DEF SaveRemoval, Snapshots
    <3>2. Image' = Image
      BY <1>24 DEF SaveRemoval, Image
    <3>3. QED
      BY <1>24, <2>2, <3>1, <3>2 DEF SaveRemoval
  <2>3. QED
    BY <1>24, <2>1, <2>2 DEF SaveRemoval
<1>25. CASE MoveAway BY <1>25 DEF MoveAway
<1>26. CASE RemoveUnit
  <2>1. CASE pc' = "stop service" /\ mode' = "rollback"
    BY <2>1
  <2>2. CASE pc' = "commit" /\ unit' = None
    <3>1. root = None /\ driver = FALSE
      BY <1>26 DEF RemoveUnit, TypeOK
    <3>2. Image' = Contract!Uninstalled
      BY <1>26, <2>2, <3>1 DEF RemoveUnit, Image, Contract!Uninstalled
    <3>3. QED
      BY <1>26, <2>2, <3>2 DEF RemoveUnit
  <2>3. QED
    BY <1>26, <2>1, <2>2 DEF RemoveUnit
<1>27. CASE RestoreStop BY <1>27 DEF RestoreStop, StopUnit, Gone
<1>28. CASE RestoreRoot BY <1>28 DEF RestoreRoot
<1>29. CASE RestoreVersion BY <1>29 DEF RestoreVersion, SetVersion
<1>30. CASE RestoreDirectory BY <1>30 DEF RestoreDirectory
<1>31. CASE RestoreDisable BY <1>31 DEF RestoreDisable
<1>32. CASE RestoreUnit BY <1>32 DEF RestoreUnit
<1>33. CASE RestorePolicy BY <1>33 DEF RestorePolicy
<1>34. CASE RestoreDriver BY <1>34 DEF RestoreDriver
<1>35. CASE RestoreEnable BY <1>35 DEF RestoreEnable
<1>36. CASE RestoreStart BY <1>36 DEF RestoreStart, StartUnit
<1>37. CASE RestoreModule BY <1>37 DEF RestoreModule
<1>38. CASE RestoreAbsence BY <1>38 DEF RestoreAbsence
<1>39. CASE EndRestore BY <1>39 DEF EndRestore
<1>40. CASE Commit BY <1>40 DEF Commit
<1>41. CASE Collect BY <1>41 DEF Collect
<1>42. CASE Retire BY <1>42 DEF Retire
<1>43. CASE Clean BY <1>43 DEF Clean, Ended
<1>44. CASE Crash BY <1>44 DEF Crash
<1>45. CASE Reboot BY <1>45 DEF Reboot
<1>46. ASSUME NEW r \in Requests, Manage(r) PROVE (Installing /\ Stopping /\ Uninstalling)'
  BY <1>46 DEF Manage
<1>47. CASE UNCHANGED vars
  <2>1. Image' = Image /\ Target' = Target
    BY <1>47 DEF vars, Image, Target
  <2>2. QED
    BY <1>47, <2>1 DEF vars
<1> QED
  BY <1>1, <1>2, <1>3, <1>4, <1>5, <1>6, <1>7, <1>8, <1>9, <1>10, <1>11, <1>12, <1>13, <1>14, <1>15,
     <1>16, <1>17, <1>18, <1>19, <1>20, <1>21, <1>22, <1>23, <1>24, <1>25, <1>26, <1>27, <1>28,
     <1>29, <1>30, <1>31, <1>32, <1>33, <1>34, <1>35, <1>36, <1>37, <1>38, <1>39, <1>40, <1>41,
     <1>42, <1>43, <1>44, <1>45, <1>46, <1>47 DEF Next, Manager, Daemon, Applying, Restoring,
     Committing

LEMMA SameTree ==
  ASSUME NEW t \in Trees, NEW s \in Trees, \A d \in Digests : t.versions[d] = s.versions[d], t.policy = s.policy
  PROVE  t = s
<1>1. t.versions = s.versions
  BY DEF Trees
<1>2. QED
  BY <1>1 DEF Trees

\* A restore that has come to its end without a failure has restored the files.
LEMMA RestoredImage ==
  ASSUME IInv, pc = "restored", Sure
  PROVE  Image = base
<1>1. mode # "apply" /\ Pending
  BY DEF IInv, Rules, Control, Restores
<1>2. /\ removing = None /\ unit = base.unit /\ driver = base.driver
      /\ root # None => \A d \in Digests : root.versions[d] = Was(base)[d]
      /\ base.root # None => root.policy = base.root.policy
      /\ base.root = None => root = None
  BY <1>1 DEF IInv, Progress, OutRoot, OutVersions, OutUnit, OutPolicy, OutDriver
<1>3. base.root # None => root # None
  BY <1>1, <1>2 DEF IInv, Covered, Working, Restores, Knows
<1>4. root = base.root
  <2>1. CASE base.root = None
    BY <1>2, <2>1
  <2>2. CASE base.root # None
    <3>1. root \in Trees /\ base.root \in Trees
      BY <1>3, <2>2, Typed DEF IInv, Rules
    <3>2. \A d \in Digests : root.versions[d] = base.root.versions[d]
      BY <1>2, <1>3, <2>2, Typed, WasVersions DEF IInv, Rules
    <3>3. QED
      BY <1>2, <2>2, <3>1, <3>2, SameTree
  <2>3. QED
    BY <2>1, <2>2
<1>5. base = [root |-> base.root, unit |-> base.unit, driver |-> base.driver]
  BY DEF IInv, Rules, TypeOK
<1>6. QED
  BY <1>2, <1>4, <1>5 DEF Image

\* A restore keeps coming as far.
LEMMA ProgressKept == ASSUME IInv, [Next]_vars PROVE Progress'
<1> USE DEF IInv, Rules, Control, Pending, Progress, Sure, OutDriver, OutPolicy, OutUnit,
            OutVersions, OutRoot, Prelude, Opened, Ensures, Removes, Restores, Applies, HasDriver,
            HasDirectories, HasVersion, HasUnit, Apply, Proceed, RollBack, Restored, Fault, Broken,
            Tried, Refused, End, Unknown, files, log, host, service, memory, history, excuses, NoExcuse
<1>1. CASE Attach BY <1>1 DEF Attach, Admits
<1>2. CASE Detach
  <2>1. Image' = Image
    BY <1>2 DEF Detach, Image
  <2>2. QED
    BY <1>2, <2>1 DEF Detach
<1>3. CASE DaemonCrash
  <2>1. Image' = Image
    BY <1>3 DEF DaemonCrash, Gone, Image
  <2>2. QED
    BY <1>3, <2>1 DEF DaemonCrash, Gone
<1>4. CASE DaemonStart
  <2>1. Image' = Image
    BY <1>4 DEF DaemonStart, Image
  <2>2. QED
    BY <1>4, <2>1 DEF DaemonStart
<1>5. CASE Recover BY <1>5 DEF Recover
<1>6. CASE Dispatch BY <1>6 DEF Dispatch, Seen
<1>7. CASE Confirm BY <1>7 DEF Confirm
<1>8. CASE Maintain BY <1>8 DEF Maintain, Seen
<1>9. CASE Consent BY <1>9 DEF Consent
<1>10. CASE Check BY <1>10 DEF Check
<1>11. CASE TakeSnapshot BY <1>11 DEF TakeSnapshot, FirstStep, Image
<1>12. CASE PrepareDriver BY <1>12 DEF PrepareDriver
<1>13. CASE MakeDirectories BY <1>13 DEF MakeDirectories, AfterDirectories
<1>14. CASE Halt BY <1>14 DEF Halt, AfterHalt, StopUnit, Gone
<1>15. CASE SaveVersion BY <1>15 DEF SaveVersion
<1>16. CASE Retained BY <1>16 DEF Retained
<1>17. CASE BackUp BY <1>17 DEF BackUp, SetVersion
<1>18. CASE Publish BY <1>18 DEF Publish, SetVersion
<1>19. CASE WriteUnit BY <1>19 DEF WriteUnit
<1>20. CASE Enable BY <1>20 DEF Enable
<1>21. CASE StartNew BY <1>21 DEF StartNew, StartUnit
<1>22. CASE Verify BY <1>22 DEF Verify
<1>23. CASE WriteRecord BY <1>23 DEF WriteRecord
<1>24. CASE SaveRemoval BY <1>24 DEF SaveRemoval
<1>25. CASE MoveAway BY <1>25 DEF MoveAway
<1>26. CASE RemoveUnit BY <1>26 DEF RemoveUnit
<1>27. CASE RestoreStop BY <1>27 DEF RestoreStop, StopUnit, Gone
<1>28. CASE RestoreRoot
  <2>1. removing # None => undo.removing
    BY <1>28 DEF RestoreRoot, Covered, Working, Knows
  <2>2. QED
    BY <1>28, <2>1 DEF RestoreRoot
<1>29. CASE RestoreVersion
  <2>1. pc' = "root" /\ mode' = mode /\ removing' = removing /\ base' = base /\ (Sure' => Sure)
    BY <1>29 DEF RestoreVersion
  <2>2. ASSUME Sure', root' # None PROVE \A d \in Digests : root'.versions[d] = Was(base)[d]
    <3>1. removing = None /\ Knows(undo, journal.backup, root, removing, base)
      BY <1>29, <2>1, <2>2 DEF RestoreVersion, Covered, Working
    <3>2. CASE UNCHANGED <<root, journal>> /\ (undo.published = None \/ (undo.replace /\ journal.backup = "absent"))
      BY <2>2, <3>1, <3>2, DigestsAssumption DEF Knows
    <3>3. CASE /\ undo.published # None /\ root # None /\ (~undo.replace \/ journal.backup # "absent")
               /\ SetVersion(undo.published, IF undo.replace /\ journal.backup # "absent" THEN journal.backup ELSE "absent")
      <4> DEFINE w == IF undo.replace /\ journal.backup # "absent" THEN journal.backup ELSE "absent"
      <4>1. undo.published \in Digests /\ root \in Trees /\ base.root \in Trees \cup {None}
        BY <3>3, Typed
      <4>2. w \in VersionStates
        <5>1. "absent" \in VersionStates
          BY DEF VersionStates
        <5>2. journal.backup \in VersionStates
          BY <1>29, Typed DEF RestoreVersion
        <5>3. QED
          BY <5>1, <5>2
      <4>3. root' = [root EXCEPT !.versions[undo.published] = w]
        BY <3>3 DEF SetVersion
      <4>0. w = (IF undo.replace /\ journal.backup # "absent" THEN journal.backup ELSE "absent")
        OBVIOUS
      <4> HIDE DEF w
      <4>4. root'.versions[undo.published] = w /\ \A d \in Digests \ {undo.published} : root'.versions[d] = root.versions[d]
        BY <4>1, <4>2, <4>3 DEF Trees
      <4>5. w = Was(base)[undo.published]
        BY <3>1, <3>3, <4>0 DEF Knows
      <4>6. \A d \in Digests \ {undo.published} : root.versions[d] = Was(base)[d]
        BY <3>1, <3>3 DEF Knows
      <4>7. QED
        BY <4>4, <4>5, <4>6
    <3>4. CASE root = None /\ root' = None
      BY <2>2, <3>4
    <3>5. QED
      BY <1>29, <2>2, <3>2, <3>3, <3>4 DEF RestoreVersion
  <2>3. QED
    BY <1>29, <2>1, <2>2 DEF RestoreVersion
<1>30. CASE RestoreDirectory
  <2>1. Sure /\ undo.rootExisted => root # None
    BY <1>30 DEF RestoreDirectory, Covered, Working, Knows
  <2>2. QED
    BY <1>30, <2>1 DEF RestoreDirectory
<1>31. CASE RestoreDisable BY <1>31 DEF RestoreDisable
<1>32. CASE RestoreUnit
  <2>1. undo.unit = base.unit
    BY <1>32 DEF RestoreUnit, Covered, Working, Knows
  <2>2. QED
    BY <1>32, <2>1 DEF RestoreUnit
<1>33. CASE RestorePolicy
  <2>1. /\ undo.rootExisted = (base.root # None) /\ (base.root # None => undo.policy = base.root.policy)
        /\ Sure /\ base.root # None => root # None
    BY <1>33 DEF RestorePolicy, Covered, Working, Knows, PolicyOf
  <2>2. undo.policy \in Digests \cup {None} /\ (root # None => root \in Trees)
    BY Typed, SnapshotTypes
  <2>3. CASE root' = root /\ (base.root = None \/ root = None \/ (failed' /\ injected'))
    BY <1>33, <2>1, <2>3 DEF RestorePolicy
  <2>4. CASE root # None /\ root' = [root EXCEPT !.policy = undo.policy] /\ base.root # None
    <3>1. root'.versions = root.versions /\ root'.policy = undo.policy
      BY <2>2, <2>4 DEF Trees
    <3>2. QED
      BY <1>33, <2>1, <2>4, <3>1 DEF RestorePolicy
  <2>5. QED
    BY <1>33, <2>1, <2>3, <2>4 DEF RestorePolicy
<1>34. CASE RestoreDriver
  <2>1. undo.driver = base.driver
    BY <1>34 DEF RestoreDriver, Covered, Working, Knows
  <2>2. QED
    BY <1>34, <2>1 DEF RestoreDriver
<1>35. CASE RestoreEnable BY <1>35 DEF RestoreEnable
<1>36. CASE RestoreStart BY <1>36 DEF RestoreStart, StartUnit
<1>37. CASE RestoreModule BY <1>37 DEF RestoreModule
<1>38. CASE RestoreAbsence
  <2>1. undo.rootExisted = (base.root # None)
    BY <1>38 DEF RestoreAbsence, Covered, Working, Knows
  <2>2. QED
    BY <1>38, <2>1 DEF RestoreAbsence
<1>39. CASE EndRestore
  <2>1. CASE failed
    BY <1>39, <2>1 DEF EndRestore
  <2>2. CASE ~failed
    <3>1. Image = base
      BY <1>39, <2>2, RestoredImage DEF EndRestore
    <3>2. Image' = Image /\ base' = base
      BY <1>39 DEF EndRestore, Image
    <3>3. QED
      BY <1>39, <2>2, <3>1, <3>2 DEF EndRestore
  <2>3. QED
    BY <2>1, <2>2
<1>40. CASE Commit BY <1>40 DEF Commit
<1>41. CASE Collect BY <1>41 DEF Collect
<1>42. CASE Retire BY <1>42 DEF Retire
<1>43. CASE Clean BY <1>43 DEF Clean, Ended
<1>44. CASE Crash BY <1>44 DEF Crash
<1>45. CASE Reboot BY <1>45 DEF Reboot
<1>46. ASSUME NEW r \in Requests, Manage(r) PROVE Progress'
  BY <1>46 DEF Manage
<1>47. CASE UNCHANGED vars
  <2>1. Image' = Image
    BY <1>47 DEF vars, Image
  <2>2. QED
    BY <1>47, <2>1 DEF vars
<1> QED
  BY <1>1, <1>2, <1>3, <1>4, <1>5, <1>6, <1>7, <1>8, <1>9, <1>10, <1>11, <1>12, <1>13, <1>14, <1>15,
     <1>16, <1>17, <1>18, <1>19, <1>20, <1>21, <1>22, <1>23, <1>24, <1>25, <1>26, <1>27, <1>28,
     <1>29, <1>30, <1>31, <1>32, <1>33, <1>34, <1>35, <1>36, <1>37, <1>38, <1>39, <1>40, <1>41,
     <1>42, <1>43, <1>44, <1>45, <1>46, <1>47 DEF Next, Manager, Daemon, Applying, Restoring,
     Committing

\* What was moved away can come back.
LEMMA ClearKept == ASSUME IInv, [Next]_vars PROVE Clear'
<1> USE DEF IInv, Rules, Control, Pending, Clear, Prelude, Opened, Ensures, Removes, Restores,
            Applies, HasDriver, HasDirectories, HasVersion, HasUnit, Apply, Proceed, RollBack,
            Restored, Fault, Broken, Tried, Refused, End, Unknown, files, log, host, service,
            memory, history, excuses, NoExcuse
<1>1. CASE Attach BY <1>1 DEF Attach, Admits
<1>2. CASE Detach BY <1>2 DEF Detach
<1>3. CASE DaemonCrash BY <1>3 DEF DaemonCrash, Gone
<1>4. CASE DaemonStart BY <1>4 DEF DaemonStart
<1>5. CASE Recover BY <1>5 DEF Recover
<1>6. CASE Dispatch BY <1>6 DEF Dispatch, Seen
<1>7. CASE Confirm BY <1>7 DEF Confirm
<1>8. CASE Maintain BY <1>8 DEF Maintain, Seen
<1>9. CASE Consent BY <1>9 DEF Consent
<1>10. CASE Check BY <1>10 DEF Check
<1>11. CASE TakeSnapshot
  <2>1. CASE UNCHANGED journal
    BY <1>11, <2>1 DEF TakeSnapshot
  <2>2. CASE UNCHANGED removing
    BY <1>11, <2>2 DEF TakeSnapshot, Asked
  <2>3. QED
    BY <1>11, <2>1, <2>2 DEF TakeSnapshot, Snapped
<1>12. CASE PrepareDriver BY <1>12 DEF PrepareDriver
<1>13. CASE MakeDirectories
  <2>1. removing = None /\ removing' = removing
    BY <1>13 DEF MakeDirectories, Asked, Installing
  <2>2. QED
    BY <2>1
<1>14. CASE Halt BY <1>14 DEF Halt, AfterHalt, StopUnit, Gone
<1>15. CASE SaveVersion BY <1>15 DEF SaveVersion
<1>16. CASE Retained BY <1>16 DEF Retained
<1>17. CASE BackUp
  <2>1. removing = None /\ removing' = removing
    BY <1>17 DEF BackUp, Asked, Installing
  <2>2. QED
    BY <2>1
<1>18. CASE Publish
  <2>1. removing = None /\ removing' = removing
    BY <1>18 DEF Publish, Asked, Installing
  <2>2. QED
    BY <2>1
<1>19. CASE WriteUnit BY <1>19 DEF WriteUnit
<1>20. CASE Enable BY <1>20 DEF Enable
<1>21. CASE StartNew BY <1>21 DEF StartNew, StartUnit
<1>22. CASE Verify BY <1>22 DEF Verify
<1>23. CASE WriteRecord
  <2>1. removing = None /\ removing' = removing
    BY <1>23 DEF WriteRecord, Asked, Installing
  <2>2. QED
    BY <2>1
<1>24. CASE SaveRemoval BY <1>24 DEF SaveRemoval
<1>25. CASE MoveAway BY <1>25 DEF MoveAway
<1>26. CASE RemoveUnit BY <1>26 DEF RemoveUnit
<1>27. CASE RestoreStop BY <1>27 DEF RestoreStop, StopUnit, Gone
<1>28. CASE RestoreRoot BY <1>28 DEF RestoreRoot
<1>29. CASE RestoreVersion BY <1>29 DEF RestoreVersion, SetVersion
<1>30. CASE RestoreDirectory
  <2>1. ~injected => removing = None
    BY <1>30 DEF RestoreDirectory, Progress, Sure, OutRoot, OutVersions
  <2>2. removing' = removing /\ (injected' = injected \/ injected' = TRUE)
    BY <1>30 DEF RestoreDirectory
  <2>3. QED
    BY <2>1, <2>2
<1>31. CASE RestoreDisable BY <1>31 DEF RestoreDisable
<1>32. CASE RestoreUnit BY <1>32 DEF RestoreUnit
<1>33. CASE RestorePolicy BY <1>33 DEF RestorePolicy
<1>34. CASE RestoreDriver BY <1>34 DEF RestoreDriver
<1>35. CASE RestoreEnable BY <1>35 DEF RestoreEnable
<1>36. CASE RestoreStart BY <1>36 DEF RestoreStart, StartUnit
<1>37. CASE RestoreModule BY <1>37 DEF RestoreModule
<1>38. CASE RestoreAbsence BY <1>38 DEF RestoreAbsence
<1>39. CASE EndRestore BY <1>39 DEF EndRestore
<1>40. CASE Commit BY <1>40 DEF Commit
<1>41. CASE Collect BY <1>41 DEF Collect
<1>42. CASE Retire BY <1>42 DEF Retire
<1>43. CASE Clean BY <1>43 DEF Clean, Ended
<1>44. CASE Crash BY <1>44 DEF Crash
<1>45. CASE Reboot BY <1>45 DEF Reboot
<1>46. ASSUME NEW r \in Requests, Manage(r) PROVE Clear'
  BY <1>46 DEF Manage
<1>47. CASE UNCHANGED vars BY <1>47 DEF vars
<1> QED
  BY <1>1, <1>2, <1>3, <1>4, <1>5, <1>6, <1>7, <1>8, <1>9, <1>10, <1>11, <1>12, <1>13, <1>14, <1>15,
     <1>16, <1>17, <1>18, <1>19, <1>20, <1>21, <1>22, <1>23, <1>24, <1>25, <1>26, <1>27, <1>28,
     <1>29, <1>30, <1>31, <1>32, <1>33, <1>34, <1>35, <1>36, <1>37, <1>38, <1>39, <1>40, <1>41,
     <1>42, <1>43, <1>44, <1>45, <1>46, <1>47 DEF Next, Manager, Daemon, Applying, Restoring,
     Committing

\* A failed recovery leaves the files of before.
LEMMA RecoveryKept == ASSUME IInv, [Next]_vars PROVE RecoveryRestores'
<1> USE DEF IInv, Rules, Control, RecoveryRestores, Prelude, Opened, Ensures, Removes, Restores,
            Applies, HasDriver, HasDirectories, HasVersion, HasUnit, Apply, Proceed, RollBack,
            Restored, Fault, Broken, Tried, Refused, End, Unknown, files, log, host, service,
            memory, history, excuses, NoExcuse
<1>1. CASE Attach
  <2>1. Image' = Image
    BY <1>1 DEF Attach, Admits, Image
  <2>2. QED
    BY <1>1, <2>1 DEF Attach, Admits
<1>2. CASE Detach
  <2>1. Image' = Image
    BY <1>2 DEF Detach, Image
  <2>2. QED
    BY <1>2, <2>1 DEF Detach
<1>3. CASE DaemonCrash
  <2>1. Image' = Image
    BY <1>3 DEF DaemonCrash, Gone, Image
  <2>2. QED
    BY <1>3, <2>1 DEF DaemonCrash, Gone
<1>4. CASE DaemonStart
  <2>1. Image' = Image
    BY <1>4 DEF DaemonStart, Image
  <2>2. QED
    BY <1>4, <2>1 DEF DaemonStart
<1>5. CASE Recover BY <1>5 DEF Recover
<1>6. CASE Dispatch BY <1>6 DEF Dispatch, Seen
<1>7. CASE Confirm BY <1>7 DEF Confirm
<1>8. CASE Maintain BY <1>8 DEF Maintain, Seen
<1>9. CASE Consent BY <1>9 DEF Consent
<1>10. CASE Check BY <1>10 DEF Check
<1>11. CASE TakeSnapshot BY <1>11 DEF TakeSnapshot, FirstStep, Image
<1>12. CASE PrepareDriver BY <1>12 DEF PrepareDriver
<1>13. CASE MakeDirectories BY <1>13 DEF MakeDirectories, AfterDirectories
<1>14. CASE Halt BY <1>14 DEF Halt, AfterHalt, StopUnit, Gone
<1>15. CASE SaveVersion BY <1>15 DEF SaveVersion
<1>16. CASE Retained BY <1>16 DEF Retained
<1>17. CASE BackUp BY <1>17 DEF BackUp, SetVersion
<1>18. CASE Publish BY <1>18 DEF Publish, SetVersion
<1>19. CASE WriteUnit BY <1>19 DEF WriteUnit
<1>20. CASE Enable BY <1>20 DEF Enable
<1>21. CASE StartNew BY <1>21 DEF StartNew, StartUnit
<1>22. CASE Verify BY <1>22 DEF Verify
<1>23. CASE WriteRecord BY <1>23 DEF WriteRecord
<1>24. CASE SaveRemoval BY <1>24 DEF SaveRemoval
<1>25. CASE MoveAway BY <1>25 DEF MoveAway
<1>26. CASE RemoveUnit BY <1>26 DEF RemoveUnit
<1>27. CASE RestoreStop BY <1>27 DEF RestoreStop, StopUnit, Gone
<1>28. CASE RestoreRoot
  <2>1. CASE outcome' = "none"
    BY <2>1
  <2>2. CASE removing # None /\ root # None /\ UNCHANGED injected
    BY <1>28, <2>2 DEF RestoreRoot, Clear
  <2>3. QED
    BY <1>28, <2>1, <2>2 DEF RestoreRoot
<1>29. CASE RestoreVersion BY <1>29 DEF RestoreVersion, SetVersion
<1>30. CASE RestoreDirectory BY <1>30 DEF RestoreDirectory
<1>31. CASE RestoreDisable BY <1>31 DEF RestoreDisable
<1>32. CASE RestoreUnit BY <1>32 DEF RestoreUnit
<1>33. CASE RestorePolicy BY <1>33 DEF RestorePolicy
<1>34. CASE RestoreDriver BY <1>34 DEF RestoreDriver
<1>35. CASE RestoreEnable BY <1>35 DEF RestoreEnable
<1>36. CASE RestoreStart BY <1>36 DEF RestoreStart, StartUnit
<1>37. CASE RestoreModule BY <1>37 DEF RestoreModule
<1>38. CASE RestoreAbsence BY <1>38 DEF RestoreAbsence
<1>39. CASE EndRestore
  <2>1. CASE ~failed
    BY <1>39, <2>1 DEF EndRestore
  <2>2. CASE failed
    <3>1. ~injected => Image = base
      BY <1>39, RestoredImage DEF EndRestore, Sure
    <3>2. Image' = Image /\ base' = base /\ injected' = injected
      BY <1>39 DEF EndRestore, Image
    <3>3. QED
      BY <3>1, <3>2
  <2>3. QED
    BY <2>1, <2>2
<1>40. CASE Commit BY <1>40 DEF Commit
<1>41. CASE Collect BY <1>41 DEF Collect
<1>42. CASE Retire BY <1>42 DEF Retire
<1>43. CASE Clean BY <1>43 DEF Clean, Ended
<1>44. CASE Crash BY <1>44 DEF Crash
<1>45. CASE Reboot BY <1>45 DEF Reboot
<1>46. ASSUME NEW r \in Requests, Manage(r) PROVE RecoveryRestores'
  BY <1>46 DEF Manage
<1>47. CASE UNCHANGED vars
  <2>1. Image' = Image
    BY <1>47 DEF vars, Image
  <2>2. QED
    BY <1>47, <2>1 DEF vars
<1> QED
  BY <1>1, <1>2, <1>3, <1>4, <1>5, <1>6, <1>7, <1>8, <1>9, <1>10, <1>11, <1>12, <1>13, <1>14, <1>15,
     <1>16, <1>17, <1>18, <1>19, <1>20, <1>21, <1>22, <1>23, <1>24, <1>25, <1>26, <1>27, <1>28,
     <1>29, <1>30, <1>31, <1>32, <1>33, <1>34, <1>35, <1>36, <1>37, <1>38, <1>39, <1>40, <1>41,
     <1>42, <1>43, <1>44, <1>45, <1>46, <1>47 DEF Next, Manager, Daemon, Applying, Restoring,
     Committing

\* The files that a recovery would leave
Kept == IF Pending THEN base ELSE Image

\* Each step is one of the contract, or none.
LEMMA ContractKept == ASSUME IInv, Control', [Next]_vars PROVE (Contract!Next \/ Kept' = Kept)
<1> USE DEF IInv, Rules, Control, Pending, Kept, Prelude, Opened, Ensures, Removes, Restores,
            Applies, HasDriver, HasDirectories, HasVersion, HasUnit, Apply, Proceed, RollBack,
            Restored, Fault, Broken, Tried, Refused, End, Unknown, files, log, host, service,
            memory, history, excuses, NoExcuse
<1>1. CASE Attach
  <2>1. Image' = Image
    BY <1>1 DEF Attach, Admits, Image
  <2>2. QED
    BY <1>1, <2>1 DEF Attach, Admits
<1>2. CASE Detach
  <2>1. Image' = Image
    BY <1>2 DEF Detach, Image
  <2>2. QED
    BY <1>2, <2>1 DEF Detach
<1>3. CASE DaemonCrash
  <2>1. Image' = Image
    BY <1>3 DEF DaemonCrash, Gone, Image
  <2>2. QED
    BY <1>3, <2>1 DEF DaemonCrash, Gone
<1>4. CASE DaemonStart
  <2>1. Image' = Image
    BY <1>4 DEF DaemonStart, Image
  <2>2. QED
    BY <1>4, <2>1 DEF DaemonStart
<1>5. CASE Recover
  <2>1. Image' = Image
    BY <1>5 DEF Recover, Image
  <2>2. QED
    BY <1>5, <2>1 DEF Recover
<1>6. CASE Dispatch
  <2>1. Image' = Image
    BY <1>6 DEF Dispatch, Image
  <2>2. QED
    BY <1>6, <2>1 DEF Dispatch
<1>7. CASE Confirm
  <2>1. Image' = Image
    BY <1>7 DEF Confirm, Image
  <2>2. QED
    BY <1>7, <2>1 DEF Confirm
<1>8. CASE Maintain
  <2>1. Image' = Image
    BY <1>8 DEF Maintain, Image
  <2>2. QED
    BY <1>8, <2>1 DEF Maintain
<1>9. CASE Consent
  <2>1. Image' = Image
    BY <1>9 DEF Consent, Image
  <2>2. QED
    BY <1>9, <2>1 DEF Consent
<1>10. CASE Check
  <2>1. Image' = Image
    BY <1>10 DEF Check, Image
  <2>2. QED
    BY <1>10, <2>1 DEF Check
<1>11. CASE TakeSnapshot BY <1>11 DEF TakeSnapshot, FirstStep, Image
<1>12. CASE PrepareDriver BY <1>12 DEF PrepareDriver
<1>13. CASE MakeDirectories BY <1>13 DEF MakeDirectories, AfterDirectories
<1>14. CASE Halt BY <1>14 DEF Halt, AfterHalt, StopUnit, Gone
<1>15. CASE SaveVersion BY <1>15 DEF SaveVersion
<1>16. CASE Retained BY <1>16 DEF Retained
<1>17. CASE BackUp BY <1>17 DEF BackUp, SetVersion
<1>18. CASE Publish BY <1>18 DEF Publish, SetVersion
<1>19. CASE WriteUnit BY <1>19 DEF WriteUnit
<1>20. CASE Enable BY <1>20 DEF Enable
<1>21. CASE StartNew BY <1>21 DEF StartNew, StartUnit
<1>22. CASE Verify BY <1>22 DEF Verify
<1>23. CASE WriteRecord BY <1>23 DEF WriteRecord
<1>24. CASE SaveRemoval BY <1>24 DEF SaveRemoval
<1>25. CASE MoveAway BY <1>25 DEF MoveAway
<1>26. CASE RemoveUnit BY <1>26 DEF RemoveUnit
<1>27. CASE RestoreStop BY <1>27 DEF RestoreStop, StopUnit, Gone
<1>28. CASE RestoreRoot BY <1>28 DEF RestoreRoot
<1>29. CASE RestoreVersion BY <1>29 DEF RestoreVersion, SetVersion
<1>30. CASE RestoreDirectory BY <1>30 DEF RestoreDirectory
<1>31. CASE RestoreDisable BY <1>31 DEF RestoreDisable
<1>32. CASE RestoreUnit BY <1>32 DEF RestoreUnit
<1>33. CASE RestorePolicy BY <1>33 DEF RestorePolicy
<1>34. CASE RestoreDriver BY <1>34 DEF RestoreDriver
<1>35. CASE RestoreEnable BY <1>35 DEF RestoreEnable
<1>36. CASE RestoreStart BY <1>36 DEF RestoreStart, StartUnit
<1>37. CASE RestoreModule BY <1>37 DEF RestoreModule
<1>38. CASE RestoreAbsence BY <1>38 DEF RestoreAbsence
<1>39. CASE EndRestore BY <1>39 DEF EndRestore
<1>40. CASE Commit
  <2>1. /\ Pending /\ base' = base /\ Image' = Image
        /\ journal' = journal \/ \E d \in BOOLEAN : journal' = [journal EXCEPT !.committed = d]
    <3>1. journal.committed \in BOOLEAN
      BY <1>40, Typed, JournalTypes DEF Commit
    <3>2. QED
      BY <1>40, <3>1 DEF Commit, Image
  <2>2. CASE Pending'
    BY <2>1, <2>2
  <2>3. CASE ~Pending'
    <3>1. Kept' = Image /\ Kept = base
      BY <2>1, <2>3
    <3>2. CASE mode # "apply"
      BY <1>40, <3>1, <3>2 DEF Commit, Progress
    <3>3. CASE mode = "apply" /\ Ensuring
      <4>1. Image = Contract!Ensured(base, Target) /\ Target \in Digests
        BY <1>40, <3>3, Targets DEF Commit, Installing, TypeOK
      <4>2. Contract!Ensure(Target)
        BY <3>1, <4>1 DEF Contract!Ensure, Kept
      <4>3. QED
        BY <4>1, <4>2 DEF Contract!Next
    <3>4. CASE mode = "apply" /\ request.operation = "stop"
      BY <1>40, <3>1, <3>4 DEF Commit, Stopping
    <3>5. CASE mode = "apply" /\ request.operation = "uninstall"
      <4>1. Image = Contract!Uninstalled
        BY <1>40, <3>5 DEF Commit, Uninstalling
      <4>2. Contract!Uninstall
        BY <3>1, <4>1 DEF Contract!Uninstall, Kept
      <4>3. QED
        BY <4>2 DEF Contract!Next
    <3>6. request.operation \in {"ensure", "stop", "uninstall"}
      BY DEF TypeOK, Requests
    <3>7. QED
      BY <3>2, <3>3, <3>4, <3>5, <3>6 DEF Ensuring
  <2>4. QED
    BY <2>2, <2>3
<1>41. CASE Collect
  <2>1. Image' = Image
    BY <1>41 DEF Collect, Image
  <2>2. QED
    BY <1>41, <2>1 DEF Collect
<1>42. CASE Retire
  <2>1. Image' = Image
    BY <1>42 DEF Retire, Image
  <2>2. QED
    BY <1>42, <2>1 DEF Retire
<1>43. CASE Clean
  <2>1. Image' = Image
    BY <1>43 DEF Clean, Ended, Image
  <2>2. QED
    BY <1>43, <2>1 DEF Clean, Ended
<1>44. CASE Crash
  <2>1. Image' = Image
    BY <1>44 DEF Crash, Image
  <2>2. QED
    BY <1>44, <2>1 DEF Crash
<1>45. CASE Reboot
  <2>1. Image' = Image
    BY <1>45 DEF Reboot, Image
  <2>2. QED
    BY <1>45, <2>1 DEF Reboot
<1>46. ASSUME NEW r \in Requests, Manage(r) PROVE (Contract!Next \/ Kept' = Kept)
  <2>1. Image' = Image
    BY <1>46 DEF Manage, Image
  <2>2. QED
    BY <1>46, <2>1 DEF Manage
<1>47. CASE UNCHANGED vars
  <2>1. Image' = Image
    BY <1>47 DEF vars, Image
  <2>2. QED
    BY <1>47, <2>1 DEF vars
<1> QED
  BY <1>1, <1>2, <1>3, <1>4, <1>5, <1>6, <1>7, <1>8, <1>9, <1>10, <1>11, <1>12, <1>13, <1>14, <1>15,
     <1>16, <1>17, <1>18, <1>19, <1>20, <1>21, <1>22, <1>23, <1>24, <1>25, <1>26, <1>27, <1>28,
     <1>29, <1>30, <1>31, <1>32, <1>33, <1>34, <1>35, <1>36, <1>37, <1>38, <1>39, <1>40, <1>41,
     <1>42, <1>43, <1>44, <1>45, <1>46, <1>47 DEF Next, Manager, Daemon, Applying, Restoring,
     Committing

----------------------------------------------------------------------------

LEMMA InitInv == Init => IInv
<1> SUFFICES ASSUME Init PROVE IInv
  OBVIOUS
<1> USE DEF Init
<1>1. PICK d \in Disks : /\ root = d.root /\ unit = d.unit /\ driver = d.driver /\ enabled = d.enabled
                         /\ wanted = d.active /\ running = (IF d.active THEN d.unit ELSE None) /\ loaded = d.driver
  OBVIOUS
<1>2. /\ d.root \in Trees \cup {None} /\ d.driver \in BOOLEAN /\ d.enabled \in BOOLEAN /\ d.active \in BOOLEAN
      /\ d.unit = IF d.root = None THEN None ELSE d.root.policy
  BY DisksAssumption
<1>3. unit \in Digests \cup {None}
  BY <1>1, <1>2, TreeTypes
<1>4. FilesOK
  BY <1>1, <1>2, <1>3 DEF FilesOK
<1>5. SavedOK
  BY <1>1, <1>2, <1>3, NoSnapshotType DEF SavedOK, Image
<1>6. FlagsOK
  BY <1>1, <1>2 DEF FlagsOK, HostFlagsOK, RunFlagsOK
<1>7. ManagerOK
  BY DEF ManagerOK, NoRequest, Requests
<1>8. TypeOK
  BY <1>4, <1>5, <1>6, <1>7, TypeParts
<1>9. Control /\ Asked
  BY DEF Control, Asked, Prelude, Opened, Ensures, Removes, Restores, Applies, HasDriver, HasDirectories
<1>10. Covered /\ Clear /\ RecoveryRestores
  BY DEF Covered, Clear, RecoveryRestores, Pending
<1>11. Installing /\ Stopping /\ Uninstalling
  BY DEF Installing, Stopping, Uninstalling, Ensures, Removes, Applies, HasDriver, HasVersion, HasUnit
<1>12. Progress
  BY DEF Progress
<1>13. QED
  BY <1>8, <1>9, <1>10, <1>11, <1>12 DEF IInv, Rules

LEMMA NextInv == IInv /\ [Next]_vars => IInv'
<1> SUFFICES ASSUME IInv, [Next]_vars PROVE IInv'
  OBVIOUS
<1>1. Rules /\ Covered /\ Installing /\ Uninstalling
  BY DEF IInv
<1>2. Rules'
  BY <1>1, StepTyped, ControlKept, AskedKept DEF Rules
<1>3. Covered'
  BY <1>1, CoveredKept
<1>4. QED
  BY <1>2, <1>3, InstallingKept, ProgressKept, ClearKept, RecoveryKept DEF IInv

LEMMA InvHolds == Spec => []IInv
  BY InitInv, NextInv, PTL DEF Spec

\* Whatever fails, the state is well typed, and a manager that has returned
\* holds neither a maintenance lease nor a snapshot.
THEOREM TypeCorrect == Spec => []TypeOK
<1>1. IInv => TypeOK
  BY DEF IInv, Rules
<1>2. QED
  BY <1>1, InvHolds, PTL

\* A rollback or recovery in which no effect failed leaves the original files
\* in place, from whatever point an earlier attempt died at (restore).
THEOREM RecoveryRestoresHolds == Spec => []RecoveryRestores
<1>1. IInv => RecoveryRestores
  BY DEF IInv
<1>2. QED
  BY <1>1, InvHolds, PTL

LEMMA InitContract == Init => Contract!Init
<1> SUFFICES ASSUME Init PROVE Contract!Init
  OBVIOUS
<1>1. TypeOK /\ ~Pending
  BY InitInv DEF IInv, Rules, Init, Pending
<1>2. Image \in [root : Trees \cup {None}, unit : Digests \cup {None}, driver : BOOLEAN]
  BY <1>1 DEF TypeOK, Image
<1>3. Contract!Trees = Trees
  BY DEF Contract!Trees, Contract!VersionStates, Trees, VersionStates
<1>4. QED
  BY <1>1, <1>2, <1>3 DEF Contract!Init, Contract!Installations

LEMMA NextContract ==
  ASSUME IInv, [Next]_vars
  PROVE  [Contract!Next]_(IF Pending THEN base ELSE Image)
<1>1. Control'
  BY ControlKept DEF IInv
<1>2. Contract!Next \/ Kept' = Kept
  BY <1>1, ContractKept
<1>3. QED
  BY <1>2 DEF Kept

\* Whatever fails, and wherever the manager or the host dies, the files that a
\* recovery would leave change only by whole transactions: every behaviour of
\* the service is one of the contract (saveJournal, commitJournal, restore).
THEOREM ContractHolds == Spec => ImplementsContract
  BY InitContract, NextContract, InvHolds, PTL DEF Spec, ImplementsContract, Contract!Spec

----------------------------------------------------------------------------
(* Who is served, and what may be taken away.                              *)
(*                                                                         *)
(* The second invariant, SInv, relates the files to systemd and to the     *)
(* daemon on a host where no effect of a rollback or a commit has failed:  *)
(* which daemon may be running at each step (Serving, Stopped), why an     *)
(* attachment may be interrupted (Asking), and what becomes of the unit's  *)
(* enablement (Enabling).                                                  *)

\* The files that count are one policy, or none.
Whole == Kept.unit = PolicyOf(Kept)

\* Without a unit nothing runs or is to run.
Idle == unit = None => running = None /\ ~wanted /\ ~enabled

\* Who is served, and by which daemon
Serving == /\ attached => running # None
           /\ ~injected =>
                /\ ~Pending => running \in {None, Policy}
                /\ Pending /\ attached => running = PolicyOf(base)
                /\ Idle

\* The steps between which the unit does not run, and those that bring back
\* the daemon of before
Halted == {"disable", "move away", "remove unit", "bring back", "versions", "root", "disable unit", "unit file",
           "policy", "driver file", "enable unit", "start unit"}
Started == {"unload", "remove", "restored", "commit"}
Stopped == ~injected =>
  /\ pc \in Halted \/ (pc = "commit" /\ mode = "apply" /\ ~Ensuring) => running = None /\ ~wanted
  /\ pc \in Started /\ mode # "apply" => running \in {None, PolicyOf(base)}
  /\ pc \in {"record", "commit"} /\ mode = "apply" /\ Ensuring => running \in {None, Target}

\* Who is attached has been asked, or the daemon came up by itself, or an error
\* of systemctl hid it.
Answered == consent \/ lapsed \/ hidden
Asking == ~injected =>
  /\ pc \in {"check", "snapshot", "stop service"} \cup Applies /\ attached => Answered
  /\ pc \in {"recover", "dispatch", "maintain"} => lease = "none"
  /\ pc = "check" /\ lease = "held" /\ attached => consent
  /\ pc \in {"check", "snapshot"} /\ lease # "held" /\ running # None => Answered

\* Whether the unit is enabled, as the manager's snapshot and the journal's recorded
\* it, and whether systemd keeps it running
OutEnable == {"start unit"} \cup Started
OutDisable == {"unit file", "policy", "driver file", "enable unit"} \cup OutEnable
Enableable(s) == s.enabled => s.unit # None /\ baseOn
Enabling == ~injected =>
  /\ Pending => Enableable(journal.saved) /\ (pc \in Working => Enableable(undo))
  /\ pc \in {"move away", "remove unit"} => ~enabled
  /\ mode # "apply" /\ pc \in OutDisable /\ ~undo.enabled => ~enabled
  /\ mode # "apply" /\ pc \in OutEnable /\ undo.enabled => enabled
  /\ mode # "apply" /\ pc \in Started /\ undo.active => wanted \/ (failed /\ pc # "commit")

SInv == IInv /\ Whole /\ Serving /\ Stopped /\ Asking /\ Enabling

\* A failure is not forgotten.
LEMMA FailuresStay == ASSUME injected \in BOOLEAN, [Next]_vars PROVE injected => injected'
<1> USE DEF Apply, Proceed, RollBack, Restored, Fault, Broken, Tried, Refused, End, Unknown,
            files, log, host, service, memory, history, excuses, NoExcuse
<1>1. CASE Attach BY <1>1 DEF Attach, Admits
<1>2. CASE Detach BY <1>2 DEF Detach
<1>3. CASE DaemonCrash BY <1>3 DEF DaemonCrash, Gone
<1>4. CASE DaemonStart BY <1>4 DEF DaemonStart
<1>5. CASE Recover BY <1>5 DEF Recover
<1>6. CASE Dispatch BY <1>6 DEF Dispatch, Seen
<1>7. CASE Confirm BY <1>7 DEF Confirm
<1>8. CASE Maintain BY <1>8 DEF Maintain, Seen
<1>9. CASE Consent BY <1>9 DEF Consent
<1>10. CASE Check BY <1>10 DEF Check
<1>11. CASE TakeSnapshot BY <1>11 DEF TakeSnapshot, FirstStep, Image
<1>12. CASE PrepareDriver BY <1>12 DEF PrepareDriver
<1>13. CASE MakeDirectories BY <1>13 DEF MakeDirectories, AfterDirectories
<1>14. CASE Halt BY <1>14 DEF Halt, AfterHalt, StopUnit, Gone
<1>15. CASE SaveVersion BY <1>15 DEF SaveVersion
<1>16. CASE Retained BY <1>16 DEF Retained
<1>17. CASE BackUp BY <1>17 DEF BackUp, SetVersion
<1>18. CASE Publish BY <1>18 DEF Publish, SetVersion
<1>19. CASE WriteUnit BY <1>19 DEF WriteUnit
<1>20. CASE Enable BY <1>20 DEF Enable
<1>21. CASE StartNew BY <1>21 DEF StartNew, StartUnit
<1>22. CASE Verify BY <1>22 DEF Verify
<1>23. CASE WriteRecord BY <1>23 DEF WriteRecord
<1>24. CASE SaveRemoval BY <1>24 DEF SaveRemoval
<1>25. CASE MoveAway BY <1>25 DEF MoveAway
<1>26. CASE RemoveUnit BY <1>26 DEF RemoveUnit
<1>27. CASE RestoreStop BY <1>27 DEF RestoreStop, StopUnit, Gone
<1>28. CASE RestoreRoot BY <1>28 DEF RestoreRoot
<1>29. CASE RestoreVersion BY <1>29 DEF RestoreVersion, SetVersion
<1>30. CASE RestoreDirectory BY <1>30 DEF RestoreDirectory
<1>31. CASE RestoreDisable BY <1>31 DEF RestoreDisable
<1>32. CASE RestoreUnit BY <1>32 DEF RestoreUnit
<1>33. CASE RestorePolicy BY <1>33 DEF RestorePolicy
<1>34. CASE RestoreDriver BY <1>34 DEF RestoreDriver
<1>35. CASE RestoreEnable BY <1>35 DEF RestoreEnable
<1>36. CASE RestoreStart BY <1>36 DEF RestoreStart, StartUnit
<1>37. CASE RestoreModule BY <1>37 DEF RestoreModule
<1>38. CASE RestoreAbsence BY <1>38 DEF RestoreAbsence
<1>39. CASE EndRestore BY <1>39 DEF EndRestore
<1>40. CASE Commit BY <1>40 DEF Commit
<1>41. CASE Collect BY <1>41 DEF Collect
<1>42. CASE Retire BY <1>42 DEF Retire
<1>43. CASE Clean BY <1>43 DEF Clean, Ended
<1>44. CASE Crash BY <1>44 DEF Crash
<1>45. CASE Reboot BY <1>45 DEF Reboot
<1>46. ASSUME NEW r \in Requests, Manage(r) PROVE injected => injected'
  BY <1>46 DEF Manage
<1>47. CASE UNCHANGED vars BY <1>47 DEF vars
<1> QED
  BY <1>1, <1>2, <1>3, <1>4, <1>5, <1>6, <1>7, <1>8, <1>9, <1>10, <1>11, <1>12, <1>13, <1>14, <1>15,
     <1>16, <1>17, <1>18, <1>19, <1>20, <1>21, <1>22, <1>23, <1>24, <1>25, <1>26, <1>27, <1>28,
     <1>29, <1>30, <1>31, <1>32, <1>33, <1>34, <1>35, <1>36, <1>37, <1>38, <1>39, <1>40, <1>41,
     <1>42, <1>43, <1>44, <1>45, <1>46, <1>47 DEF Next, Manager, Daemon, Applying, Restoring,
     Committing

Serves == /\ running' \in {running, None, unit}
          /\ attached' => running' = running
          /\ attached' => running # None /\ (attached \/ (journal = None /\ UNCHANGED <<journal, root>>))

\* What a step does to the daemon and to what it serves
LEMMA DaemonSteps == ASSUME attached \in BOOLEAN, attached => running # None, [Next]_vars PROVE Serves
<1> USE DEF Serves, Apply, Proceed, RollBack, Restored, Fault, Broken, Tried, Refused, End, Unknown,
            files, log, host, service, memory, history, excuses, NoExcuse
<1>1. CASE Attach BY <1>1 DEF Attach, Admits
<1>2. CASE Detach BY <1>2 DEF Detach
<1>3. CASE DaemonCrash BY <1>3 DEF DaemonCrash, Gone
<1>4. CASE DaemonStart BY <1>4 DEF DaemonStart
<1>5. CASE Recover BY <1>5 DEF Recover
<1>6. CASE Dispatch
  <2>1. UNCHANGED <<running, attached>>
    BY <1>6 DEF Dispatch
  <2>2. QED
    BY <2>1
<1>7. CASE Confirm BY <1>7 DEF Confirm
<1>8. CASE Maintain BY <1>8 DEF Maintain
<1>9. CASE Consent BY <1>9 DEF Consent
<1>10. CASE Check
  <2>1. UNCHANGED <<running, attached>>
    BY <1>10 DEF Check
  <2>2. QED
    BY <2>1
<1>11. CASE TakeSnapshot
  <2>1. UNCHANGED <<running, attached>>
    BY <1>11 DEF TakeSnapshot, FirstStep, Image
  <2>2. QED
    BY <2>1
<1>12. CASE PrepareDriver BY <1>12 DEF PrepareDriver
<1>13. CASE MakeDirectories BY <1>13 DEF MakeDirectories, AfterDirectories
<1>14. CASE Halt
  <2>1. UNCHANGED <<running, attached>> \/ (running' = None /\ attached' = FALSE)
    BY <1>14 DEF Halt, AfterHalt, StopUnit, Gone
  <2>2. QED
    BY <2>1
<1>15. CASE SaveVersion BY <1>15 DEF SaveVersion
<1>16. CASE Retained BY <1>16 DEF Retained
<1>17. CASE BackUp BY <1>17 DEF BackUp, SetVersion
<1>18. CASE Publish BY <1>18 DEF Publish, SetVersion
<1>19. CASE WriteUnit BY <1>19 DEF WriteUnit
<1>20. CASE Enable BY <1>20 DEF Enable
<1>21. CASE StartNew
  <2>1. attached' = attached /\ (running' = running \/ (running = None /\ running' \in {None, unit}))
    BY <1>21 DEF StartNew, StartUnit
  <2>2. QED
    BY <2>1
<1>22. CASE Verify BY <1>22 DEF Verify
<1>23. CASE WriteRecord BY <1>23 DEF WriteRecord
<1>24. CASE SaveRemoval BY <1>24 DEF SaveRemoval
<1>25. CASE MoveAway BY <1>25 DEF MoveAway
<1>26. CASE RemoveUnit BY <1>26 DEF RemoveUnit
<1>27. CASE RestoreStop
  <2>1. UNCHANGED <<running, attached>> \/ (running' = None /\ attached' = FALSE)
    BY <1>27 DEF RestoreStop, StopUnit, Gone
  <2>2. QED
    BY <2>1
<1>28. CASE RestoreRoot BY <1>28 DEF RestoreRoot
<1>29. CASE RestoreVersion BY <1>29 DEF RestoreVersion, SetVersion
<1>30. CASE RestoreDirectory BY <1>30 DEF RestoreDirectory
<1>31. CASE RestoreDisable BY <1>31 DEF RestoreDisable
<1>32. CASE RestoreUnit BY <1>32 DEF RestoreUnit
<1>33. CASE RestorePolicy BY <1>33 DEF RestorePolicy
<1>34. CASE RestoreDriver BY <1>34 DEF RestoreDriver
<1>35. CASE RestoreEnable BY <1>35 DEF RestoreEnable
<1>36. CASE RestoreStart BY <1>36 DEF RestoreStart, StartUnit
<1>37. CASE RestoreModule BY <1>37 DEF RestoreModule
<1>38. CASE RestoreAbsence BY <1>38 DEF RestoreAbsence
<1>39. CASE EndRestore BY <1>39 DEF EndRestore
<1>40. CASE Commit
  <2>1. UNCHANGED <<running, attached>>
    BY <1>40 DEF Commit
  <2>2. QED
    BY <2>1
<1>41. CASE Collect BY <1>41 DEF Collect
<1>42. CASE Retire BY <1>42 DEF Retire
<1>43. CASE Clean
  <2>1. UNCHANGED <<running, attached>>
    BY <1>43 DEF Clean, Ended
  <2>2. QED
    BY <2>1
<1>44. CASE Crash BY <1>44 DEF Crash
<1>45. CASE Reboot BY <1>45 DEF Reboot
<1>46. ASSUME NEW r \in Requests, Manage(r) PROVE Serves
  BY <1>46 DEF Manage
<1>47. CASE UNCHANGED vars BY <1>47 DEF vars
<1> QED
  BY <1>1, <1>2, <1>3, <1>4, <1>5, <1>6, <1>7, <1>8, <1>9, <1>10, <1>11, <1>12, <1>13, <1>14, <1>15,
     <1>16, <1>17, <1>18, <1>19, <1>20, <1>21, <1>22, <1>23, <1>24, <1>25, <1>26, <1>27, <1>28,
     <1>29, <1>30, <1>31, <1>32, <1>33, <1>34, <1>35, <1>36, <1>37, <1>38, <1>39, <1>40, <1>41,
     <1>42, <1>43, <1>44, <1>45, <1>46, <1>47 DEF Next, Manager, Daemon, Applying, Restoring,
     Committing

Resolves ==
  /\ Pending => /\ base' = base
                /\ Pending' \/ (pc = "commit" /\ UNCHANGED running /\ Image' = Image)
  /\ ~Pending => \/ ~Pending' /\ Policy' = Policy
                 \/ Pending' /\ base' = Image /\ UNCHANGED <<running, attached>>

\* When the pending state changes
LEMMA PendingSteps == ASSUME IInv, Control', [Next]_vars PROVE Resolves
<1> USE DEF Resolves, IInv, Rules, Control, Pending, Prelude, Opened, Ensures, Removes, Restores,
            Applies, HasDriver, HasDirectories, HasVersion, HasUnit, Apply, Proceed, RollBack,
            Restored, Fault, Broken, Tried, Refused, End, Unknown, files, log, host, service,
            memory, history, excuses, NoExcuse
<1>1. CASE Attach
  <2>1. Policy' = Policy
    BY <1>1 DEF Attach, Admits, Policy
  <2>2. QED
    BY <1>1, <2>1 DEF Attach, Admits
<1>2. CASE Detach
  <2>1. Policy' = Policy
    BY <1>2 DEF Detach, Policy
  <2>2. QED
    BY <1>2, <2>1 DEF Detach
<1>3. CASE DaemonCrash
  <2>1. Policy' = Policy
    BY <1>3 DEF DaemonCrash, Gone, Policy
  <2>2. QED
    BY <1>3, <2>1 DEF DaemonCrash, Gone
<1>4. CASE DaemonStart
  <2>1. Policy' = Policy
    BY <1>4 DEF DaemonStart, Policy
  <2>2. QED
    BY <1>4, <2>1 DEF DaemonStart
<1>5. CASE Recover
  <2>1. Policy' = Policy
    BY <1>5 DEF Recover, Policy
  <2>2. QED
    BY <1>5, <2>1 DEF Recover
<1>6. CASE Dispatch
  <2>1. Policy' = Policy
    BY <1>6 DEF Dispatch, Policy
  <2>2. QED
    BY <1>6, <2>1 DEF Dispatch
<1>7. CASE Confirm
  <2>1. Policy' = Policy
    BY <1>7 DEF Confirm, Policy
  <2>2. QED
    BY <1>7, <2>1 DEF Confirm
<1>8. CASE Maintain
  <2>1. Policy' = Policy
    BY <1>8 DEF Maintain, Policy
  <2>2. QED
    BY <1>8, <2>1 DEF Maintain
<1>9. CASE Consent
  <2>1. Policy' = Policy
    BY <1>9 DEF Consent, Policy
  <2>2. QED
    BY <1>9, <2>1 DEF Consent
<1>10. CASE Check
  <2>1. Policy' = Policy
    BY <1>10 DEF Check, Policy
  <2>2. QED
    BY <1>10, <2>1 DEF Check
<1>11. CASE TakeSnapshot
  <2>1. CASE Refused
    <3>1. Policy' = Policy
      BY <2>1 DEF Policy
    <3>2. QED
      BY <1>11, <2>1, <3>1 DEF TakeSnapshot
  <2>2. CASE Snapped(undo') /\ journal' = [saved |-> undo', committed |-> FALSE, backup |-> "absent"] /\ base' = Image
             /\ UNCHANGED <<running, attached>>
    <3>1. [saved |-> undo', committed |-> FALSE, backup |-> "absent"] \in Journals
      BY <2>2, TakenType DEF Journals, VersionStates
    <3>2. journal' # None /\ ~journal'.committed
      BY <2>2, <3>1, NoneIsNoJournal
    <3>3. QED
      BY <1>11, <2>2, <3>2 DEF TakeSnapshot
  <2>3. QED
    BY <1>11, <2>1, <2>2 DEF TakeSnapshot, Snapped
<1>12. CASE PrepareDriver BY <1>12 DEF PrepareDriver
<1>13. CASE MakeDirectories BY <1>13 DEF MakeDirectories, AfterDirectories
<1>14. CASE Halt BY <1>14 DEF Halt, AfterHalt, StopUnit, Gone
<1>15. CASE SaveVersion BY <1>15 DEF SaveVersion
<1>16. CASE Retained BY <1>16 DEF Retained
<1>17. CASE BackUp BY <1>17 DEF BackUp, SetVersion
<1>18. CASE Publish BY <1>18 DEF Publish, SetVersion
<1>19. CASE WriteUnit BY <1>19 DEF WriteUnit
<1>20. CASE Enable BY <1>20 DEF Enable
<1>21. CASE StartNew BY <1>21 DEF StartNew, StartUnit
<1>22. CASE Verify BY <1>22 DEF Verify
<1>23. CASE WriteRecord BY <1>23 DEF WriteRecord
<1>24. CASE SaveRemoval BY <1>24 DEF SaveRemoval
<1>25. CASE MoveAway BY <1>25 DEF MoveAway
<1>26. CASE RemoveUnit BY <1>26 DEF RemoveUnit
<1>27. CASE RestoreStop BY <1>27 DEF RestoreStop, StopUnit, Gone
<1>28. CASE RestoreRoot BY <1>28 DEF RestoreRoot
<1>29. CASE RestoreVersion BY <1>29 DEF RestoreVersion, SetVersion
<1>30. CASE RestoreDirectory BY <1>30 DEF RestoreDirectory
<1>31. CASE RestoreDisable BY <1>31 DEF RestoreDisable
<1>32. CASE RestoreUnit BY <1>32 DEF RestoreUnit
<1>33. CASE RestorePolicy BY <1>33 DEF RestorePolicy
<1>34. CASE RestoreDriver BY <1>34 DEF RestoreDriver
<1>35. CASE RestoreEnable BY <1>35 DEF RestoreEnable
<1>36. CASE RestoreStart BY <1>36 DEF RestoreStart, StartUnit
<1>37. CASE RestoreModule BY <1>37 DEF RestoreModule
<1>38. CASE RestoreAbsence BY <1>38 DEF RestoreAbsence
<1>39. CASE EndRestore BY <1>39 DEF EndRestore
<1>40. CASE Commit
  <2>1. Image' = Image /\ running' = running /\ base' = base /\ Pending
    BY <1>40 DEF Commit, Image
  <2>2. QED
    BY <1>40, <2>1 DEF Commit
<1>41. CASE Collect
  <2>1. Policy' = Policy
    BY <1>41 DEF Collect, Policy
  <2>2. QED
    BY <1>41, <2>1 DEF Collect
<1>42. CASE Retire
  <2>1. Policy' = Policy
    BY <1>42 DEF Retire, Policy
  <2>2. QED
    BY <1>42, <2>1 DEF Retire
<1>43. CASE Clean
  <2>1. Policy' = Policy
    BY <1>43 DEF Clean, Ended, Policy
  <2>2. QED
    BY <1>43, <2>1 DEF Clean, Ended
<1>44. CASE Crash
  <2>1. Policy' = Policy
    BY <1>44 DEF Crash, Policy
  <2>2. QED
    BY <1>44, <2>1 DEF Crash
<1>45. CASE Reboot
  <2>1. Policy' = Policy
    BY <1>45 DEF Reboot, Policy
  <2>2. QED
    BY <1>45, <2>1 DEF Reboot
<1>46. ASSUME NEW r \in Requests, Manage(r) PROVE Resolves
  <2>1. Policy' = Policy
    BY <1>46 DEF Manage, Policy
  <2>2. QED
    BY <1>46, <2>1 DEF Manage
<1>47. CASE UNCHANGED vars
  <2>1. Policy' = Policy
    BY <1>47 DEF vars, Policy
  <2>2. QED
    BY <1>47, <2>1 DEF vars
<1> QED
  BY <1>1, <1>2, <1>3, <1>4, <1>5, <1>6, <1>7, <1>8, <1>9, <1>10, <1>11, <1>12, <1>13, <1>14, <1>15,
     <1>16, <1>17, <1>18, <1>19, <1>20, <1>21, <1>22, <1>23, <1>24, <1>25, <1>26, <1>27, <1>28,
     <1>29, <1>30, <1>31, <1>32, <1>33, <1>34, <1>35, <1>36, <1>37, <1>38, <1>39, <1>40, <1>41,
     <1>42, <1>43, <1>44, <1>45, <1>46, <1>47 DEF Next, Manager, Daemon, Applying, Restoring,
     Committing

LEMMA EnsuredPolicy == 
  ASSUME NEW b, b.root \in Trees \cup {None}, NEW d \in Digests
  PROVE  PolicyOf(Contract!Ensured(b, d)) = d
<1>1. [Was(b) EXCEPT ![d] = "good"] \in [Digests -> VersionStates]
  BY WasVersions DEF VersionStates
<1>2. [versions |-> [Was(b) EXCEPT ![d] = "good"], policy |-> d] \in Trees
  BY <1>1 DEF Trees
<1>3. QED
  BY <1>2, NoneIsNoTree DEF PolicyOf, Contract!Ensured, Was

\* An attachment keeps the daemon of the policy that counts.
LEMMA ServedKept == ASSUME SInv, Control', [Next]_vars
  PROVE  /\ attached' => running' # None
         /\ ~injected' => /\ ~Pending' => running' \in {None, Policy'}
                          /\ Pending' /\ attached' => running' = PolicyOf(base')
<1>1. /\ TypeOK /\ Rules /\ IInv /\ (attached => running # None)
  BY DEF SInv, Serving, IInv, Rules, TypeOK
<1>2. Serves
  BY <1>1, TypeParts, DaemonSteps DEF FlagsOK, HostFlagsOK
<1>3. Resolves
  BY <1>1, PendingSteps
<1>4. attached' => running' # None
  BY <1>2 DEF Serves
<1>5. ASSUME ~injected' PROVE ~injected
  BY <1>1, <1>5, TypeParts, FailuresStay DEF FlagsOK, RunFlagsOK
<1>6. ASSUME ~injected', ~Pending', Pending PROVE running' \in {None, Policy'}
  <2>1. pc = "commit" /\ running' = running /\ Image' = Image
    BY <1>3, <1>6 DEF Resolves
  <2>2. Policy' = Policy /\ Policy = PolicyOf(Image)
    BY <2>1 DEF Image, Policy, PolicyOf
  <2>3. CASE mode # "apply"
    BY <1>1, <1>5, <1>6, <2>1, <2>2, <2>3 DEF SInv, Stopped, Started, IInv, Progress
  <2>4. CASE mode = "apply" /\ Ensuring
    <3>1. Image = Contract!Ensured(base, Target) /\ Target \in Digests
      BY <1>1, <2>1, <2>4, Targets DEF IInv, Installing, TypeOK
    <3>2. PolicyOf(Image) = Target
      BY <1>1, <3>1, Typed, EnsuredPolicy
    <3>3. QED
      BY <1>5, <1>6, <2>1, <2>2, <2>4, <3>2 DEF SInv, Stopped
  <2>5. CASE mode = "apply" /\ ~Ensuring
    BY <1>5, <1>6, <2>1, <2>5 DEF SInv, Stopped
  <2>6. QED
    BY <2>3, <2>4, <2>5
<1>7. ASSUME ~injected', ~Pending', ~Pending PROVE running' \in {None, Policy'}
  <2>1. Policy' = Policy /\ unit = PolicyOf(Image) /\ Policy = PolicyOf(Image)
    BY <1>3, <1>7 DEF Resolves, SInv, Whole, Kept, Image, Policy, PolicyOf
  <2>2. QED
    BY <1>2, <1>5, <1>7, <2>1 DEF Serves, SInv, Serving
<1>8. ASSUME ~injected', Pending', attached', Pending PROVE running' = PolicyOf(base')
  <2>1. base' = base /\ running' = running /\ attached
    <3>1. journal # None
      BY <1>8 DEF Pending
    <3>2. base' = base
      BY <1>3, <1>8 DEF Resolves
    <3>3. running' = running
      BY <1>2, <1>8 DEF Serves
    <3>4. attached
      BY <1>2, <1>8, <3>1 DEF Serves
    <3>5. QED
      BY <3>2, <3>3, <3>4
  <2>2. running = PolicyOf(base)
    BY <1>5, <1>8, <2>1 DEF SInv, Serving
  <2>3. QED
    BY <2>1, <2>2
<1>9. ASSUME ~injected', Pending', attached', ~Pending PROVE running' = PolicyOf(base')
  <2>1. PolicyOf(Image) = Policy /\ base' = Image /\ running' = running /\ attached
    BY <1>3, <1>9 DEF Resolves, Image, Policy, PolicyOf
  <2>2. QED
    BY <1>1, <1>5, <1>9, <2>1 DEF SInv, Serving
<1>10. QED
  BY <1>4, <1>6, <1>7, <1>8, <1>9

\* Without a unit nothing comes up.
LEMMA IdleKept == ASSUME SInv, ~injected, ~injected', [Next]_vars PROVE Idle'
<1> USE DEF Idle, SInv, IInv, Rules, Control, Pending, Serving, Prelude, Opened, Ensures, Removes,
            Restores, Applies, HasDriver, HasDirectories, HasVersion, HasUnit, Apply, Proceed,
            RollBack, Restored, Fault, Broken, Tried, Refused, End, Unknown, files, log, host,
            service, memory, history, excuses, NoExcuse
<1>1. CASE Attach BY <1>1 DEF Attach, Admits
<1>2. CASE Detach BY <1>2 DEF Detach
<1>3. CASE DaemonCrash BY <1>3 DEF DaemonCrash, Gone
<1>4. CASE DaemonStart BY <1>4 DEF DaemonStart
<1>5. CASE Recover BY <1>5 DEF Recover
<1>6. CASE Dispatch BY <1>6 DEF Dispatch, Seen
<1>7. CASE Confirm BY <1>7 DEF Confirm
<1>8. CASE Maintain BY <1>8 DEF Maintain, Seen
<1>9. CASE Consent BY <1>9 DEF Consent
<1>10. CASE Check BY <1>10 DEF Check
<1>11. CASE TakeSnapshot BY <1>11 DEF TakeSnapshot, FirstStep, Image
<1>12. CASE PrepareDriver BY <1>12 DEF PrepareDriver
<1>13. CASE MakeDirectories BY <1>13 DEF MakeDirectories, AfterDirectories
<1>14. CASE Halt BY <1>14 DEF Halt, AfterHalt, StopUnit, Gone
<1>15. CASE SaveVersion BY <1>15 DEF SaveVersion
<1>16. CASE Retained BY <1>16 DEF Retained
<1>17. CASE BackUp BY <1>17 DEF BackUp, SetVersion
<1>18. CASE Publish BY <1>18 DEF Publish, SetVersion
<1>19. CASE WriteUnit
  <2>1. Target # None
    BY <1>19, Targets, DigestsAssumption DEF WriteUnit, TypeOK, Asked
  <2>2. unit' \in {unit, Target} /\ UNCHANGED host
    BY <1>19 DEF WriteUnit
  <2>3. QED
    BY <2>1, <2>2
<1>20. CASE Enable
  <2>1. pc \in HasUnit => unit # None
    <3>1. ASSUME pc \in HasUnit PROVE mode = "apply" /\ Ensuring
      BY <3>1 DEF Asked
    <3>2. pc \in HasUnit => unit = Target
      BY <3>1 DEF Installing
    <3>3. pc \in HasUnit => Target # None
      BY <3>1, Targets, DigestsAssumption DEF TypeOK
    <3>4. QED
      BY <3>2, <3>3
  <2>2. /\ unit' = unit /\ UNCHANGED <<wanted, running>>
        /\ enabled' = enabled \/ pc \in HasUnit \/ enabled' = FALSE
    BY <1>20 DEF Enable
  <2>3. QED
    BY <2>1, <2>2
<1>21. CASE StartNew
  <2>1. pc \in HasUnit => unit # None
    <3>1. ASSUME pc \in HasUnit PROVE mode = "apply" /\ Ensuring
      BY <3>1 DEF Asked
    <3>2. pc \in HasUnit => unit = Target
      BY <3>1 DEF Installing
    <3>3. pc \in HasUnit => Target # None
      BY <3>1, Targets, DigestsAssumption DEF TypeOK
    <3>4. QED
      BY <3>2, <3>3
  <2>2. pc \in HasUnit /\ unit' = unit
    BY <1>21 DEF StartNew
  <2>3. QED
    BY <2>1, <2>2
<1>22. CASE Verify BY <1>22 DEF Verify
<1>23. CASE WriteRecord BY <1>23 DEF WriteRecord
<1>24. CASE SaveRemoval BY <1>24 DEF SaveRemoval
<1>25. CASE MoveAway BY <1>25 DEF MoveAway
<1>26. CASE RemoveUnit
  <2>1. mode = "apply" /\ pc = "remove unit" /\ UNCHANGED host
    BY <1>26 DEF RemoveUnit
  <2>2. running = None /\ ~wanted /\ ~enabled
    BY <2>1 DEF Stopped, Halted, Enabling
  <2>3. QED
    BY <2>1, <2>2
<1>27. CASE RestoreStop BY <1>27 DEF RestoreStop, StopUnit, Gone
<1>28. CASE RestoreRoot BY <1>28 DEF RestoreRoot
<1>29. CASE RestoreVersion BY <1>29 DEF RestoreVersion, SetVersion
<1>30. CASE RestoreDirectory BY <1>30 DEF RestoreDirectory
<1>31. CASE RestoreDisable BY <1>31 DEF RestoreDisable
<1>32. CASE RestoreUnit
  <2>1. mode # "apply" /\ pc = "unit file" /\ UNCHANGED host /\ unit' \in {unit, undo.unit} /\ Pending
    BY <1>32 DEF RestoreUnit
  <2>2. undo.unit = base.unit
    BY <2>1 DEF Covered, Working, Knows
  <2>3. ASSUME undo.unit = None PROVE running = None /\ ~wanted /\ ~enabled
    BY <2>1, <2>2, <2>3 DEF Stopped, Halted, Enabling, OutDisable, Enableable, Working
  <2>4. QED
    BY <2>1, <2>3
<1>33. CASE RestorePolicy BY <1>33 DEF RestorePolicy
<1>34. CASE RestoreDriver BY <1>34 DEF RestoreDriver
<1>35. CASE RestoreEnable
  <2>1. /\ mode # "apply" /\ pc = "enable unit" /\ UNCHANGED <<running, wanted, unit>> /\ Pending
        /\ enabled' = enabled \/ undo.unit # None
    BY <1>35 DEF RestoreEnable
  <2>2. undo.unit = base.unit
    BY <2>1 DEF Covered, Working, Knows
  <2>3. unit = base.unit
    BY <2>1 DEF Progress, Sure, OutUnit, OutPolicy, OutDriver
  <2>4. QED
    BY <2>1, <2>2, <2>3
<1>36. CASE RestoreStart BY <1>36 DEF RestoreStart, StartUnit
<1>37. CASE RestoreModule BY <1>37 DEF RestoreModule
<1>38. CASE RestoreAbsence BY <1>38 DEF RestoreAbsence
<1>39. CASE EndRestore BY <1>39 DEF EndRestore
<1>40. CASE Commit BY <1>40 DEF Commit
<1>41. CASE Collect BY <1>41 DEF Collect
<1>42. CASE Retire BY <1>42 DEF Retire
<1>43. CASE Clean BY <1>43 DEF Clean, Ended
<1>44. CASE Crash BY <1>44 DEF Crash
<1>45. CASE Reboot BY <1>45 DEF Reboot
<1>46. ASSUME NEW r \in Requests, Manage(r) PROVE Idle'
  BY <1>46 DEF Manage
<1>47. CASE UNCHANGED vars BY <1>47 DEF vars
<1> QED
  BY <1>1, <1>2, <1>3, <1>4, <1>5, <1>6, <1>7, <1>8, <1>9, <1>10, <1>11, <1>12, <1>13, <1>14, <1>15,
     <1>16, <1>17, <1>18, <1>19, <1>20, <1>21, <1>22, <1>23, <1>24, <1>25, <1>26, <1>27, <1>28,
     <1>29, <1>30, <1>31, <1>32, <1>33, <1>34, <1>35, <1>36, <1>37, <1>38, <1>39, <1>40, <1>41,
     <1>42, <1>43, <1>44, <1>45, <1>46, <1>47 DEF Next, Manager, Daemon, Applying, Restoring,
     Committing

\* The unit stays stopped where it must.
LEMMA StoppedKept == ASSUME SInv, ~injected, ~injected', [Next]_vars PROVE Stopped'
<1> USE DEF SInv, IInv, Rules, Control, Pending, Stopped, Halted, Started, Prelude, Opened, Ensures,
            Removes, Restores, Applies, HasDriver, HasDirectories, HasVersion, HasUnit, Apply,
            Proceed, RollBack, Restored, Fault, Broken, Tried, Refused, End, Unknown, files, log,
            host, service, memory, history, excuses, NoExcuse
<1>1. CASE Attach BY <1>1 DEF Attach, Admits
<1>2. CASE Detach
  <2>1. Ensuring' = Ensuring /\ Target' = Target
    BY <1>2 DEF Detach, Ensuring, Target
  <2>2. QED
    BY <1>2, <2>1 DEF Detach
<1>3. CASE DaemonCrash
  <2>1. Ensuring' = Ensuring /\ Target' = Target
    BY <1>3 DEF DaemonCrash, Gone, Ensuring, Target
  <2>2. QED
    BY <1>3, <2>1 DEF DaemonCrash, Gone
<1>4. CASE DaemonStart
  <2>1. Ensuring' = Ensuring /\ Target' = Target
    BY <1>4 DEF DaemonStart, Ensuring, Target
  <2>2. UNCHANGED <<pc, mode, base, wanted>> /\ wanted /\ running' = unit
    BY <1>4 DEF DaemonStart
  <2>3. ASSUME Pending, pc \in Started, mode # "apply" PROVE unit = PolicyOf(base)
    <3>1. unit = base.unit
      <4>1. pc = "commit" => Image = base
        BY <2>3 DEF Progress
      <4>2. pc # "commit" => unit = base.unit
        BY <2>3 DEF Progress, Sure, OutUnit, OutPolicy, OutDriver, Started
      <4>3. Image.unit = unit
        BY DEF Image
      <4>4. QED
        BY <4>1, <4>2, <4>3
    <3>2. base.unit = PolicyOf(base)
      BY <2>3 DEF Whole, Kept
    <3>3. QED
      BY <3>1, <3>2
  <2>4. ASSUME pc \in {"record", "commit"}, mode = "apply", Ensuring PROVE unit = Target
    BY <2>4 DEF Installing, Image, Contract!Ensured
  <2>5. pc \in Started => Pending
    BY DEF Started
  <2>6. QED
    BY <2>1, <2>2, <2>3, <2>4, <2>5
<1>5. CASE Recover BY <1>5 DEF Recover
<1>6. CASE Dispatch BY <1>6 DEF Dispatch, Seen
<1>7. CASE Confirm BY <1>7 DEF Confirm
<1>8. CASE Maintain BY <1>8 DEF Maintain, Seen
<1>9. CASE Consent BY <1>9 DEF Consent
<1>10. CASE Check BY <1>10 DEF Check
<1>11. CASE TakeSnapshot BY <1>11 DEF TakeSnapshot, FirstStep, Image
<1>12. CASE PrepareDriver BY <1>12 DEF PrepareDriver
<1>13. CASE MakeDirectories BY <1>13 DEF MakeDirectories, AfterDirectories
<1>14. CASE Halt BY <1>14 DEF Halt, AfterHalt, StopUnit, Gone
<1>15. CASE SaveVersion BY <1>15 DEF SaveVersion
<1>16. CASE Retained BY <1>16 DEF Retained
<1>17. CASE BackUp BY <1>17 DEF BackUp, SetVersion
<1>18. CASE Publish BY <1>18 DEF Publish, SetVersion
<1>19. CASE WriteUnit BY <1>19 DEF WriteUnit
<1>20. CASE Enable BY <1>20 DEF Enable
<1>21. CASE StartNew BY <1>21 DEF StartNew, StartUnit
<1>22. CASE Verify
  <2>1. Ensuring' = Ensuring /\ Target' = Target
    BY <1>22 DEF Verify, Ensuring, Target
  <2>2. pc = "verify" /\ UNCHANGED <<running, wanted, base>>
    BY <1>22 DEF Verify
  <2>3. pc' = "stop service" \/ (pc' = "record" /\ running = Target /\ mode' = mode)
    BY <1>22 DEF Verify, Proved
  <2>4. QED
    BY <2>1, <2>2, <2>3
<1>23. CASE WriteRecord
  <2>1. Ensuring' = Ensuring /\ Target' = Target
    BY <1>23 DEF WriteRecord, Ensuring, Target
  <2>2. pc = "record" /\ UNCHANGED <<running, wanted, base>> /\ Ensuring /\ mode = "apply"
    BY <1>23 DEF WriteRecord, Asked
  <2>3. pc' = "stop service" \/ (pc' = "commit" /\ mode' = mode)
    BY <1>23 DEF WriteRecord
  <2>4. QED
    BY <2>1, <2>2, <2>3
<1>24. CASE SaveRemoval BY <1>24 DEF SaveRemoval
<1>25. CASE MoveAway BY <1>25 DEF MoveAway
<1>26. CASE RemoveUnit BY <1>26 DEF RemoveUnit
<1>27. CASE RestoreStop
  <2>1. pc' = "bring back"
    BY <1>27 DEF RestoreStop
  <2>2. running' = None /\ ~wanted'
    BY <1>27 DEF RestoreStop, StopUnit, Gone, Serving, Idle
  <2>3. QED
    BY <2>1, <2>2
<1>28. CASE RestoreRoot BY <1>28 DEF RestoreRoot
<1>29. CASE RestoreVersion BY <1>29 DEF RestoreVersion, SetVersion
<1>30. CASE RestoreDirectory BY <1>30 DEF RestoreDirectory
<1>31. CASE RestoreDisable BY <1>31 DEF RestoreDisable
<1>32. CASE RestoreUnit BY <1>32 DEF RestoreUnit
<1>33. CASE RestorePolicy BY <1>33 DEF RestorePolicy
<1>34. CASE RestoreDriver BY <1>34 DEF RestoreDriver
<1>35. CASE RestoreEnable BY <1>35 DEF RestoreEnable
<1>36. CASE RestoreStart
  <2>1. pc = "start unit" /\ pc' = "unload" /\ mode # "apply" /\ mode' = mode /\ base' = base /\ Pending
    BY <1>36 DEF RestoreStart
  <2>2. running' \in {None, unit}
    <3>1. running = None
      BY <2>1 DEF Stopped, Halted
    <3>2. QED
      BY <1>36, <3>1 DEF RestoreStart, StartUnit
  <2>3. unit = base.unit
    BY <2>1 DEF Progress, Sure, OutUnit, OutPolicy, OutDriver
  <2>4. base.unit = PolicyOf(base)
    BY <2>1 DEF Whole, Kept
  <2>5. QED
    BY <2>1, <2>2, <2>3, <2>4
<1>37. CASE RestoreModule BY <1>37 DEF RestoreModule
<1>38. CASE RestoreAbsence BY <1>38 DEF RestoreAbsence
<1>39. CASE EndRestore BY <1>39 DEF EndRestore
<1>40. CASE Commit BY <1>40 DEF Commit
<1>41. CASE Collect BY <1>41 DEF Collect
<1>42. CASE Retire BY <1>42 DEF Retire
<1>43. CASE Clean BY <1>43 DEF Clean, Ended
<1>44. CASE Crash BY <1>44 DEF Crash
<1>45. CASE Reboot BY <1>45 DEF Reboot
<1>46. ASSUME NEW r \in Requests, Manage(r) PROVE Stopped'
  BY <1>46 DEF Manage
<1>47. CASE UNCHANGED vars
  <2>1. Ensuring' = Ensuring /\ Target' = Target
    BY <1>47 DEF vars, Ensuring, Target
  <2>2. QED
    BY <1>47, <2>1 DEF vars
<1> QED
  BY <1>1, <1>2, <1>3, <1>4, <1>5, <1>6, <1>7, <1>8, <1>9, <1>10, <1>11, <1>12, <1>13, <1>14, <1>15,
     <1>16, <1>17, <1>18, <1>19, <1>20, <1>21, <1>22, <1>23, <1>24, <1>25, <1>26, <1>27, <1>28,
     <1>29, <1>30, <1>31, <1>32, <1>33, <1>34, <1>35, <1>36, <1>37, <1>38, <1>39, <1>40, <1>41,
     <1>42, <1>43, <1>44, <1>45, <1>46, <1>47 DEF Next, Manager, Daemon, Applying, Restoring,
     Committing

\* Whoever is attached has been asked.
LEMMA AskingKept == ASSUME SInv, ~injected, ~injected', [Next]_vars PROVE Asking'
<1> USE DEF SInv, IInv, Rules, Control, Pending, Serving, Asking, Answered, Prelude, Opened,
            Ensures, Removes, Restores, Applies, HasDriver, HasDirectories, HasVersion, HasUnit,
            Apply, Proceed, RollBack, Restored, Fault, Broken, Tried, Refused, End, Unknown, files,
            log, host, service, memory, history, excuses, NoExcuse
<1>1. CASE Attach BY <1>1 DEF Attach, Admits
<1>2. CASE Detach BY <1>2 DEF Detach
<1>3. CASE DaemonCrash BY <1>3 DEF DaemonCrash, Gone
<1>4. CASE DaemonStart BY <1>4 DEF DaemonStart
<1>5. CASE Recover BY <1>5 DEF Recover
<1>6. CASE Dispatch BY <1>6 DEF Dispatch, Seen
<1>7. CASE Confirm BY <1>7 DEF Confirm
<1>8. CASE Maintain
  <2>1. pc = "maintain" /\ lease = "none" /\ UNCHANGED <<attached, running>>
    BY <1>8 DEF Maintain
  <2>2. CASE pc' = "check" /\ hidden' = (running # None) /\ UNCHANGED lease
    BY <2>1, <2>2
  <2>3. CASE pc' = "consent" \/ (pc' = "check" /\ lease' = "held" /\ ~attached)
    BY <2>1, <2>3
  <2>4. QED
    BY <1>8, <2>2, <2>3 DEF Maintain
<1>9. CASE Consent BY <1>9 DEF Consent
<1>10. CASE Check
  <2>1. CASE Refused
    BY <1>10, <2>1 DEF Check
  <2>2. CASE Held /\ lapsed' = (lapsed /\ lease = "none") /\ UNCHANGED <<consent, hidden, lease, attached, running>>
    <3>1. pc = "check" /\ lease \in {"none", "held"}
      BY <1>10, <2>2 DEF Check, Held, TypeOK
    <3>2. lease = "none" => lapsed' = lapsed
      BY <2>2, TypeParts DEF FlagsOK, RunFlagsOK
    <3>3. QED
      BY <1>10, <2>2, <3>1, <3>2 DEF Check
  <2>3. QED
    BY <1>10, <2>1, <2>2 DEF Check
<1>11. CASE TakeSnapshot BY <1>11 DEF TakeSnapshot, FirstStep, Image
<1>12. CASE PrepareDriver BY <1>12 DEF PrepareDriver
<1>13. CASE MakeDirectories BY <1>13 DEF MakeDirectories, AfterDirectories
<1>14. CASE Halt BY <1>14 DEF Halt, AfterHalt, StopUnit, Gone
<1>15. CASE SaveVersion BY <1>15 DEF SaveVersion
<1>16. CASE Retained BY <1>16 DEF Retained
<1>17. CASE BackUp BY <1>17 DEF BackUp, SetVersion
<1>18. CASE Publish BY <1>18 DEF Publish, SetVersion
<1>19. CASE WriteUnit BY <1>19 DEF WriteUnit
<1>20. CASE Enable BY <1>20 DEF Enable
<1>21. CASE StartNew BY <1>21 DEF StartNew, StartUnit
<1>22. CASE Verify BY <1>22 DEF Verify
<1>23. CASE WriteRecord BY <1>23 DEF WriteRecord
<1>24. CASE SaveRemoval BY <1>24 DEF SaveRemoval
<1>25. CASE MoveAway BY <1>25 DEF MoveAway
<1>26. CASE RemoveUnit BY <1>26 DEF RemoveUnit
<1>27. CASE RestoreStop BY <1>27 DEF RestoreStop, StopUnit, Gone
<1>28. CASE RestoreRoot BY <1>28 DEF RestoreRoot
<1>29. CASE RestoreVersion BY <1>29 DEF RestoreVersion, SetVersion
<1>30. CASE RestoreDirectory BY <1>30 DEF RestoreDirectory
<1>31. CASE RestoreDisable BY <1>31 DEF RestoreDisable
<1>32. CASE RestoreUnit BY <1>32 DEF RestoreUnit
<1>33. CASE RestorePolicy BY <1>33 DEF RestorePolicy
<1>34. CASE RestoreDriver BY <1>34 DEF RestoreDriver
<1>35. CASE RestoreEnable BY <1>35 DEF RestoreEnable
<1>36. CASE RestoreStart BY <1>36 DEF RestoreStart, StartUnit
<1>37. CASE RestoreModule BY <1>37 DEF RestoreModule
<1>38. CASE RestoreAbsence BY <1>38 DEF RestoreAbsence
<1>39. CASE EndRestore BY <1>39 DEF EndRestore
<1>40. CASE Commit
  <2>1. pc = "commit" /\ pc' \in {"idle", "collect", "stop service"}
    BY <1>40 DEF Commit
  <2>2. pc' = "stop service" => mode = "apply" /\ ~Ensuring /\ UNCHANGED <<attached, running, consent, lapsed, hidden>>
    BY <1>40 DEF Commit
  <2>3. ASSUME pc' = "stop service" PROVE ~attached'
    BY <2>1, <2>2, <2>3 DEF Stopped
  <2>4. QED
    BY <2>1, <2>3
<1>41. CASE Collect BY <1>41 DEF Collect
<1>42. CASE Retire BY <1>42 DEF Retire
<1>43. CASE Clean BY <1>43 DEF Clean, Ended
<1>44. CASE Crash BY <1>44 DEF Crash
<1>45. CASE Reboot BY <1>45 DEF Reboot
<1>46. ASSUME NEW r \in Requests, Manage(r) PROVE Asking'
  <2>1. lease = "none"
    BY <1>46, TypeParts DEF Manage, ManagerOK
  <2>2. QED
    BY <1>46, <2>1 DEF Manage
<1>47. CASE UNCHANGED vars BY <1>47 DEF vars
<1> QED
  BY <1>1, <1>2, <1>3, <1>4, <1>5, <1>6, <1>7, <1>8, <1>9, <1>10, <1>11, <1>12, <1>13, <1>14, <1>15,
     <1>16, <1>17, <1>18, <1>19, <1>20, <1>21, <1>22, <1>23, <1>24, <1>25, <1>26, <1>27, <1>28,
     <1>29, <1>30, <1>31, <1>32, <1>33, <1>34, <1>35, <1>36, <1>37, <1>38, <1>39, <1>40, <1>41,
     <1>42, <1>43, <1>44, <1>45, <1>46, <1>47 DEF Next, Manager, Daemon, Applying, Restoring,
     Committing

\* The enablement comes back.
LEMMA EnablingKept == ASSUME SInv, ~injected, ~injected', [Next]_vars PROVE Enabling'
<1> USE DEF SInv, IInv, Rules, Control, Pending, Working, Enabling, Enableable, OutEnable, OutDisable, Started,
            Prelude, Opened, Ensures, Removes, Restores, Applies, HasDriver, HasDirectories,
            HasVersion, HasUnit, Apply, Proceed, RollBack, Restored, Fault, Broken, Tried, Refused,
            End, Unknown, files, log, host, service, memory, history, excuses, NoExcuse
<1>1. CASE Attach BY <1>1 DEF Attach, Admits
<1>2. CASE Detach BY <1>2 DEF Detach
<1>3. CASE DaemonCrash BY <1>3 DEF DaemonCrash, Gone
<1>4. CASE DaemonStart BY <1>4 DEF DaemonStart
<1>5. CASE Recover BY <1>5 DEF Recover
<1>6. CASE Dispatch BY <1>6 DEF Dispatch, Seen
<1>7. CASE Confirm BY <1>7 DEF Confirm
<1>8. CASE Maintain BY <1>8 DEF Maintain, Seen
<1>9. CASE Consent BY <1>9 DEF Consent
<1>10. CASE Check BY <1>10 DEF Check
<1>11. CASE TakeSnapshot
  <2>1. CASE Refused
    BY <1>11, <2>1 DEF TakeSnapshot
  <2>2. CASE /\ Snapped(undo') /\ journal' = [saved |-> undo', committed |-> FALSE, backup |-> "absent"]
             /\ baseOn' = enabled /\ pc' = FirstStep /\ UNCHANGED <<enabled, mode>>
    <3>1. ~Pending /\ mode = "apply"
      BY <1>11 DEF TakeSnapshot
    <3>2. unit = Policy
      BY <3>1 DEF Whole, Kept, Image, Policy, PolicyOf
    <3>3. undo'.enabled => undo'.unit # None /\ enabled
      BY <2>2, <3>2, TakenFields
    <3>4. journal'.saved = undo'
      BY <2>2
    <3>5. QED
      BY <2>2, <3>1, <3>3, <3>4 DEF FirstStep
  <2>3. QED
    BY <1>11, <2>1, <2>2 DEF TakeSnapshot, Snapped
<1>12. CASE PrepareDriver BY <1>12 DEF PrepareDriver
<1>13. CASE MakeDirectories BY <1>13 DEF MakeDirectories, AfterDirectories
<1>14. CASE Halt BY <1>14 DEF Halt, AfterHalt, StopUnit, Gone
<1>15. CASE SaveVersion
  <2>1. /\ pc = "save version" /\ mode = "apply" /\ UNCHANGED <<enabled, baseOn>> /\ Pending
        /\ journal' = journal \/ journal' = [journal EXCEPT !.saved = undo']
    BY <1>15 DEF SaveVersion
  <2>2. journal \in Journals /\ undo' \in Snapshots
    BY <2>1, Typed, StepTyped DEF TypeOK
  <2>3. undo'.enabled = undo.enabled /\ undo'.unit = undo.unit
    BY <1>15, Typed DEF SaveVersion, Snapshots
  <2>4. Enableable(undo') /\ Enableable(journal.saved)
    BY <2>1, <2>3 DEF Enabling
  <2>5. Enableable(journal'.saved)
    BY <2>1, <2>2, <2>4, SavedMoves
  <2>6. pc' \notin {"move away", "remove unit"} /\ pc' \notin OutDisable
    BY <1>15 DEF SaveVersion
  <2>7. QED
    BY <2>1, <2>3, <2>4, <2>5, <2>6
<1>16. CASE Retained BY <1>16 DEF Retained
<1>17. CASE BackUp
  <2>0. Version(Target) \in VersionStates
    BY <1>17, TreeTypes, Targets DEF BackUp, Asked, TypeOK, Version, VersionStates
  <2>1. /\ pc = "backup" /\ UNCHANGED <<enabled, baseOn, undo>> /\ Pending
        /\ \E v \in VersionStates : journal' = journal \/ journal' = [journal EXCEPT !.backup = v]
    BY <1>17, <2>0 DEF BackUp
  <2>2. journal'.saved = journal.saved
    BY <2>1, Typed, BackupMoves
  <2>3. pc' \notin {"move away", "remove unit"} /\ pc' \notin OutDisable
    BY <1>17 DEF BackUp, Version
  <2>4. pc' \in Working => pc \in Working
    BY <2>1
  <2>5. QED
    BY <2>1, <2>2, <2>3, <2>4
<1>18. CASE Publish BY <1>18 DEF Publish, SetVersion
<1>19. CASE WriteUnit BY <1>19 DEF WriteUnit
<1>20. CASE Enable BY <1>20 DEF Enable
<1>21. CASE StartNew BY <1>21 DEF StartNew, StartUnit
<1>22. CASE Verify BY <1>22 DEF Verify
<1>23. CASE WriteRecord BY <1>23 DEF WriteRecord
<1>24. CASE SaveRemoval
  <2>1. /\ pc = "save removal" /\ mode = "apply" /\ UNCHANGED <<enabled, baseOn>> /\ Pending
        /\ journal' = journal \/ journal' = [journal EXCEPT !.saved = undo']
    BY <1>24 DEF SaveRemoval
  <2>2. journal \in Journals /\ undo' \in Snapshots
    BY <2>1, Typed, StepTyped DEF TypeOK
  <2>3. undo'.enabled = undo.enabled /\ undo'.unit = undo.unit
    BY <1>24, Typed DEF SaveRemoval, Snapshots
  <2>4. Enableable(undo') /\ Enableable(journal.saved)
    BY <2>1, <2>3 DEF Enabling
  <2>5. Enableable(journal'.saved)
    BY <2>1, <2>2, <2>4, SavedMoves
  <2>6. pc' \notin {"move away", "remove unit"} /\ pc' \notin OutDisable
    BY <1>24 DEF SaveRemoval
  <2>7. QED
    BY <2>1, <2>3, <2>4, <2>5, <2>6
<1>25. CASE MoveAway BY <1>25 DEF MoveAway
<1>26. CASE RemoveUnit BY <1>26 DEF RemoveUnit
<1>27. CASE RestoreStop BY <1>27 DEF RestoreStop, StopUnit, Gone
<1>28. CASE RestoreRoot BY <1>28 DEF RestoreRoot
<1>29. CASE RestoreVersion
  <2>1. /\ pc = "versions" /\ UNCHANGED <<enabled, baseOn, undo>> /\ Pending
        /\ \E v \in VersionStates : journal' = journal \/ journal' = [journal EXCEPT !.backup = v]
    BY <1>29 DEF RestoreVersion, VersionStates
  <2>2. journal'.saved = journal.saved
    BY <2>1, Typed, BackupMoves
  <2>3. pc' \notin {"move away", "remove unit"} /\ pc' \notin OutDisable
    BY <1>29 DEF RestoreVersion
  <2>4. pc' \in Working => pc \in Working
    BY <2>1
  <2>5. QED
    BY <2>1, <2>2, <2>3, <2>4
<1>30. CASE RestoreDirectory BY <1>30 DEF RestoreDirectory
<1>31. CASE RestoreDisable
  <2>1. /\ pc = "disable unit" /\ UNCHANGED <<journal, undo, mode, baseOn>> /\ Pending /\ mode # "apply"
        /\ pc' = "unit file"
    BY <1>31 DEF RestoreDisable
  <2>2. ~undo.enabled => ~enabled'
    BY <1>31 DEF RestoreDisable, Serving, Idle
  <2>3. QED
    BY <2>1, <2>2
<1>32. CASE RestoreUnit BY <1>32 DEF RestoreUnit
<1>33. CASE RestorePolicy BY <1>33 DEF RestorePolicy
<1>34. CASE RestoreDriver BY <1>34 DEF RestoreDriver
<1>35. CASE RestoreEnable
  <2>1. /\ pc = "enable unit" /\ UNCHANGED <<journal, undo, mode, baseOn>> /\ Pending /\ mode # "apply"
        /\ pc' = "start unit"
    BY <1>35 DEF RestoreEnable
  <2>2. Enableable(undo) /\ (~undo.enabled => ~enabled)
    BY <2>1 DEF Enabling
  <2>3. CASE undo.unit # None /\ undo.enabled
    <3>1. enabled'
      BY <1>35, <2>3 DEF RestoreEnable
    <3>2. QED
      BY <2>1, <2>3, <3>1
  <2>4. CASE ~(undo.unit # None /\ undo.enabled)
    <3>1. ~undo.enabled /\ enabled' = enabled
      BY <1>35, <2>2, <2>4 DEF RestoreEnable
    <3>2. QED
      BY <2>1, <2>2, <3>1
  <2>5. QED
    BY <2>3, <2>4
<1>36. CASE RestoreStart
  <2>1. /\ pc = "start unit" /\ UNCHANGED <<journal, undo, mode, enabled, baseOn>> /\ pc' = "unload"
    BY <1>36 DEF RestoreStart, StartUnit
  <2>2. undo.active => wanted' \/ failed'
    BY <1>36 DEF RestoreStart, StartUnit
  <2>3. QED
    BY <2>1, <2>2
<1>37. CASE RestoreModule BY <1>37 DEF RestoreModule
<1>38. CASE RestoreAbsence BY <1>38 DEF RestoreAbsence
<1>39. CASE EndRestore BY <1>39 DEF EndRestore
<1>40. CASE Commit
  <2>1. /\ pc = "commit" /\ UNCHANGED <<enabled, baseOn>> /\ pc' \in {"idle", "collect", "stop service"}
        /\ Pending
    BY <1>40 DEF Commit
  <2>2. Enableable(undo) /\ Enableable(journal.saved)
    BY <2>1 DEF Enabling
  <2>3. journal' = [journal EXCEPT !.committed = TRUE] \/ (journal' = journal /\ undo' = undo)
    BY <1>40 DEF Commit
  <2>4. CASE journal' = [journal EXCEPT !.committed = TRUE]
    <3>1. ~Pending'
      BY <2>1, <2>4, Typed, JournalFields
    <3>2. QED
      BY <2>1, <3>1
  <2>5. CASE journal' = journal /\ undo' = undo
    BY <2>1, <2>2, <2>5
  <2>6. QED
    BY <2>3, <2>4, <2>5
<1>41. CASE Collect BY <1>41 DEF Collect
<1>42. CASE Retire BY <1>42 DEF Retire
<1>43. CASE Clean BY <1>43 DEF Clean, Ended
<1>44. CASE Crash BY <1>44 DEF Crash
<1>45. CASE Reboot BY <1>45 DEF Reboot
<1>46. ASSUME NEW r \in Requests, Manage(r) PROVE Enabling'
  BY <1>46 DEF Manage
<1>47. CASE UNCHANGED vars BY <1>47 DEF vars
<1> QED
  BY <1>1, <1>2, <1>3, <1>4, <1>5, <1>6, <1>7, <1>8, <1>9, <1>10, <1>11, <1>12, <1>13, <1>14, <1>15,
     <1>16, <1>17, <1>18, <1>19, <1>20, <1>21, <1>22, <1>23, <1>24, <1>25, <1>26, <1>27, <1>28,
     <1>29, <1>30, <1>31, <1>32, <1>33, <1>34, <1>35, <1>36, <1>37, <1>38, <1>39, <1>40, <1>41,
     <1>42, <1>43, <1>44, <1>45, <1>46, <1>47 DEF Next, Manager, Daemon, Applying, Restoring,
     Committing

\* The files that count stay one policy, or none.
LEMMA WholeKept == ASSUME SInv, Control', [Next]_vars PROVE Whole'
<1>1. IInv /\ TypeOK /\ Whole
  BY DEF SInv, IInv, Rules
<1>2. CASE Kept' = Kept
  BY <1>1, <1>2 DEF Whole
<1>3. CASE Contract!Next
  <2>1. CASE Contract!Uninstall
    BY <2>1 DEF Contract!Uninstall, Contract!Uninstalled, Kept, Whole, PolicyOf
  <2>2. ASSUME NEW d \in Digests, Contract!Ensure(d) PROVE Whole'
    <3>1. Kept.root \in Trees \cup {None}
      BY <1>1 DEF Kept, Image, TypeOK
    <3>2. Kept' = Contract!Ensured(Kept, d)
      BY <2>2 DEF Contract!Ensure, Kept
    <3>3. PolicyOf(Kept') = d
      BY <3>1, <3>2, EnsuredPolicy
    <3>4. Kept'.unit = d
      BY <3>2 DEF Contract!Ensured
    <3>5. QED
      BY <3>3, <3>4 DEF Whole
  <2>3. QED
    BY <1>3, <2>1, <2>2 DEF Contract!Next
<1>4. QED
  BY <1>1, <1>2, <1>3, ContractKept

LEMMA InitServed == Init => SInv
<1> SUFFICES ASSUME Init PROVE SInv
  OBVIOUS
<1>1. PICK d \in Disks : /\ root = d.root /\ unit = d.unit /\ enabled = d.enabled
                         /\ wanted = d.active /\ running = (IF d.active THEN d.unit ELSE None)
  BY DEF Init
<1>2. /\ d.unit = IF d.root = None THEN None ELSE d.root.policy
      /\ d.root # None => d.root.policy # None
      /\ d.enabled \/ d.active => d.root # None
  BY DisksAssumption
<1>3. unit = Policy /\ Idle /\ running \in {None, unit}
  BY <1>1, <1>2 DEF Policy, Idle
<1>4. ~attached /\ ~Pending /\ pc = "idle"
  BY DEF Init, Pending
<1>5. Whole
  BY <1>3, <1>4 DEF Whole, Kept, Image, PolicyOf, Policy
<1>6. Serving /\ Stopped /\ Asking /\ Enabling
  BY <1>3, <1>4 DEF Serving, Stopped, Halted, Started, Asking, Applies, Ensures, Removes, Enabling, OutDisable,
                    OutEnable
<1>7. QED
  BY <1>5, <1>6, InitInv DEF SInv

LEMMA NextServed == SInv /\ [Next]_vars => SInv'
<1> SUFFICES ASSUME SInv, [Next]_vars PROVE SInv'
  OBVIOUS
<1>1. IInv /\ IInv'
  BY NextInv DEF SInv
<1>2. Control' /\ injected \in BOOLEAN
  BY <1>1, TypeParts DEF IInv, Rules, FlagsOK, RunFlagsOK
<1>3. Whole'
  BY <1>2, WholeKept
<1>4. ASSUME ~injected' PROVE ~injected
  BY <1>2, <1>4, FailuresStay
<1>5. ASSUME ~injected' PROVE Idle'
  BY <1>4, <1>5, IdleKept
<1>6. Serving'
  BY <1>2, <1>5, ServedKept DEF Serving
<1>7. Stopped'
  <2>1. CASE injected'
    BY <2>1 DEF Stopped
  <2>2. CASE ~injected'
    BY <1>4, <2>2, StoppedKept
  <2>3. QED
    BY <2>1, <2>2
<1>8. Asking'
  <2>1. CASE injected'
    BY <2>1 DEF Asking
  <2>2. CASE ~injected'
    BY <1>4, <2>2, AskingKept
  <2>3. QED
    BY <2>1, <2>2
<1>9. Enabling'
  <2>1. CASE injected'
    BY <2>1 DEF Enabling
  <2>2. CASE ~injected'
    BY <1>4, <2>2, EnablingKept
  <2>3. QED
    BY <2>1, <2>2
<1>10. QED
  BY <1>1, <1>3, <1>6, <1>7, <1>8, <1>9 DEF SInv

LEMMA ServedHolds == Spec => []SInv
  BY InitServed, NextServed, PTL DEF Spec

\* On a host where no effect of a rollback or commit has failed, an attachment
\* is only ever served by a daemon whose policy has been committed, and no
\* commit or rollback leaves the daemon of another policy running
\* (pendingDeployment, admitAttachment, restore).
THEOREM RunsCommittedHolds == Spec => []RunsCommitted
<1>1. SInv => RunsCommitted
  <2> SUFFICES ASSUME SInv PROVE RunsCommitted
    OBVIOUS
  <2>1. TypeOK /\ ServedPolicy = (IF Pending THEN PolicyOf(base) ELSE Policy)
    BY DEF SInv, IInv, Rules, ServedPolicy, PolicyOf
  <2>2. QED
    BY <2>1 DEF SInv, Serving, RunsCommitted
<1>2. QED
  BY <1>1, ServedHolds, PTL

\* The transaction takes the desktop away from an attachment only after a
\* confirmation, or where the daemon came up by itself afterwards or an error of
\* systemctl hid it; and a rollback that retires its journal has restored the
\* enablement that the snapshot recorded, enables nothing that was not enabled before,
\* and has asked systemd to keep running what was recorded as active (maintain,
\* restore), unless an effect of a rollback or commit failed.
THEOREM NothingTakenHolds == Spec => NothingTaken
<1>1. SInv /\ [Next]_vars =>
        [attached /\ ~attached' /\ pc \in {"halt", "stop service"} /\ pc' # pc
           => consent \/ lapsed \/ hidden \/ injected]_vars
  BY DEF SInv, Asking, Answered, Applies
<1>2. SInv /\ [Next]_vars =>
        [pc = "commit" /\ mode # "apply" /\ pc' = "collect"
           => injected \/ /\ enabled = undo.enabled /\ (enabled => baseOn)
                          /\ undo.active => wanted]_vars
  <2> SUFFICES ASSUME SInv, pc = "commit", mode # "apply", ~injected
               PROVE  enabled = undo.enabled /\ (enabled => baseOn) /\ (undo.active => wanted)
    OBVIOUS
  <2>1. Pending /\ enabled \in BOOLEAN /\ undo.enabled \in BOOLEAN
    BY TypeParts DEF SInv, IInv, Rules, Control, SavedOK, FlagsOK, HostFlagsOK, Snapshots
  <2>2. QED
    BY <2>1 DEF SInv, Enabling, Enableable, Working, OutDisable, OutEnable, Started
<1>3. QED
  BY <1>1, <1>2, ServedHolds, PTL DEF Spec, NothingTaken

----------------------------------------------------------------------------
(* ProcessPeers, the check that a caller descends from the supervisor.     *)

PeerProcess ==
  [state : {"free", "running", "zombie"}, id : Nat, parent : Pids \cup {Sup, Other}, own : BOOLEAN]

\* A process has a start of its own; its parent lives, started before it and belongs where
\* it belongs; what is of the application descends from the supervisor, and nothing else does.
Descends(p) ==
  /\ proc[p].state = "free" => proc[p] = Peer!Free
  /\ proc[p].state # "free" =>
       /\ proc[p].id \in 1..starts
       /\ proc[p].parent \in Pids =>
            /\ Peer!Alive(proc[p].parent)
            /\ proc[proc[p].parent].own = proc[p].own /\ proc[proc[p].parent].id < proc[p].id
       /\ proc[p].own => proc[p].parent # Other /\ supervisor = "running"
       /\ ~proc[p].own => proc[p].parent # Sup
  /\ proc[p].state = "zombie" => proc[p].parent # Other

PeerTable ==
  /\ proc \in [Pids -> PeerProcess] /\ starts \in Nat /\ supervisor \in {"running", "ended"}
  /\ \A p \in Pids : Descends(p)
  /\ \A p, q \in Pids : Peer!Named(p) /\ Peer!Named(q) /\ proc[p].id = proc[q].id => p = q

\* A process that loses its parent goes to the supervisor, and from there only to init.
Rises(a, b) == (a \in Pids /\ b \in {Sup, Other}) \/ (a = Sup /\ b = Other)

\* What a step of the kernel does to a number: its process stays what it was, or it is
\* free, or it names a process that has never been there.
Lasts(p) ==
  /\ proc[p].state # "free" /\ proc'[p].state # "free" /\ proc'[p].id = proc[p].id
  /\ proc'[p].state = "running" => proc[p].state = "running"
  /\ proc'[p].parent = proc[p].parent \/ Rises(proc[p].parent, proc'[p].parent)
  /\ supervisor' = "running" => proc'[p].own = proc[p].own
Arrives(p) == proc[p].state = "free" /\ proc'[p].id = starts + 1 /\ starts' = starts + 1
Moves ==
  /\ starts' \in Nat /\ starts <= starts'
  /\ supervisor' = supervisor \/ supervisor' = "ended"
  /\ \A p \in Pids : Lasts(p) \/ proc'[p] = Peer!Free \/ Arrives(p)

\* A process that is started keeps the table.
LEMMA PeerStarts ==
  ASSUME PeerTable, NEW p \in Pids, NEW parent \in Pids \cup {Sup, Other}, NEW own \in BOOLEAN,
         Peer!Started(p, parent, own), UNCHANGED supervisor,
         parent \in Pids => Peer!Alive(parent) /\ proc[parent].own = own,
         own => parent # Other /\ supervisor = "running", ~own => parent # Sup
  PROVE  PeerTable' /\ Moves
<1> DEFINE r == [state |-> "running", id |-> starts + 1, parent |-> parent, own |-> own]
<1>1. /\ proc' = [proc EXCEPT ![p] = r] /\ starts' = starts + 1 /\ starts \in Nat
      /\ proc[p] = Peer!Free /\ proc[p].state = "free"
  BY DEF Peer!Started, PeerTable, Descends
<1>2. proc'[p] = r /\ r \in PeerProcess /\ \A q \in Pids : q # p => proc'[q] = proc[q]
  BY <1>1 DEF PeerTable, PeerProcess
<1>3. proc' \in [Pids -> PeerProcess] /\ starts' \in Nat
  BY <1>1, <1>2 DEF PeerTable
<1>4. ASSUME NEW q \in Pids PROVE Descends(q)'
  <2>1. CASE q = p
    <3>1. parent \in Pids => parent # p /\ proc[parent].id \in 1..starts
      BY <1>1 DEF Peer!Alive, PeerTable, Descends
    <3>2. QED
      BY <2>1, <3>1, <1>1, <1>2, PeersAssumption DEF Descends, Peer!Alive
  <2>2. CASE q # p
    <3>1. proc[q].state # "free" /\ proc[q].parent \in Pids => proc[q].parent # p
      BY <1>1 DEF PeerTable, Descends, Peer!Alive
    <3>2. QED
      BY <2>2, <3>1, <1>1, <1>2 DEF Descends, Peer!Alive, PeerTable
  <2>3. QED
    BY <2>1, <2>2
<1>5. Moves
  <2>1. ASSUME NEW q \in Pids, q # p PROVE Lasts(q) \/ proc'[q] = Peer!Free
    BY <2>1, <1>2 DEF Lasts, PeerTable, Descends
  <2>2. Arrives(p)
    BY <1>1, <1>2 DEF Arrives
  <2>3. QED
    BY <1>1, <2>1, <2>2 DEF Moves
<1>6. \A q, s \in Pids : Peer!Named(q)' /\ Peer!Named(s)' /\ proc'[q].id = proc'[s].id => q = s
  <2>1. \A q \in Pids : q # p /\ Peer!Named(q)' => Peer!Named(q) /\ proc'[q].id \in 1..starts
    BY <1>2 DEF PeerTable, Descends, Peer!Named
  <2>2. QED
    BY <1>1, <1>2, <2>1 DEF PeerTable
<1>7. QED
  BY <1>3, <1>4, <1>5, <1>6 DEF PeerTable

\* A process that ends leaves its children to the supervisor or to init.
LEMMA PeerEnds ==
  ASSUME PeerTable, NEW p \in Pids, Peer!Alive(p), proc' = Peer!Ended(p), UNCHANGED <<starts, supervisor>>
  PROVE  PeerTable' /\ Moves
<1>1. /\ proc[p] \in PeerProcess /\ proc[p].state = "running" /\ Descends(p)
      /\ \A q \in Pids : proc[q] \in PeerProcess /\ Descends(q)
  BY DEF PeerTable, Peer!Alive
<1>2. proc'[p] = IF proc[p].parent = Other THEN Peer!Free ELSE [proc[p] EXCEPT !.state = "zombie"]
  BY DEF Peer!Ended
<1>3. \A q \in Pids : q # p /\ q \in Peer!ChildrenOf(p) => proc'[q] = Peer!Orphan(proc[q])
  BY DEF Peer!Ended
<1>4. \A q \in Pids : q # p /\ q \notin Peer!ChildrenOf(p) => proc'[q] = proc[q]
  BY DEF Peer!Ended
<1>5. Peer!Free \in PeerProcess /\ Peer!Free.state = "free"
  BY DEF Peer!Free, PeerProcess
<1>6. /\ proc'[p] \in PeerProcess
      /\ proc[p].parent = Other => proc'[p] = Peer!Free
      /\ proc[p].parent # Other => /\ proc'[p].state = "zombie" /\ proc'[p].id = proc[p].id
                                   /\ proc'[p].parent = proc[p].parent /\ proc'[p].own = proc[p].own
  BY <1>1, <1>2, <1>5 DEF PeerProcess
<1>7. ASSUME NEW q \in Pids, q # p, q \in Peer!ChildrenOf(p)
      PROVE  /\ proc'[q] \in PeerProcess
             /\ proc[q].own => /\ proc'[q].state = proc[q].state /\ proc'[q].id = proc[q].id
                               /\ proc'[q].parent = Sup /\ proc'[q].own = proc[q].own
             /\ ~proc[q].own /\ proc[q].state = "zombie" => proc'[q] = Peer!Free
             /\ ~proc[q].own /\ proc[q].state # "zombie" =>
                  /\ proc'[q].state = proc[q].state /\ proc'[q].id = proc[q].id
                  /\ proc'[q].parent = Other /\ proc'[q].own = proc[q].own
  <2>1. /\ proc'[q] = Peer!Orphan(proc[q]) /\ proc[q] \in PeerProcess /\ Peer!Free \in PeerProcess
        /\ proc[q].own \in BOOLEAN
    BY <1>1, <1>3, <1>5, <1>7 DEF PeerProcess
  <2>2. CASE proc[q].own
    <3>1. proc'[q] = [proc[q] EXCEPT !.parent = Sup]
      BY <2>1, <2>2 DEF Peer!Orphan
    <3>2. proc[q] \in [state : {"free", "running", "zombie"}, id : Nat, parent : Pids \cup {Sup, Other}, own : BOOLEAN]
      BY <2>1 DEF PeerProcess
    <3>3. proc'[q] \in PeerProcess
      BY <3>1, <3>2 DEF PeerProcess
    <3>4. /\ proc'[q].state = proc[q].state /\ proc'[q].id = proc[q].id
          /\ proc'[q].parent = Sup /\ proc'[q].own = proc[q].own
      BY <3>1, <3>2
    <3>5. QED
      BY <2>2, <3>3, <3>4
  <2>3. CASE ~proc[q].own /\ proc[q].state = "zombie"
    BY <2>1, <2>3 DEF Peer!Orphan
  <2>4. CASE ~proc[q].own /\ proc[q].state # "zombie"
    BY <2>1, <2>4 DEF Peer!Orphan, PeerProcess
  <2>5. QED
    BY <2>1, <2>2, <2>3, <2>4
<1>8. proc' \in [Pids -> PeerProcess] /\ starts' \in Nat
  <2>1. \A q \in Pids : proc'[q] \in PeerProcess
    BY <1>1, <1>4, <1>6, <1>7
  <2>2. DOMAIN proc' = Pids /\ proc' = [q \in Pids |-> proc'[q]]
    BY DEF Peer!Ended
  <2>3. QED
    BY <2>1, <2>2 DEF PeerTable
<1>9. ASSUME NEW q \in Pids PROVE Descends(q)'
  <2>1. CASE q = p
    <3>1. proc[p].parent \in Pids => proc[p].parent # p /\ proc[p].parent \notin Peer!ChildrenOf(p)
      <4>1. SUFFICES ASSUME proc[p].parent \in Pids PROVE proc[p].parent # p /\ proc[p].parent \notin Peer!ChildrenOf(p)
        OBVIOUS
      <4> DEFINE a == proc[p].parent
      <4>2. a \in Pids /\ Descends(a) /\ Descends(p) /\ proc[a].id < proc[p].id /\ proc[a].id \in Nat /\ proc[p].id \in Nat
        BY <4>1, <1>1 DEF Descends, PeerProcess
      <4>3. a # p
        BY <4>2
      <4>4. a \in Peer!ChildrenOf(p) => proc[p].id < proc[a].id
        BY <4>2 DEF Peer!ChildrenOf, Descends
      <4>5. QED
        BY <4>2, <4>3, <4>4
    <3>2. proc[p].parent \in Pids => proc'[proc[p].parent] = proc[proc[p].parent]
      BY <3>1, <1>4
    <3>3. QED
      BY <2>1, <3>2, <1>1, <1>5, <1>6, PeersAssumption DEF Descends, Peer!Alive
  <2>2. CASE q # p /\ q \in Peer!ChildrenOf(p)
    <3>1. proc[q].state # "free" /\ proc[q].own = proc[p].own
      BY <2>2, <1>1 DEF Peer!ChildrenOf, Descends
    <3>2. QED
      BY <2>2, <3>1, <1>1, <1>5, <1>7, PeersAssumption DEF Descends
  <2>3. CASE q # p /\ q \notin Peer!ChildrenOf(p)
    <3>1. proc'[q] = proc[q]
      BY <2>3, <1>4
    <3>2. CASE proc[q].state = "free" \/ proc[q].parent \notin Pids
      BY <3>1, <3>2, <1>1 DEF Descends
    <3>3. CASE proc[q].state # "free" /\ proc[q].parent \in Pids
      <4> DEFINE a == proc[q].parent
      <4>1. a \in Pids /\ a # p /\ proc[a].state = "running" /\ proc[a].own = proc[q].own /\ proc[a].id < proc[q].id
        BY <3>3, <2>3, <1>1 DEF Descends, Peer!ChildrenOf, Peer!Alive
      <4>2. a \in Peer!ChildrenOf(p) => proc[a].own = proc[p].own
        BY <1>1, <4>1 DEF Peer!ChildrenOf, Descends
      <4>3. proc'[a].state = "running" /\ proc'[a].own = proc[a].own /\ proc'[a].id = proc[a].id
        <5>1. CASE a \notin Peer!ChildrenOf(p)
          BY <5>1, <1>4, <4>1
        <5>2. CASE a \in Peer!ChildrenOf(p) /\ proc[a].own
          BY <5>2, <1>7, <4>1
        <5>3. CASE a \in Peer!ChildrenOf(p) /\ ~proc[a].own
          BY <5>3, <1>7, <4>1
        <5>4. QED
          BY <5>1, <5>2, <5>3
      <4>4. QED
        BY <3>1, <3>3, <4>1, <4>3, <1>1 DEF Descends, Peer!Alive
    <3>4. QED
      BY <3>2, <3>3
  <2>4. QED
    BY <2>1, <2>2, <2>3
<1>10. \A q \in Pids : Lasts(q) \/ proc'[q] = Peer!Free
  <2>1. \A q \in Pids : proc[q].state = "free" => proc[q] = Peer!Free /\ q # p /\ q \notin Peer!ChildrenOf(p)
    BY <1>1 DEF Descends, Peer!ChildrenOf
  <2>2. \A q \in Pids : q \in Peer!ChildrenOf(p) => proc[q].parent = p
    BY DEF Peer!ChildrenOf
  <2>3. TAKE q \in Pids
  <2>4. CASE q = p
    BY <2>4, <1>1, <1>6 DEF Lasts
  <2>5. CASE q # p /\ q \notin Peer!ChildrenOf(p)
    BY <2>1, <2>5, <1>4 DEF Lasts
  <2>6. CASE q # p /\ q \in Peer!ChildrenOf(p)
    <3>1. proc[q].state # "free" /\ proc[q].parent = p
      BY <2>1, <2>2, <2>6
    <3>2. CASE proc[q].own
      BY <2>6, <3>1, <3>2, <1>7 DEF Lasts, Rises
    <3>3. CASE ~proc[q].own /\ proc[q].state # "zombie"
      BY <2>6, <3>1, <3>3, <1>7 DEF Lasts, Rises
    <3>4. QED
      BY <2>6, <3>2, <3>3, <1>7
  <2>7. QED
    BY <2>4, <2>5, <2>6
<1>11. \A q, s \in Pids : Peer!Named(q)' /\ Peer!Named(s)' /\ proc'[q].id = proc'[s].id => q = s
  BY <1>10, <1>5 DEF PeerTable, Lasts, Peer!Named
<1>12. Moves
  BY <1>10 DEF Moves, PeerTable
<1>13. QED
  BY <1>8, <1>9, <1>11, <1>12 DEF PeerTable

\* A zombie has no children, so that its number can be given back.
LEMMA PeerFrees ==
  ASSUME PeerTable, NEW p \in Pids, proc[p].state = "zombie",
         proc' = [proc EXCEPT ![p] = Peer!Free], UNCHANGED <<starts, supervisor>>
  PROVE  PeerTable' /\ Moves
<1>1. proc'[p] = Peer!Free /\ \A q \in Pids : q # p => proc'[q] = proc[q]
  BY DEF PeerTable
<1>2. Peer!Free \in PeerProcess /\ Peer!Free.state = "free"
  BY DEF Peer!Free, PeerProcess
<1>3. proc' \in [Pids -> PeerProcess] /\ starts' \in Nat
  BY <1>2 DEF PeerTable
<1>4. ASSUME NEW q \in Pids PROVE Descends(q)'
  <2>1. proc[q].state # "free" => proc[q].parent # p
    BY DEF PeerTable, Descends, Peer!Alive
  <2>2. QED
    BY <2>1, <1>1, <1>2 DEF PeerTable, Descends, Peer!Alive
<1>5. \A q \in Pids : Lasts(q) \/ proc'[q] = Peer!Free
  BY <1>1 DEF Lasts, PeerTable, Descends
<1>6. \A q, s \in Pids : Peer!Named(q)' /\ Peer!Named(s)' /\ proc'[q].id = proc'[s].id => q = s
  BY <1>1, <1>2 DEF PeerTable, Peer!Named
<1>7. QED
  BY <1>3, <1>4, <1>5, <1>6 DEF PeerTable, Moves

\* What the supervisor leaves behind descends from nobody.
LEMMA PeerLeft ==
  ASSUME PeerTable, Peer!SupEnds PROVE PeerTable' /\ Moves
<1>1. /\ supervisor = "running" /\ supervisor' = "ended" /\ starts' = starts
      /\ \A q \in Pids : proc[q] \in PeerProcess /\ Descends(q)
  BY DEF Peer!SupEnds, PeerTable
<1>2. proc' = [p \in Pids |-> IF proc[p].parent = Sup THEN Peer!Orphan([proc[p] EXCEPT !.own = FALSE])
                              ELSE [proc[p] EXCEPT !.own = FALSE]]
  BY DEF Peer!SupEnds
<1>3. Peer!Free \in PeerProcess /\ Peer!Free.state = "free" /\ Peer!Free.own = FALSE /\ Peer!Free.parent = Other
  BY DEF Peer!Free, PeerProcess
<1>4. ASSUME NEW q \in Pids
      PROVE  /\ proc'[q] \in PeerProcess
             /\ proc[q].state = "free" => proc'[q] = Peer!Free
             /\ proc[q].parent # Sup =>
                  /\ proc'[q].state = proc[q].state /\ proc'[q].id = proc[q].id
                  /\ proc'[q].parent = proc[q].parent /\ proc'[q].own = FALSE
             /\ proc[q].parent = Sup /\ proc[q].state = "zombie" => proc'[q] = Peer!Free
             /\ proc[q].parent = Sup /\ proc[q].state # "zombie" =>
                  /\ proc'[q].state = proc[q].state /\ proc'[q].id = proc[q].id
                  /\ proc'[q].parent = Other /\ proc'[q].own = FALSE
  <2> DEFINE o == [proc[q] EXCEPT !.own = FALSE]
  <2>1. /\ o \in PeerProcess /\ o.state = proc[q].state /\ o.id = proc[q].id /\ o.parent = proc[q].parent /\ o.own = FALSE
        /\ proc[q] \in PeerProcess
    BY <1>1 DEF PeerProcess
  <2>2. proc'[q] = IF proc[q].parent = Sup THEN Peer!Orphan(o) ELSE o
    BY <1>2
  <2> HIDE DEF o
  <2>3. CASE proc[q].parent # Sup
    <3>1. proc'[q] = o
      BY <2>2, <2>3
    <3>2. proc[q].state = "free" => o = Peer!Free
      <4>1. SUFFICES ASSUME proc[q].state = "free" PROVE o = Peer!Free
        OBVIOUS
      <4>2. proc[q] = Peer!Free
        BY <4>1, <1>1 DEF Descends
      <4>3. QED
        BY <4>2, <2>1, <1>3 DEF PeerProcess, Peer!Free
    <3>3. QED
      BY <2>1, <2>3, <3>1, <3>2, <1>1 DEF Descends
  <2>4. CASE proc[q].parent = Sup /\ o.state = "zombie"
    BY <2>1, <2>2, <2>4, <1>3 DEF Peer!Orphan
  <2>5. CASE proc[q].parent = Sup /\ o.state # "zombie"
    <3>1. proc'[q] = [o EXCEPT !.parent = Other]
      BY <2>1, <2>2, <2>5 DEF Peer!Orphan
    <3>2. proc[q].state # "free"
      BY <2>5, <1>1, <1>3, PeersAssumption DEF Descends
    <3>3. QED
      BY <2>1, <2>5, <3>1, <3>2 DEF PeerProcess
  <2>6. QED
    BY <2>3, <2>4, <2>5
<1>5. proc' \in [Pids -> PeerProcess] /\ starts' \in Nat
  <2>1. \A q \in Pids : proc'[q] \in PeerProcess
    BY <1>4
  <2>2. proc' = [q \in Pids |-> proc'[q]]
    BY <1>2
  <2>3. QED
    BY <1>1, <2>1, <2>2 DEF PeerTable
<1>6. ASSUME NEW q \in Pids PROVE Descends(q)'
  <2>1. CASE proc'[q].state = "free"
    BY <2>1, <1>1, <1>3, <1>4 DEF Descends, PeerProcess
  <2>2. CASE proc'[q].state # "free"
    <3>1. proc[q].state # "free" /\ proc'[q].state = proc[q].state /\ proc'[q].id = proc[q].id /\ proc'[q].own = FALSE
      BY <2>2, <1>3, <1>4
    <3>2. proc'[q].parent \in Pids => proc'[q].parent = proc[q].parent
      BY <2>2, <1>3, <1>4, PeersAssumption
    <3>3. proc[q].parent \in Pids /\ proc[q].parent # Sup =>
            Peer!Alive(proc[q].parent)' /\ proc'[proc[q].parent].id < proc'[q].id /\ proc'[proc[q].parent].own = FALSE
      BY <3>1, <1>1, <1>4 DEF Descends, Peer!Alive
    <3>4. proc'[q].parent # Sup /\ (proc'[q].state = "zombie" => proc'[q].parent # Other)
      BY <3>1, <1>1, <1>3, <1>4, PeersAssumption DEF Descends
    <3>5. proc'[q].id \in 1..starts'
      BY <3>1, <1>1 DEF Descends
    <3>6. QED
      BY <2>2, <3>1, <3>2, <3>3, <3>4, <3>5, PeersAssumption DEF Descends
  <2>3. QED
    BY <2>1, <2>2
<1>7. \A q \in Pids : Lasts(q) \/ proc'[q] = Peer!Free
  BY <1>1, <1>3, <1>4 DEF Lasts, Rises
<1>8. \A q, s \in Pids : Peer!Named(q)' /\ Peer!Named(s)' /\ proc'[q].id = proc'[s].id => q = s
  BY <1>3, <1>7 DEF PeerTable, Lasts, Peer!Named
<1>9. QED
  BY <1>1, <1>5, <1>6, <1>7, <1>8 DEF PeerTable, Moves

\* What leaves the table alone keeps it.
LEMMA PeerStands == ASSUME PeerTable, UNCHANGED <<proc, starts, supervisor>> PROVE PeerTable' /\ Moves
<1>1. PeerTable'
  BY DEF PeerTable, Descends, Peer!Alive, Peer!Named
<1>2. \A p \in Pids : Lasts(p) \/ proc'[p] = Peer!Free
  BY DEF PeerTable, Descends, Lasts
<1>3. QED
  BY <1>1, <1>2 DEF PeerTable, Moves

\* Every step of the kernel keeps the table.
LEMMA PeerKernel == ASSUME PeerTable, Peer!Kernel PROVE PeerTable' /\ Moves
<1>1. CASE Peer!SupEnds
  BY <1>1, PeerLeft
<1>2. CASE Peer!Processes /\ UNCHANGED supervisor
  <2>1. PICK p \in Pids : (\E q \in Pids : Peer!Fork(p, q)) \/ Peer!Stranger(p) \/ Peer!Exit(p) \/ Peer!Wait(p)
    BY <1>2 DEF Peer!Processes
  <2>2. ASSUME NEW q \in Pids, Peer!Fork(p, q) PROVE PeerTable' /\ Moves
    <3>1. /\ Peer!Alive(p) /\ Peer!Started(q, p, proc[p].own) /\ proc[p].own \in BOOLEAN
          /\ proc[p].own => supervisor = "running"
      BY <2>2 DEF Peer!Fork, PeerTable, PeerProcess, Descends, Peer!Alive
    <3>2. QED
      BY <1>2, <3>1, PeerStarts, PeersAssumption
  <2>3. CASE Peer!Stranger(p)
    BY <1>2, <2>3, PeerStarts, PeersAssumption DEF Peer!Stranger
  <2>4. CASE Peer!Exit(p)
    BY <1>2, <2>4, PeerEnds DEF Peer!Exit
  <2>5. CASE Peer!Wait(p)
    BY <1>2, <2>5, PeerFrees DEF Peer!Wait
  <2>6. QED
    BY <2>1, <2>2, <2>3, <2>4, <2>5
<1>3. ASSUME NEW p \in Pids, Peer!SupForks(p), UNCHANGED supervisor PROVE PeerTable' /\ Moves
  BY <1>3, PeerStarts, PeersAssumption DEF Peer!SupForks
<1>4. ASSUME NEW p \in Pids, Peer!SupWaits(p), UNCHANGED supervisor PROVE PeerTable' /\ Moves
  BY <1>4, PeerFrees DEF Peer!SupWaits
<1>5. QED
  BY <1>1, <1>2, <1>3, <1>4 DEF Peer!Kernel

\* A set of numbers has a least one.
LEMMA Least ==
  ASSUME NEW T, T \subseteq Nat, T # {}
  PROVE  \E x \in T : \A y \in T : x <= y
<1>1. PICK m \in T : TRUE
  OBVIOUS
<1> DEFINE U == {t \in T : t <= m}
           F == {0..t : t \in U}
<1>2. U \subseteq Nat /\ m \in U
  <2>1. m \in Nat /\ m <= m
    BY <1>1
  <2>2. QED
    BY <1>1, <2>1
<1>3. F # {}
  BY <1>2
<1>4. F \subseteq FiniteSubsetsOf(0..m)
  <2>1. ASSUME NEW t \in U PROVE 0..t \in FiniteSubsetsOf(0..m)
    <3>1. t \in Nat /\ t <= m /\ m \in Nat
      BY <1>1, <2>1
    <3>2. IsFiniteSet(0..t) /\ 0..t \subseteq 0..m
      BY <3>1, FS_Interval
    <3>3. QED
      BY <3>2 DEF FiniteSubsetsOf
  <2>2. QED
    BY <2>1
<1>5. IsFiniteSet(0..m)
  BY <1>1, FS_Interval
<1>6. IsWellFoundedOn(StrictSubsetOrdering(0..m), FiniteSubsetsOf(0..m))
  BY <1>5, FS_StrictSubsetOrderingWellFounded
<1>7. \E X \in F : \A Y \in F : ~ (<<Y, X>> \in StrictSubsetOrdering(0..m))
  <2> HIDE DEF F, U
  <2>1. QED
    BY <1>3, <1>4, <1>6, WFMin
<1>8. PICK X \in F : \A Y \in F : ~ (<<Y, X>> \in StrictSubsetOrdering(0..m))
  BY <1>7
<1>9. PICK x \in U : X = 0..x
  BY <1>8
<1>10. ASSUME NEW y \in T PROVE x <= y
  <2>1. x \in Nat /\ y \in Nat /\ m \in Nat /\ x <= m
    BY <1>1, <1>2, <1>9
  <2>2. SUFFICES ASSUME y < x PROVE FALSE
    BY <2>1
  <2>3. y \in U /\ 0..y \in F
    BY <2>1, <2>2
  <2>4. 0..y \subseteq 0..x /\ x \in 0..x /\ x \notin 0..y
    BY <2>1, <2>2
  <2>5. 0..y \subseteq 0..x /\ 0..y # 0..x
    BY <2>4, Zenon
  <2>6. 0..y \in SUBSET (0..m) /\ 0..x \in SUBSET (0..m)
    BY <2>1, <2>2
  <2>7. <<0..y, 0..x>> \in StrictSubsetOrdering(0..m)
    BY <2>5, <2>6 DEF StrictSubsetOrdering
  <2>8. QED
    BY <1>8, <1>9, <2>3, <2>7
<1>11. QED
  BY <1>9, <1>10

----------------------------------------------------------------------------
\* A start belongs to one number for ever, and once its process has gone it is gone.
Is(p, s) == Peer!Named(p) /\ proc[p].id = s
Only(n, s) == s \in 1..starts /\ \A p \in Pids : Is(p, s) => p = n
GoneFor(s) == \A p \in Pids : ~Is(p, s)
\* Where the process of a start still runs, it descends from the supervisor.
Tracked(s) == \A p \in Pids : Is(p, s) /\ Peer!Alive(p) /\ supervisor = "running" => proc[p].own

PeerLink == [pid : Pids, identity : [parent : Pids \cup {Sup, Other}, started : Nat], descriptor : Nat]

\* What a link of the chain recorded: its process has the recorded parent, or one it was
\* left to; it holds while the process runs under that parent.
Begun(l) == Is(l.pid, l.identity.started)
Known(l) ==
  /\ Only(l.pid, l.identity.started)
  /\ Begun(l) => proc[l.pid].parent = l.identity.parent \/ Rises(l.identity.parent, proc[l.pid].parent)
Same(l) == Begun(l) /\ proc[l.pid].parent = l.identity.parent
Holds(l) == Same(l) /\ Peer!Alive(l.pid)

\* A start stays with its number, what has gone stays gone, and what is tracked stays tracked.
LEMMA PeerOnly ==
  ASSUME PeerTable, PeerTable', Moves, NEW n, NEW s, Only(n, s)
  PROVE  /\ Only(n, s)' /\ \A p \in Pids : Is(p, s)' => Is(p, s) /\ Lasts(p)
         /\ GoneFor(s) => GoneFor(s)'
         /\ Tracked(s) => Tracked(s)'
<1>1. s \in 1..starts /\ starts \in Nat /\ starts' \in Nat /\ starts <= starts' /\ s \in 1..starts'
  BY DEF Only, Moves, PeerTable
<1>2. ASSUME NEW p \in Pids, Is(p, s)' PROVE Is(p, s) /\ Lasts(p)
  <2>1. proc'[p].state # "free" /\ proc'[p].id = s
    BY <1>2 DEF Is, Peer!Named
  <2>2. proc'[p] # Peer!Free /\ ~Arrives(p)
    BY <1>1, <2>1 DEF Peer!Free, Arrives
  <2>3. Lasts(p)
    BY <2>2 DEF Moves
  <2>4. QED
    BY <2>1, <2>3 DEF Lasts, Is, Peer!Named
<1>3. Only(n, s)'
  BY <1>1, <1>2 DEF Only
<1>4. GoneFor(s) => GoneFor(s)'
  BY <1>2 DEF GoneFor
<1>5. Tracked(s) => Tracked(s)'
  <2>1. SUFFICES ASSUME Tracked(s), NEW p \in Pids, Is(p, s)', Peer!Alive(p)', supervisor' = "running"
                 PROVE  proc'[p].own
    BY DEF Tracked
  <2>2. Is(p, s) /\ Lasts(p)
    BY <1>2, <2>1
  <2>3. Peer!Alive(p) /\ supervisor = "running" /\ proc'[p].own = proc[p].own
    BY <2>1, <2>2 DEF Lasts, Peer!Alive, Moves
  <2>4. QED
    BY <2>1, <2>2, <2>3 DEF Tracked
<1>6. QED
  BY <1>2, <1>3, <1>4, <1>5

\* What was recorded of a process that runs on is the truth of all the time between.
LEMMA PeerKnown ==
  ASSUME PeerTable, PeerTable', Moves, NEW l \in PeerLink, Known(l)
  PROVE  /\ Known(l)' /\ (Begun(l)' => Begun(l)) /\ (Same(l)' => Same(l)) /\ (Holds(l)' => Holds(l))
         /\ Begun(l)' => Lasts(l.pid)
<1> DEFINE n == l.pid  a == l.identity.parent  s == l.identity.started
<1>1. n \in Pids /\ a \in Pids \cup {Sup, Other} /\ Only(n, s)
  BY DEF PeerLink, Known
<1>2. Only(n, s)' /\ (Is(n, s)' => Is(n, s) /\ Lasts(n))
  BY <1>1, PeerOnly
<1>3. ASSUME Is(n, s)'
      PROVE  /\ proc'[n].parent = a \/ Rises(a, proc'[n].parent)
             /\ proc'[n].parent = a => proc[n].parent = a
  <2>1. proc[n].parent = a \/ Rises(a, proc[n].parent)
    BY <1>2, <1>3 DEF Known, Begun
  <2>2. proc'[n].parent = proc[n].parent \/ Rises(proc[n].parent, proc'[n].parent)
    BY <1>2, <1>3 DEF Lasts
  <2>3. QED
    BY <1>1, <2>1, <2>2, PeersAssumption DEF Rises
<1>4. Peer!Alive(n)' /\ Is(n, s)' => Peer!Alive(n)
  BY <1>2 DEF Lasts, Peer!Alive
<1>5. QED
  BY <1>2, <1>3, <1>4 DEF Known, Begun, Same, Holds

\* Two processes that run on are of the application, or not, as they were.
LEMMA PeerTogether ==
  ASSUME PeerTable, PeerTable', Moves, NEW l \in PeerLink, NEW m \in PeerLink,
         Known(l), Known(m), Begun(l)', Begun(m)', proc[l.pid].own = proc[m.pid].own
  PROVE  proc'[l.pid].own = proc'[m.pid].own
<1>1. /\ l.pid \in Pids /\ m.pid \in Pids /\ Lasts(l.pid) /\ Lasts(m.pid)
      /\ proc'[l.pid].own \in BOOLEAN /\ proc'[m.pid].own \in BOOLEAN
  BY PeerKnown DEF PeerLink, PeerTable, PeerProcess
<1>2. CASE supervisor' = "running"
  BY <1>1, <1>2 DEF Lasts
<1>3. CASE supervisor' # "running"
  <2>1. \A p \in Pids : proc'[p].state # "free" /\ proc'[p].own => supervisor' = "running"
    BY DEF PeerTable, Descends
  <2>2. ~proc'[l.pid].own /\ ~proc'[m.pid].own
    BY <1>1, <1>3, <2>1 DEF Lasts
  <2>3. QED
    BY <1>1, <2>2
<1>4. QED
  BY <1>2, <1>3

\* The living descendants are the processes of the application that run.
LEMMA PeerOwns ==
  ASSUME PeerTable, NEW p \in Pids, Peer!Alive(p), proc[p].own PROVE p \in Peer!Descendants
<1> DEFINE Mine == {q \in Pids : Peer!Alive(q) /\ proc[q].own}
<1>1. SUFFICES ASSUME p \in Mine, p \notin Peer!Descendants PROVE FALSE
  OBVIOUS
<1>2. supervisor = "running"
  BY <1>1 DEF PeerTable, Descends, Peer!Alive
<1>3. PICK S \in SUBSET Pids : Peer!Children(S \cup {Sup}) \subseteq S /\ p \notin S
  BY <1>1, <1>2 DEF Peer!Descendants
<1> DEFINE T == {proc[q].id : q \in Mine \ S}
<1>4. T \subseteq Nat /\ T # {}
  BY <1>1, <1>3 DEF PeerTable, PeerProcess
<1> HIDE DEF T
<1>5. PICK x \in T : \A y \in T : x <= y
  BY <1>4, Least
<1>6. PICK q \in Mine \ S : x = proc[q].id
  BY <1>5 DEF T
<1>7. /\ q \in Pids /\ Peer!Alive(q) /\ proc[q].own /\ Descends(q) /\ proc[q] \in PeerProcess
      /\ proc[q].state # "free"
  BY <1>6 DEF PeerTable, Peer!Alive
<1>8. proc[q].parent \notin S \cup {Sup}
  BY <1>3, <1>6, <1>7 DEF Peer!Children
<1>9. proc[q].parent \in Pids /\ proc[q].parent \in Mine \ S
  BY <1>7, <1>8 DEF Descends, PeerProcess
<1>10. proc[proc[q].parent].id \in T /\ proc[proc[q].parent].id < x
  BY <1>6, <1>7, <1>9 DEF T, Descends
<1>11. \A y \in T : x <= y /\ x \in Nat /\ y \in Nat
  BY <1>4, <1>5
<1>12. QED
  BY <1>10, <1>11

\* What descends from the supervisor is of the application.
LEMMA PeerMine ==
  ASSUME PeerTable', NEW p \in Pids, p \in Peer!Descendants' PROVE proc'[p].own
<1>0. PICK Mine \in SUBSET Pids : Mine = {q \in Pids : Peer!Alive(q)' /\ proc'[q].own}
  OBVIOUS
<1>1. Peer!Children(Mine \cup {Sup})' \subseteq Mine
  <2>1. SUFFICES ASSUME NEW q \in Pids, Peer!Alive(q)', proc'[q].parent \in Mine \cup {Sup} PROVE proc'[q].own
    BY <1>0 DEF Peer!Children
  <2>2. Descends(q)' /\ proc'[q].state # "free" /\ proc'[q].own \in BOOLEAN
    BY <2>1 DEF PeerTable, PeerProcess, Peer!Alive
  <2>3. QED
    BY <1>0, <2>1, <2>2 DEF Descends
<1>2. QED
  BY <1>0, <1>1 DEF Peer!Descendants

----------------------------------------------------------------------------
PeerPeer == [pid : Pids, started : Nat, descriptor : Nat]
PeerSteps == {"open", "alive", "same", "root", "read", "opened", "lives", "unchanged", "again", "still",
              "stillSame", "whole"}
PeerWalk == [why : {"admit", "valid"}, at : PeerSteps, peer : PeerPeer, parent : Pids \cup {Sup, Other},
             pid : Pids \cup {Sup, Other}, chain : Seq(PeerLink), left : Seq(PeerLink)]

\* A peer that was admitted names one process, and that one descends from the supervisor
\* as long as both run.
Referenced(peer) ==
  /\ peer \in PeerPeer /\ Only(peer.pid, peer.started)
  /\ peer.started = peer.descriptor /\ Tracked(peer.started)

\* What the check knows of the peer it is about
PeerOf(w) ==
  /\ Only(w.peer.pid, w.peer.started) /\ (belonged => Tracked(w.peer.started))
  /\ w.why = "valid" => w.at # "open" /\ Referenced(w.peer)
  /\ w.at \in {"alive", "same"} => w.peer.descriptor = w.peer.started \/ ~Is(w.peer.pid, w.peer.started)
  /\ w.at \notin {"open", "alive", "same"} => w.peer.descriptor = w.peer.started
  /\ w.why = "valid" /\ w.at # "alive" => belonged \/ supervisor = "ended"
  /\ w.why = "valid" /\ w.at \notin {"alive", "same", "root"} => belonged

\* Where it has climbed to
PlaceOf(w) ==
  /\ w.at \in {"open", "alive", "same", "root"} => w.pid = w.peer.pid /\ w.chain = <<>>
  /\ w.at \in {"opened", "lives", "unchanged"} => w.chain # <<>>
  /\ w.at = "read" => w.pid = IF w.chain = <<>> THEN w.peer.pid ELSE w.chain[Len(w.chain)].identity.parent

\* While all links of the chain hold, its two ends are both of the application or neither is.
Linked(c) ==
  /\ \A i \in DOMAIN c : Known(c[i])
  /\ c # <<>> /\ (\A i \in DOMAIN c : Holds(c[i])) => proc[c[1].pid].own = proc[c[Len(c)].pid].own

ChainOf(w) == w.at \in {"read", "opened", "lives", "unchanged"} =>
  /\ Linked(w.chain)
  /\ w.chain # <<>> => w.chain[1].identity.started = w.peer.started \/ GoneFor(w.peer.started)
  /\ \A i \in DOMAIN w.chain : w.chain[i].descriptor = w.chain[i].identity.started \/
       (i = Len(w.chain) /\ (w.at = "opened" \/ (w.at \in {"lives", "unchanged"} /\ ~Begun(w.chain[i]))))

\* A second look at every link: the peer descended from the supervisor, or has gone, or
\* some link that is still to be read did not hold when the chain was whole.
BrokenAt(c, at) ==
  \E i \in DOMAIN c : IF i = 1 /\ at = "stillSame" THEN ~Same(c[i]) ELSE ~Holds(c[i])

LeftOf(w) ==
  /\ w.at \in {"again", "still", "stillSame"} =>
       /\ w.left # <<>> /\ \A i \in DOMAIN w.left : Known(w.left[i]) /\ w.left[i].descriptor = w.left[i].identity.started
       /\ belonged \/ GoneFor(w.peer.started) \/ BrokenAt(w.left, w.at)
  /\ w.at = "whole" => belonged \/ GoneFor(w.peer.started)

WalkOf(w) == w \in PeerWalk /\ PeerOf(w) /\ PlaceOf(w) /\ ChainOf(w) /\ LeftOf(w)

PeerInv ==
  /\ PeerTable /\ granted = FALSE /\ belonged \in BOOLEAN
  /\ \A peer \in references : Referenced(peer)
  /\ walk = Peer!NoWalk => ~belonged
  /\ walk # Peer!NoWalk => WalkOf(walk)

History == belonged' = (walk' # Peer!NoWalk /\ (belonged \/ Peer!Belongs'))

\* What the history of a check says of its process stays true.
LEMMA PeerHistory ==
  ASSUME PeerTable', History, belonged \in BOOLEAN, NEW s, walk'.peer.started = s,
         belonged => Tracked(s)'
  PROVE  /\ belonged' \in BOOLEAN /\ (belonged' => Tracked(s)')
         /\ belonged /\ walk' # Peer!NoWalk => belonged'
<1>1. belonged' \in BOOLEAN /\ (belonged /\ walk' # Peer!NoWalk => belonged')
  BY DEF History
<1>2. ASSUME Peer!Belongs' PROVE Tracked(s)'
  <2>1. PICK p \in Pids : p \in Peer!Descendants' /\ proc'[p].id = s
    BY <1>2 DEF Peer!Belongs, Peer!Descendants
  <2>2. proc'[p].own
    BY <2>1, PeerMine
  <2>3. Peer!Alive(p)'
    <3>1. PICK Living \in SUBSET Pids : Living = {q \in Pids : Peer!Alive(q)'}
      OBVIOUS
    <3>2. Peer!Children(Living \cup {Sup})' \subseteq Living
      BY <3>1 DEF Peer!Children
    <3>3. QED
      BY <2>1, <3>1, <3>2 DEF Peer!Descendants
  <2>4. \A q \in Pids : Is(q, s)' => q = p
    BY <2>1, <2>3 DEF PeerTable, Is, Peer!Alive, Peer!Named
  <2>5. QED
    BY <2>2, <2>4 DEF Tracked
<1>3. QED
  BY <1>1, <1>2 DEF History

\* A step of the check changes nothing that the table says.
LEMMA PeerQuiet ==
  ASSUME PeerTable, UNCHANGED <<proc, starts, supervisor>>
  PROVE  /\ PeerTable'
         /\ \A n, s : (Is(n, s)' <=> Is(n, s)) /\ (Only(n, s)' <=> Only(n, s))
         /\ \A s : (GoneFor(s)' <=> GoneFor(s)) /\ (Tracked(s)' <=> Tracked(s))
         /\ \A l : /\ (Known(l)' <=> Known(l)) /\ (Begun(l)' <=> Begun(l)) /\ (Same(l)' <=> Same(l))
                   /\ (Holds(l)' <=> Holds(l))
         /\ \A peer : Referenced(peer)' <=> Referenced(peer)
<1>1. PeerTable'
  BY PeerStands
<1>2. \A n, s : (Is(n, s)' <=> Is(n, s)) /\ (Only(n, s)' <=> Only(n, s))
  BY DEF Is, Only, Peer!Named
<1>3. \A s : (GoneFor(s)' <=> GoneFor(s)) /\ (Tracked(s)' <=> Tracked(s))
  BY DEF GoneFor, Is, Tracked, Peer!Named, Peer!Alive
<1>4. \A l : (Begun(l)' <=> Begun(l)) /\ (Known(l)' <=> Known(l))
  BY <1>2 DEF Begun, Known
<1>5. \A l : (Same(l)' <=> Same(l)) /\ (Holds(l)' <=> Holds(l))
  BY <1>4 DEF Same, Holds, Peer!Alive
<1>6. \A peer : Referenced(peer)' <=> Referenced(peer)
  BY <1>2, <1>3 DEF Referenced
<1>7. QED
  BY <1>1, <1>2, <1>3, <1>4, <1>5, <1>6

\* A check that refuses leaves nothing behind.
LEMMA PeerRefuses ==
  ASSUME PeerInv, UNCHANGED <<proc, starts, supervisor, granted>>, references' \subseteq references,
         walk' = Peer!NoWalk, History
  PROVE  PeerInv'
<1>1. PeerTable' /\ \A peer \in references' : Referenced(peer)'
  BY PeerQuiet DEF PeerInv
<1>2. belonged' = FALSE
  BY DEF History
<1>3. QED
  BY <1>1, <1>2 DEF PeerInv

\* A step of the check that goes on: what is left to show is the walk as it is now.
LEMMA PeerGoes ==
  ASSUME PeerInv, UNCHANGED <<proc, starts, supervisor, granted, references>>,
         walk' # Peer!NoWalk, belonged' \in BOOLEAN, WalkOf(walk)'
  PROVE  PeerInv'
<1>1. PeerTable' /\ \A peer \in references' : Referenced(peer)'
  BY PeerQuiet DEF PeerInv
<1>2. QED
  BY <1>1 DEF PeerInv

----------------------------------------------------------------------------
\* A step of the check that goes on with the same peer
LEMMA PeerStep ==
  ASSUME PeerInv, walk # Peer!NoWalk, UNCHANGED <<proc, starts, supervisor>>, History,
         walk' \in PeerWalk, walk'.peer.pid = walk.peer.pid, walk'.peer.started = walk.peer.started
  PROVE  /\ walk' # Peer!NoWalk /\ belonged' \in BOOLEAN /\ (belonged => belonged')
         /\ Only(walk.peer.pid, walk.peer.started)' /\ (belonged' => Tracked(walk.peer.started)')
<1>1. WalkOf(walk) /\ PeerTable /\ belonged \in BOOLEAN
  BY DEF PeerInv
<1>2. PeerTable' /\ Only(walk.peer.pid, walk.peer.started)'
  BY <1>1, PeerQuiet DEF WalkOf, PeerOf
<1>3. belonged => Tracked(walk.peer.started)'
  BY <1>1, PeerQuiet DEF WalkOf, PeerOf
<1>4. walk' # Peer!NoWalk
  BY DEF PeerWalk, PeerSteps, Peer!NoWalk
<1>5. PICK s : s = walk.peer.started
  OBVIOUS
<1>6. /\ belonged' \in BOOLEAN /\ (belonged' => Tracked(s)')
      /\ belonged /\ walk' # Peer!NoWalk => belonged'
  BY <1>1, <1>2, <1>3, <1>5, PeerHistory
<1>7. QED
  BY <1>2, <1>4, <1>5, <1>6

\* The later steps say nothing new of the peer itself.
LEMMA PeerLater ==
  ASSUME PeerInv, walk # Peer!NoWalk, UNCHANGED <<proc, starts, supervisor, granted, references>>,
         History, walk' \in PeerWalk, walk'.peer = walk.peer, walk'.why = walk.why,
         walk.at \notin {"open", "alive", "same", "root"}, walk'.at \notin {"open", "alive", "same", "root"},
         belonged => belonged', PlaceOf(walk)', ChainOf(walk)', LeftOf(walk)'
  PROVE  PeerInv'
<1>1. PeerOf(walk) /\ WalkOf(walk)
  BY DEF PeerInv, WalkOf
<1>2. /\ walk' # Peer!NoWalk /\ belonged' \in BOOLEAN
      /\ Only(walk.peer.pid, walk.peer.started)' /\ (belonged' => Tracked(walk.peer.started)')
  BY PeerStep
<1>3. Referenced(walk.peer)' <=> Referenced(walk.peer)
  BY PeerQuiet DEF PeerInv
<1>4. PeerOf(walk)'
  BY <1>1, <1>2, <1>3 DEF PeerOf
<1>5. QED
  BY <1>2, <1>4, PeerGoes DEF WalkOf

\* A caller is admitted by number.
LEMMA PeerAdmits ==
  ASSUME PeerInv, NEW p \in Pids, Peer!Admit(p), UNCHANGED supervisor, History PROVE PeerInv'
<1>1. /\ walk = Peer!NoWalk /\ Peer!Named(p) /\ UNCHANGED <<proc, starts, supervisor, granted, references>>
      /\ walk' = [Peer!NoWalk EXCEPT !.why = "admit", !.at = "open", !.parent = proc[p].parent, !.pid = p,
                                     !.peer = [pid |-> p, started |-> proc[p].id, descriptor |-> 0]]
      /\ PeerTable /\ proc[p] \in PeerProcess /\ belonged \in BOOLEAN /\ ~belonged
  BY DEF Peer!Admit, Peer!Quiet, Peer!Step, PeerInv, PeerTable
<1>2. /\ walk'.why = "admit" /\ walk'.at = "open" /\ walk'.pid = p /\ walk'.chain = <<>> /\ walk'.left = <<>>
      /\ walk'.peer = [pid |-> p, started |-> proc[p].id, descriptor |-> 0]
  BY <1>1 DEF Peer!NoWalk
<1>3. walk' \in PeerWalk
  <2> DEFINE peer == [pid |-> p, started |-> proc[p].id, descriptor |-> 0]
  <2>1. walk' = [why |-> "admit", at |-> "open", peer |-> peer, parent |-> proc[p].parent, pid |-> p,
                 chain |-> <<>>, left |-> <<>>]
    BY <1>1 DEF Peer!NoWalk
  <2>2. peer \in PeerPeer /\ proc[p].parent \in Pids \cup {Sup, Other} /\ <<>> \in Seq(PeerLink)
    BY <1>1 DEF PeerProcess, PeerPeer
  <2> HIDE DEF peer
  <2>3. QED
    BY <2>1, <2>2 DEF PeerWalk, PeerSteps
<1>4. walk' # Peer!NoWalk
  BY <1>2 DEF Peer!NoWalk
<1>5. PICK s : s = proc[p].id
  OBVIOUS
<1>6. Only(p, s)
  BY <1>1, <1>5 DEF Only, Is, PeerTable, Descends, Peer!Named
<1>7. PeerTable' /\ Only(p, s)'
  BY <1>1, <1>6, PeerQuiet
<1>8. walk'.peer.started = s
  BY <1>2, <1>5
<1>9. belonged' \in BOOLEAN /\ (belonged' => Tracked(s)')
  BY <1>1, <1>7, <1>8, PeerHistory
<1>10. PeerOf(walk)'
  BY <1>2, <1>5, <1>7, <1>9 DEF PeerOf
<1>11. (PlaceOf(walk) /\ ChainOf(walk) /\ LeftOf(walk))'
  BY <1>2 DEF PlaceOf, ChainOf, LeftOf
<1>12. QED
  BY <1>1, <1>3, <1>4, <1>9, <1>10, <1>11, PeerGoes DEF WalkOf

\* A caller that was admitted is asked for.
LEMMA PeerIsAsked ==
  ASSUME PeerInv, NEW peer \in references, Peer!Valid(peer), UNCHANGED supervisor, History PROVE PeerInv'
<1>1. /\ walk = Peer!NoWalk /\ UNCHANGED <<proc, starts, supervisor, granted, references>>
      /\ walk' = [Peer!NoWalk EXCEPT !.why = "valid", !.at = "alive", !.peer = peer, !.pid = peer.pid]
      /\ PeerTable /\ Referenced(peer) /\ belonged \in BOOLEAN /\ ~belonged
  BY DEF Peer!Valid, Peer!Quiet, Peer!Step, PeerInv
<1>2. /\ walk'.why = "valid" /\ walk'.at = "alive" /\ walk'.pid = peer.pid /\ walk'.chain = <<>> /\ walk'.left = <<>>
      /\ walk'.peer = peer
  BY <1>1 DEF Peer!NoWalk
<1>3. walk' \in PeerWalk
  <2>1. walk' = [why |-> "valid", at |-> "alive", peer |-> peer, parent |-> Other, pid |-> peer.pid,
                 chain |-> <<>>, left |-> <<>>]
    BY <1>1 DEF Peer!NoWalk
  <2>2. peer \in PeerPeer /\ peer.pid \in Pids /\ <<>> \in Seq(PeerLink)
    BY <1>1 DEF PeerPeer, Referenced
  <2>3. QED
    BY <2>1, <2>2 DEF PeerWalk, PeerSteps
<1>4. walk' # Peer!NoWalk
  BY <1>2 DEF Peer!NoWalk
<1>5. PeerTable' /\ Referenced(peer)'
  BY <1>1, PeerQuiet
<1>6. PICK s : s = peer.started
  OBVIOUS
<1>7. walk'.peer.started = s /\ Tracked(s)'
  BY <1>2, <1>5, <1>6 DEF Referenced
<1>8. belonged' \in BOOLEAN
  BY <1>1, <1>5, <1>7, PeerHistory
<1>9. PeerOf(walk)'
  BY <1>2, <1>5 DEF PeerOf, Referenced
<1>10. (PlaceOf(walk) /\ ChainOf(walk) /\ LeftOf(walk))'
  BY <1>2 DEF PlaceOf, ChainOf, LeftOf
<1>11. QED
  BY <1>1, <1>3, <1>4, <1>8, <1>9, <1>10, PeerGoes DEF WalkOf

\* Its descriptor is opened.
LEMMA PeerIsOpened == ASSUME PeerInv, Peer!AdmitOpen, UNCHANGED supervisor, History PROVE PeerInv'
<1>1. CASE ~Peer!Named(walk.pid)
  BY <1>1, PeerRefuses DEF Peer!AdmitOpen, Peer!Quiet, Peer!Step, Peer!Refuse
<1>2. CASE Peer!Named(walk.pid)
  <2>1. /\ walk.at = "open" /\ walk # Peer!NoWalk /\ UNCHANGED <<proc, starts, supervisor, granted, references>>
        /\ walk' = [walk EXCEPT !.at = "alive", !.peer.descriptor = proc[walk.pid].id]
        /\ walk \in PeerWalk /\ PeerOf(walk) /\ PlaceOf(walk)
    BY <1>2 DEF Peer!AdmitOpen, Peer!Quiet, Peer!Step, PeerInv, WalkOf, Peer!NoWalk, Peer!At
  <2>2. /\ walk.pid = walk.peer.pid /\ walk.chain = <<>> /\ walk.peer.pid \in Pids /\ proc[walk.pid].id \in Nat
        /\ walk.why = "admit"
    BY <2>1 DEF PlaceOf, PeerWalk, PeerPeer, PeerInv, PeerTable, PeerProcess, PeerOf
  <2>3. /\ walk'.why = "admit" /\ walk'.at = "alive" /\ walk'.pid = walk.pid /\ walk'.chain = <<>>
        /\ walk'.peer.pid = walk.peer.pid /\ walk'.peer.started = walk.peer.started
        /\ walk'.peer.descriptor = proc[walk.pid].id
    BY <2>1, <2>2 DEF PeerWalk, PeerPeer
  <2>4. walk' \in PeerWalk
    BY <2>1, <2>2 DEF PeerWalk, PeerPeer, PeerSteps
  <2>5. /\ walk' # Peer!NoWalk /\ belonged' \in BOOLEAN
        /\ Only(walk.peer.pid, walk.peer.started)' /\ (belonged' => Tracked(walk.peer.started)')
    BY <2>1, <2>3, <2>4, PeerStep
  <2>6. walk'.peer.descriptor = walk'.peer.started \/ ~Is(walk.peer.pid, walk.peer.started)'
    BY <2>1, <2>2, <2>3 DEF Is
  <2>7. PeerOf(walk)'
    BY <2>3, <2>5, <2>6 DEF PeerOf
  <2>8. (PlaceOf(walk) /\ ChainOf(walk) /\ LeftOf(walk))'
    BY <2>2, <2>3 DEF PlaceOf, ChainOf, LeftOf
  <2>9. QED
    BY <2>1, <2>4, <2>5, <2>7, <2>8, PeerGoes DEF WalkOf
<1>3. QED
  BY <1>1, <1>2

\* The descriptor is seen to live.
LEMMA PeerIsAlive == ASSUME PeerInv, Peer!PeerAlive, UNCHANGED supervisor, History PROVE PeerInv'
<1>1. CASE Peer!Exited(walk.peer.descriptor)
  BY <1>1, PeerRefuses DEF Peer!PeerAlive, Peer!Quiet, Peer!Step, Peer!Refuse
<1>2. CASE ~Peer!Exited(walk.peer.descriptor)
  <2>1. /\ walk.at = "alive" /\ walk # Peer!NoWalk /\ UNCHANGED <<proc, starts, supervisor, granted, references>>
        /\ walk' = [walk EXCEPT !.at = "same"] /\ PeerTable
        /\ walk \in PeerWalk /\ PeerOf(walk) /\ PlaceOf(walk)
    BY <1>2 DEF Peer!PeerAlive, Peer!Quiet, Peer!Step, Peer!To, PeerInv, WalkOf, Peer!NoWalk, Peer!At
  <2>2. /\ walk'.why = walk.why /\ walk'.at = "same" /\ walk'.pid = walk.pid /\ walk'.chain = walk.chain
        /\ walk'.peer = walk.peer /\ walk' \in PeerWalk
    BY <2>1 DEF PeerWalk, PeerSteps
  <2>3. /\ walk' # Peer!NoWalk /\ belonged' \in BOOLEAN
        /\ Only(walk.peer.pid, walk.peer.started)' /\ (belonged' => Tracked(walk.peer.started)')
    BY <2>1, <2>2, PeerStep
  <2>4. ASSUME walk.why = "valid", supervisor = "running" PROVE belonged'
    <3>1. PICK p \in Pids : Peer!Alive(p) /\ proc[p].id = walk.peer.descriptor
      BY <1>2 DEF Peer!Exited
    <3>2. Is(p, walk.peer.started) /\ Tracked(walk.peer.started)
      BY <2>1, <2>4, <3>1 DEF PeerOf, Referenced, Is, Peer!Named, Peer!Alive
    <3>3. proc[p].own
      BY <2>4, <3>1, <3>2 DEF Tracked
    <3>4. p \in Peer!Descendants
      BY <2>1, <3>1, <3>3, PeerOwns
    <3>5. p \in Peer!Descendants' /\ proc'[p].id = walk'.peer.started
      BY <2>1, <2>2, <3>2, <3>4 DEF Peer!Descendants, Peer!Children, Peer!Alive, Is
    <3>6. QED
      BY <2>3, <3>5 DEF History, Peer!Belongs
  <2>5. /\ Referenced(walk.peer)' <=> Referenced(walk.peer)
        /\ Is(walk.peer.pid, walk.peer.started)' <=> Is(walk.peer.pid, walk.peer.started)
    BY <2>1, PeerQuiet
  <2>6. supervisor' = "running" \/ supervisor' = "ended"
    BY <2>1 DEF PeerTable
  <2>7. PeerOf(walk)'
    BY <2>1, <2>2, <2>3, <2>4, <2>5, <2>6 DEF PeerOf
  <2>8. (PlaceOf(walk) /\ ChainOf(walk) /\ LeftOf(walk))'
    BY <2>1, <2>2 DEF PlaceOf, ChainOf, LeftOf
  <2>9. QED
    BY <2>1, <2>2, <2>3, <2>7, <2>8, PeerGoes DEF WalkOf
<1>3. QED
  BY <1>1, <1>2

\* The number still names what it named.
LEMMA PeerIsSame == ASSUME PeerInv, Peer!PeerSame, UNCHANGED supervisor, History PROVE PeerInv'
<1>1. CASE walk' = Peer!NoWalk
  BY <1>1, PeerRefuses DEF Peer!PeerSame, Peer!Quiet, Peer!Step
<1>2. CASE walk' # Peer!NoWalk
  <2>1. /\ walk.at = "same" /\ walk # Peer!NoWalk /\ UNCHANGED <<proc, starts, supervisor, granted, references>>
        /\ walk' = [walk EXCEPT !.at = "root"] /\ PeerTable
        /\ Peer!Named(walk.pid) /\ proc[walk.pid].id = walk.peer.started
        /\ walk \in PeerWalk /\ PeerOf(walk) /\ PlaceOf(walk)
    BY <1>2 DEF Peer!PeerSame, Peer!Quiet, Peer!Step, Peer!To, Peer!Refuse, PeerInv, WalkOf, Peer!NoWalk, Peer!At
  <2>2. /\ walk'.why = walk.why /\ walk'.at = "root" /\ walk'.pid = walk.pid /\ walk'.chain = walk.chain
        /\ walk'.peer = walk.peer /\ walk' \in PeerWalk
    BY <2>1 DEF PeerWalk, PeerSteps
  <2>3. /\ walk' # Peer!NoWalk /\ belonged' \in BOOLEAN /\ (belonged => belonged')
        /\ Only(walk.peer.pid, walk.peer.started)' /\ (belonged' => Tracked(walk.peer.started)')
    BY <2>1, <2>2, PeerStep
  <2>4. walk.peer.descriptor = walk.peer.started
    BY <2>1 DEF PlaceOf, PeerOf, Is
  <2>5. Referenced(walk.peer)' <=> Referenced(walk.peer)
    BY <2>1, PeerQuiet
  <2>6. PeerOf(walk)'
    BY <2>1, <2>2, <2>3, <2>4, <2>5 DEF PeerOf
  <2>7. (PlaceOf(walk) /\ ChainOf(walk) /\ LeftOf(walk))'
    BY <2>1, <2>2 DEF PlaceOf, ChainOf, LeftOf
  <2>8. QED
    BY <2>1, <2>2, <2>3, <2>6, <2>7, PeerGoes DEF WalkOf
<1>3. QED
  BY <1>1, <1>2

\* The supervisor is seen to live before the walk.
LEMMA PeerRootLives == ASSUME PeerInv, Peer!RootAlive, UNCHANGED supervisor, History PROVE PeerInv'
<1>1. CASE walk' = Peer!NoWalk
  BY <1>1, PeerRefuses DEF Peer!RootAlive, Peer!Quiet, Peer!Step
<1>2. CASE walk' # Peer!NoWalk
  <2>1. /\ walk.at = "root" /\ walk # Peer!NoWalk /\ UNCHANGED <<proc, starts, supervisor, granted, references>>
        /\ walk' = [walk EXCEPT !.at = "read"] /\ PeerTable /\ supervisor = "running"
        /\ walk \in PeerWalk /\ PeerOf(walk) /\ PlaceOf(walk)
    BY <1>2 DEF Peer!RootAlive, Peer!Quiet, Peer!Step, Peer!To, Peer!Refuse, PeerInv, WalkOf, Peer!NoWalk, Peer!At
  <2>2. /\ walk'.why = walk.why /\ walk'.at = "read" /\ walk'.pid = walk.pid /\ walk'.chain = walk.chain
        /\ walk'.peer = walk.peer /\ walk' \in PeerWalk
    BY <2>1 DEF PeerWalk, PeerSteps
  <2>3. /\ walk' # Peer!NoWalk /\ belonged' \in BOOLEAN /\ (belonged => belonged')
        /\ Only(walk.peer.pid, walk.peer.started)' /\ (belonged' => Tracked(walk.peer.started)')
    BY <2>1, <2>2, PeerStep
  <2>4. Referenced(walk.peer)' <=> Referenced(walk.peer)
    BY <2>1, PeerQuiet
  <2>5. PeerOf(walk)'
    BY <2>1, <2>2, <2>3, <2>4 DEF PeerOf
  <2>6. (PlaceOf(walk) /\ ChainOf(walk) /\ LeftOf(walk))'
    BY <2>1, <2>2 DEF PlaceOf, ChainOf, LeftOf, Linked
  <2>7. QED
    BY <2>1, <2>2, <2>3, <2>5, <2>6, PeerGoes DEF WalkOf
<1>3. QED
  BY <1>1, <1>2

----------------------------------------------------------------------------
(* The chain from the peer to the supervisor *)

\* The walk reads a process and its parent.
LEMMA PeerReads == ASSUME PeerInv, Peer!Read, UNCHANGED supervisor, History PROVE PeerInv'
<1>1. CASE walk' = Peer!NoWalk
  BY <1>1, PeerRefuses DEF Peer!Read, Peer!Quiet, Peer!Step
<1>2. CASE walk' # Peer!NoWalk
  <2> DEFINE c == walk.chain
             n == Len(c)
             l == [pid |-> walk.pid, identity |-> [parent |-> proc[walk.pid].parent, started |-> proc[walk.pid].id],
                   descriptor |-> 0]
  <2>0. PICK d : d = Append(c, l)
    OBVIOUS
  <2>1. /\ walk.at = "read" /\ walk # Peer!NoWalk /\ UNCHANGED <<proc, starts, supervisor, granted, references>>
        /\ walk' = [walk EXCEPT !.at = "opened", !.chain = d] /\ PeerTable
        /\ walk.pid \in Pids /\ Peer!Named(walk.pid)
        /\ walk \in PeerWalk /\ PeerOf(walk) /\ PlaceOf(walk) /\ ChainOf(walk)
    BY <1>2, <2>0 DEF Peer!Read, Peer!Quiet, Peer!Step, Peer!Refuse, Peer!Identity, PeerInv, WalkOf, Peer!NoWalk, Peer!At
  <2>2. proc[walk.pid] \in PeerProcess /\ l \in PeerLink /\ c \in Seq(PeerLink)
    BY <2>1 DEF PeerTable, PeerProcess, PeerLink, PeerWalk
  <2>3. l.pid = walk.pid /\ l.identity.started = proc[walk.pid].id /\ l.identity.parent = proc[walk.pid].parent
    OBVIOUS
  <2> HIDE DEF l
  <2>4. /\ d \in Seq(PeerLink) /\ Len(d) = n + 1 /\ DOMAIN d = 1..(n + 1) /\ d # <<>> /\ d[n + 1] = l
        /\ n \in Nat /\ DOMAIN c = 1..n /\ \A i \in 1..n : d[i] = c[i]
    BY <2>0, <2>2
  <2>5. c = <<>> <=> n = 0
    BY <2>2
  <2> HIDE DEF c, n
  <2>6. /\ walk'.why = walk.why /\ walk'.at = "opened" /\ walk'.pid = walk.pid /\ walk'.chain = d
        /\ walk'.peer = walk.peer /\ walk' \in PeerWalk
    BY <2>1, <2>4 DEF PeerWalk, PeerSteps
  <2>7. Only(l.pid, l.identity.started) /\ Begun(l)
    BY <2>1, <2>3 DEF Only, Is, Begun, PeerTable, Descends, Peer!Named
  <2>8. Known(l)
    BY <2>3, <2>7 DEF Known
  <2>9. \A i \in DOMAIN d : Known(d[i])
    BY <2>1, <2>4, <2>8 DEF ChainOf, Linked, c
  <2>10. ASSUME \A i \in DOMAIN d : Holds(d[i]) PROVE proc[d[1].pid].own = proc[d[Len(d)].pid].own
    <3>1. CASE n = 0
      BY <2>4, <3>1
    <3>2. CASE n > 0
      <4>1. 1 \in 1..n /\ n \in 1..n /\ d[1] = c[1] /\ c # <<>> /\ 1..n \subseteq DOMAIN d /\ d[Len(d)] = l
        BY <2>4, <2>5, <3>2
      <4>2. \A i \in DOMAIN c : Holds(c[i])
        BY <2>4, <2>10, <4>1
      <4>3. proc[c[1].pid].own = proc[c[n].pid].own
        BY <2>1, <4>1, <4>2 DEF ChainOf, Linked, c, n
      <4>4. /\ c[n] \in PeerLink /\ c[n].pid \in Pids /\ Holds(c[n]) /\ c[n].identity.parent = walk.pid
        <5>1. n \in DOMAIN c
          BY <2>4, <4>1
        <5>2. c[n] \in PeerLink
          BY <2>2, <5>1
        <5>3. c[n].identity.parent = walk.pid
          BY <2>1, <4>1 DEF PlaceOf, c, n
        <5>4. QED
          BY <4>2, <5>1, <5>2, <5>3 DEF PeerLink
      <4>5. proc[c[n].pid].parent = walk.pid /\ Descends(c[n].pid) /\ proc[c[n].pid].state # "free"
        BY <2>1, <4>4 DEF Holds, Same, Begun, Is, Peer!Named, PeerTable
      <4>6. proc[walk.pid].own = proc[c[n].pid].own
        BY <2>1, <4>5 DEF Descends
      <4>7. QED
        BY <2>3, <4>1, <4>3, <4>6
    <3>3. QED
      BY <2>4, <3>1, <3>2
  <2>11. d[1].identity.started = walk.peer.started \/ GoneFor(walk.peer.started)
    <3>1. CASE n = 0
      <4>1. d[1] = l /\ walk.pid = walk.peer.pid
        BY <2>1, <2>4, <2>5, <3>1 DEF PlaceOf, c
      <4>2. Only(walk.pid, walk.peer.started)
        BY <2>1, <4>1 DEF PeerOf
      <4>3. CASE proc[walk.pid].id = walk.peer.started
        BY <2>3, <4>1, <4>3
      <4>4. CASE proc[walk.pid].id # walk.peer.started
        BY <4>2, <4>4 DEF Only, GoneFor, Is
      <4>5. QED
        BY <4>3, <4>4
    <3>2. CASE n > 0
      BY <2>1, <2>4, <2>5, <3>2 DEF ChainOf, c
    <3>3. QED
      BY <2>4, <3>1, <3>2
  <2>12. \A i \in DOMAIN d : d[i].descriptor = d[i].identity.started \/ i = Len(d)
    BY <2>1, <2>4 DEF ChainOf, c
  <2>13. /\ \A i : Known(d[i])' <=> Known(d[i])
         /\ \A i : Holds(d[i])' <=> Holds(d[i])
         /\ GoneFor(walk.peer.started)' <=> GoneFor(walk.peer.started)
    BY <2>1, PeerQuiet
  <2>14. Linked(walk.chain)'
    BY <2>1, <2>6, <2>9, <2>10, <2>13 DEF Linked
  <2>15. ChainOf(walk)' /\ PlaceOf(walk)' /\ LeftOf(walk)'
    BY <2>4, <2>6, <2>11, <2>12, <2>13, <2>14 DEF ChainOf, PlaceOf, LeftOf
  <2>16. belonged => belonged'
    BY <2>1, <2>6, PeerStep
  <2>17. QED
    BY <2>1, <2>6, <2>15, <2>16, PeerLater
<1>3. QED
  BY <1>1, <1>2

\* The walk opens a descriptor of what it read.
LEMMA PeerOpens == ASSUME PeerInv, Peer!Open, UNCHANGED supervisor, History PROVE PeerInv'
<1>1. CASE walk' = Peer!NoWalk
  BY <1>1, PeerRefuses DEF Peer!Open, Peer!Quiet, Peer!Step
<1>2. CASE walk' # Peer!NoWalk
  <2> DEFINE c == walk.chain
             n == Len(c)
             k == proc[c[n].pid].id
  <2>0. PICK d : d = [c EXCEPT ![n].descriptor = k]
    OBVIOUS
  <2>1. /\ walk.at = "opened" /\ walk # Peer!NoWalk /\ UNCHANGED <<proc, starts, supervisor, granted, references>>
        /\ walk' = [walk EXCEPT !.at = "lives", !.chain[n].descriptor = k] /\ PeerTable
        /\ walk \in PeerWalk /\ PeerOf(walk) /\ PlaceOf(walk) /\ ChainOf(walk)
    BY <1>2 DEF Peer!Open, Peer!Quiet, Peer!Step, Peer!Refuse, Peer!Last, PeerInv, WalkOf, Peer!NoWalk, Peer!At
  <2>2. c \in Seq(PeerLink) /\ c # <<>>
    BY <2>1 DEF PeerWalk, PlaceOf
  <2>3. n \in Nat /\ n >= 1 /\ DOMAIN c = 1..n /\ n \in DOMAIN c /\ 1 \in DOMAIN c /\ \A i \in DOMAIN c : c[i] \in PeerLink
    BY <2>2
  <2>4. k \in Nat
    BY <2>1, <2>3 DEF PeerLink, PeerTable, PeerProcess
  <2> HIDE DEF k
  <2>5. c[n] = [pid |-> c[n].pid, identity |-> c[n].identity, descriptor |-> c[n].descriptor]
    BY <2>3 DEF PeerLink
  <2>6. /\ DOMAIN d = 1..n /\ Len(d) = n /\ d # <<>> /\ d \in Seq(PeerLink)
        /\ \A i \in DOMAIN d : d[i].pid = c[i].pid /\ d[i].identity = c[i].identity
        /\ \A i \in DOMAIN d : i # n => d[i] = c[i]
        /\ d[n].descriptor = k
    <3>1. d = [i \in 1..n |-> IF i = n THEN [c[n] EXCEPT !.descriptor = k] ELSE c[i]]
      BY <2>0, <2>3
    <3>2. [c[n] EXCEPT !.descriptor = k] \in PeerLink
      BY <2>3, <2>4 DEF PeerLink
    <3>3. d \in Seq(PeerLink) /\ Len(d) = n /\ DOMAIN d = 1..n
      BY <2>3, <3>1, <3>2
    <3>4. QED
      BY <2>3, <2>5, <3>1, <3>3
  <2>7. walk' = [walk EXCEPT !.at = "lives", !.chain = d]
    BY <2>0, <2>1
  <2> HIDE DEF c, n
  <2>8. /\ walk'.why = walk.why /\ walk'.at = "lives" /\ walk'.pid = walk.pid /\ walk'.chain = d
        /\ walk'.peer = walk.peer /\ walk' \in PeerWalk
    BY <2>1, <2>6, <2>7 DEF PeerWalk, PeerSteps
  <2>9. \A i \in DOMAIN d : (Known(d[i]) <=> Known(c[i])) /\ (Holds(d[i]) <=> Holds(c[i])) /\ (Begun(d[i]) <=> Begun(c[i]))
    BY <2>6 DEF Known, Holds, Same, Begun
  <2>10. Linked(d)
    <3>1. Linked(c) /\ DOMAIN c = DOMAIN d /\ Len(c) = n /\ n \in DOMAIN d /\ 1 \in DOMAIN d /\ c # <<>>
      BY <2>1, <2>2, <2>3, <2>6 DEF ChainOf, c, n
    <3>2. QED
      BY <2>6, <2>9, <3>1 DEF Linked
  <2>11. d[1].identity.started = walk.peer.started \/ GoneFor(walk.peer.started)
    <3>1. 1 \in DOMAIN d
      BY <2>3, <2>6
    <3>2. QED
      BY <2>1, <2>2, <2>6, <3>1 DEF ChainOf, c
  <2>12. \A i \in DOMAIN d : d[i].descriptor = d[i].identity.started \/ (i = Len(d) /\ ~Begun(d[i]))
    <3>1. TAKE i \in DOMAIN d
    <3>2. CASE i # n
      BY <2>1, <2>3, <2>6, <3>2 DEF ChainOf, c, n
    <3>3. CASE i = n
      <4>1. d[n].pid = c[n].pid
        BY <2>3, <2>6
      <4>2. QED
        BY <2>6, <3>3, <4>1 DEF Begun, Is, k
    <3>4. QED
      BY <3>2, <3>3
  <2>13. /\ Linked(d)' <=> Linked(d)
         /\ GoneFor(walk.peer.started)' <=> GoneFor(walk.peer.started)
         /\ \A i : Begun(d[i])' <=> Begun(d[i])
    BY <2>1, PeerQuiet DEF Linked
  <2>14. ChainOf(walk)' /\ PlaceOf(walk)' /\ LeftOf(walk)'
    BY <2>6, <2>8, <2>10, <2>11, <2>12, <2>13 DEF ChainOf, PlaceOf, LeftOf
  <2>15. belonged => belonged'
    BY <2>1, <2>8, PeerStep
  <2>16. QED
    BY <2>1, <2>8, <2>14, <2>15, PeerLater
<1>3. QED
  BY <1>1, <1>2

\* The walk sees that the descriptor lives.
LEMMA PeerLives == ASSUME PeerInv, Peer!Lives, UNCHANGED supervisor, History PROVE PeerInv'
<1>1. CASE walk' = Peer!NoWalk
  BY <1>1, PeerRefuses DEF Peer!Lives, Peer!Quiet, Peer!Step
<1>2. CASE walk' # Peer!NoWalk
  <2>1. /\ walk.at = "lives" /\ walk # Peer!NoWalk /\ UNCHANGED <<proc, starts, supervisor, granted, references>>
        /\ walk' = [walk EXCEPT !.at = "unchanged"] /\ PeerTable
        /\ walk \in PeerWalk /\ PlaceOf(walk) /\ ChainOf(walk)
    BY <1>2 DEF Peer!Lives, Peer!Quiet, Peer!Step, Peer!To, Peer!Refuse, PeerInv, WalkOf, Peer!NoWalk, Peer!At
  <2>2. /\ walk'.why = walk.why /\ walk'.at = "unchanged" /\ walk'.pid = walk.pid /\ walk'.chain = walk.chain
        /\ walk'.peer = walk.peer /\ walk' \in PeerWalk
    BY <2>1 DEF PeerWalk, PeerSteps
  <2>3. PICK d : d = walk.chain
    OBVIOUS
  <2>4. /\ Linked(d)' <=> Linked(d)
        /\ GoneFor(walk.peer.started)' <=> GoneFor(walk.peer.started)
        /\ \A i : Begun(d[i])' <=> Begun(d[i])
    BY <2>1, PeerQuiet DEF Linked
  <2>5. ChainOf(walk)' /\ PlaceOf(walk)' /\ LeftOf(walk)'
    BY <2>1, <2>2, <2>3, <2>4 DEF ChainOf, PlaceOf, LeftOf
  <2>6. belonged => belonged'
    BY <2>1, <2>2, PeerStep
  <2>7. QED
    BY <2>1, <2>2, <2>5, <2>6, PeerLater
<1>3. QED
  BY <1>1, <1>2

\* Where the chain has reached the supervisor and all of its links hold, the peer descends
\* from the supervisor now.
LEMMA PeerReached ==
  ASSUME PeerInv, UNCHANGED <<proc, starts, supervisor>>, walk # Peer!NoWalk, walk.at = "unchanged",
         walk.chain[Len(walk.chain)].identity.parent = Sup, \A i \in DOMAIN walk.chain : Holds(walk.chain[i]),
         walk.chain[1].identity.started = walk.peer.started
  PROVE  \E p \in Pids : p \in Peer!Descendants' /\ proc'[p].id = walk.peer.started
<1> DEFINE c == walk.chain
           n == Len(c)
           p == c[1].pid
<1>1. PeerTable /\ c \in Seq(PeerLink) /\ c # <<>> /\ Linked(c)
  BY DEF PeerInv, WalkOf, PeerWalk, PlaceOf, ChainOf
<1>2. n \in Nat /\ n >= 1 /\ n \in DOMAIN c /\ 1 \in DOMAIN c /\ c[1] \in PeerLink /\ c[n] \in PeerLink
  BY <1>1
<1>3. Holds(c[1]) /\ Holds(c[n]) /\ p \in Pids /\ c[n].pid \in Pids
  BY <1>2 DEF PeerLink
<1>4. proc[p].own = proc[c[n].pid].own
  BY <1>1, <1>3 DEF Linked
<1>5. proc[c[n].pid].parent = Sup /\ proc[c[n].pid].state # "free"
  BY <1>3 DEF Holds, Same, Begun, Is, Peer!Named
<1>6. proc[p].own
  BY <1>1, <1>3, <1>4, <1>5 DEF PeerTable, Descends
<1>7. Peer!Alive(p) /\ proc[p].id = walk.peer.started
  BY <1>3 DEF Holds, Same, Begun, Is
<1>8. p \in Peer!Descendants
  BY <1>1, <1>3, <1>6, <1>7, PeerOwns
<1>9. p \in Peer!Descendants'
  BY <1>8 DEF Peer!Descendants, Peer!Children, Peer!Alive
<1>10. QED
  BY <1>3, <1>7, <1>9

\* The walk goes on to the parent, or ends at the supervisor.
LEMMA PeerClimbs == ASSUME PeerInv, Peer!Climb, UNCHANGED supervisor, History PROVE PeerInv'
<1>1. CASE walk' = Peer!NoWalk
  BY <1>1, PeerRefuses DEF Peer!Climb, Peer!Quiet, Peer!Step
<1>2. CASE walk' # Peer!NoWalk
  <2> DEFINE n == Len(walk.chain)
             l == walk.chain[n]
  <2>0. PICK d : d = walk.chain
    OBVIOUS
  <2>1. /\ walk.at = "unchanged" /\ walk # Peer!NoWalk /\ UNCHANGED <<proc, starts, supervisor, granted, references>>
        /\ Peer!Unchanged(l) /\ PeerTable
        /\ walk' = IF l.identity.parent = Sup THEN [walk EXCEPT !.at = "again", !.left = walk.chain]
                   ELSE [walk EXCEPT !.at = "read", !.pid = l.identity.parent]
        /\ walk \in PeerWalk /\ PlaceOf(walk) /\ ChainOf(walk)
    BY <1>2 DEF Peer!Climb, Peer!Quiet, Peer!Step, Peer!Refuse, Peer!Reached, Peer!Last, PeerInv, WalkOf, Peer!NoWalk,
                Peer!At
  <2>2. d \in Seq(PeerLink) /\ d # <<>> /\ n = Len(d) /\ n \in DOMAIN d /\ 1 \in DOMAIN d /\ l = d[n] /\ l \in PeerLink
    BY <2>0, <2>1 DEF PeerWalk, PlaceOf
  <2>3. Begun(l)
    BY <2>1 DEF Peer!Unchanged, Peer!Identity, Begun, Is
  <2>4. \A i \in DOMAIN d : d[i].descriptor = d[i].identity.started
    BY <2>0, <2>1, <2>2, <2>3 DEF ChainOf
  <2>5. Linked(d) /\ (d[1].identity.started = walk.peer.started \/ GoneFor(walk.peer.started))
    BY <2>0, <2>1, <2>2 DEF ChainOf
  <2>6. /\ Linked(d)' <=> Linked(d)
        /\ GoneFor(walk.peer.started)' <=> GoneFor(walk.peer.started)
        /\ \A i : (Known(d[i])' <=> Known(d[i])) /\ (Holds(d[i])' <=> Holds(d[i]))
    BY <2>1, PeerQuiet DEF Linked
  <2>7. CASE l.identity.parent = Sup
    <3>1. /\ walk'.why = walk.why /\ walk'.at = "again" /\ walk'.left = d /\ walk'.chain = d
          /\ walk'.peer = walk.peer /\ walk' \in PeerWalk
      BY <2>0, <2>1, <2>2, <2>7 DEF PeerWalk, PeerSteps
    <3>2. belonged' \in BOOLEAN /\ (belonged => belonged') /\ walk' # Peer!NoWalk
      BY <2>1, <3>1, PeerStep
    <3>3. ASSUME \A i \in DOMAIN d : Holds(d[i]), d[1].identity.started = walk.peer.started PROVE belonged'
      <4>1. \E p \in Pids : p \in Peer!Descendants' /\ proc'[p].id = walk.peer.started
        BY <2>0, <2>1, <2>7, <3>3, PeerReached
      <4>2. Peer!Belongs'
        BY <3>1, <3>2, <4>1 DEF Peer!Belongs
      <4>3. QED
        BY <3>2, <4>2 DEF History
    <3>4. belonged' \/ GoneFor(walk.peer.started)' \/ BrokenAt(walk.left, walk.at)'
      BY <2>5, <2>6, <3>1, <3>3 DEF BrokenAt
    <3>5. LeftOf(walk)'
      BY <2>2, <2>4, <2>5, <2>6, <3>1, <3>4 DEF LeftOf, Linked
    <3>6. ChainOf(walk)' /\ PlaceOf(walk)'
      BY <2>2, <3>1 DEF ChainOf, PlaceOf
    <3>7. QED
      BY <2>1, <3>1, <3>2, <3>5, <3>6, PeerLater
  <2>8. CASE l.identity.parent # Sup
    <3>1. /\ walk'.why = walk.why /\ walk'.at = "read" /\ walk'.pid = l.identity.parent /\ walk'.chain = d
          /\ walk'.peer = walk.peer /\ walk' \in PeerWalk
      BY <2>0, <2>1, <2>2, <2>8 DEF PeerWalk, PeerSteps, PeerLink
    <3>2. belonged => belonged'
      BY <2>1, <3>1, PeerStep
    <3>3. ChainOf(walk)' /\ PlaceOf(walk)' /\ LeftOf(walk)'
      BY <2>2, <2>4, <2>5, <2>6, <3>1 DEF ChainOf, PlaceOf, LeftOf
    <3>4. QED
      BY <2>1, <3>1, <3>2, <3>3, PeerLater
  <2>9. QED
    BY <2>7, <2>8
<1>3. QED
  BY <1>1, <1>2

----------------------------------------------------------------------------
(* The second look, and what comes of it *)

\* The supervisor is looked at again.
LEMMA PeerLooksAgain == ASSUME PeerInv, Peer!RootAgain, UNCHANGED supervisor, History PROVE PeerInv'
<1>1. CASE walk' = Peer!NoWalk
  BY <1>1, PeerRefuses DEF Peer!RootAgain, Peer!Quiet, Peer!Step
<1>2. CASE walk' # Peer!NoWalk
  <2>0. PICK d : d = walk.left
    OBVIOUS
  <2>1. /\ walk.at = "again" /\ walk # Peer!NoWalk /\ UNCHANGED <<proc, starts, supervisor, granted, references>>
        /\ walk' = [walk EXCEPT !.at = "still"] /\ PeerTable
        /\ walk \in PeerWalk /\ LeftOf(walk)
    BY <1>2 DEF Peer!RootAgain, Peer!Quiet, Peer!Step, Peer!To, Peer!Refuse, PeerInv, WalkOf, Peer!NoWalk, Peer!At
  <2>2. /\ walk'.why = walk.why /\ walk'.at = "still" /\ walk'.left = walk.left
        /\ walk'.peer = walk.peer /\ walk' \in PeerWalk
    BY <2>1 DEF PeerWalk, PeerSteps
  <2>3. /\ GoneFor(walk.peer.started)' <=> GoneFor(walk.peer.started)
        /\ \A i : (Known(d[i])' <=> Known(d[i])) /\ (Holds(d[i])' <=> Holds(d[i]))
    BY <2>1, PeerQuiet
  <2>4. belonged => belonged'
    BY <2>1, <2>2, PeerStep
  <2>5. LeftOf(walk)'
    BY <2>0, <2>1, <2>2, <2>3, <2>4 DEF LeftOf, BrokenAt
  <2>6. ChainOf(walk)' /\ PlaceOf(walk)'
    BY <2>2 DEF ChainOf, PlaceOf
  <2>7. QED
    BY <2>1, <2>2, <2>4, <2>5, <2>6, PeerLater
<1>3. QED
  BY <1>1, <1>2

\* Each descriptor of the chain is seen to live still.
LEMMA PeerStillLives == ASSUME PeerInv, Peer!StillLives, UNCHANGED supervisor, History PROVE PeerInv'
<1>1. CASE walk' = Peer!NoWalk
  BY <1>1, PeerRefuses DEF Peer!StillLives, Peer!Quiet, Peer!Step
<1>2. CASE walk' # Peer!NoWalk
  <2>0. PICK d : d = walk.left
    OBVIOUS
  <2>1. /\ walk.at = "still" /\ walk # Peer!NoWalk /\ UNCHANGED <<proc, starts, supervisor, granted, references>>
        /\ walk' = [walk EXCEPT !.at = "stillSame"] /\ ~Peer!Exited(d[1].descriptor)
        /\ walk \in PeerWalk /\ LeftOf(walk)
    BY <1>2, <2>0 DEF Peer!StillLives, Peer!Quiet, Peer!Step, Peer!To, Peer!Refuse, PeerInv, WalkOf, Peer!NoWalk, Peer!At
  <2>2. /\ walk'.why = walk.why /\ walk'.at = "stillSame" /\ walk'.left = walk.left
        /\ walk'.peer = walk.peer /\ walk' \in PeerWalk
    BY <2>1 DEF PeerWalk, PeerSteps
  <2>3. /\ GoneFor(walk.peer.started)' <=> GoneFor(walk.peer.started)
        /\ \A i : (Known(d[i])' <=> Known(d[i])) /\ (Holds(d[i])' <=> Holds(d[i])) /\ (Same(d[i])' <=> Same(d[i]))
    BY <2>1, PeerQuiet DEF PeerInv
  <2>4. belonged => belonged'
    BY <2>1, <2>2, PeerStep
  \* The process of the first link runs, so that it is its parent that may have changed.
  <2>5. Same(d[1]) => Holds(d[1])
    <3>1. d \in Seq(PeerLink) /\ d # <<>> /\ 1 \in DOMAIN d
      BY <2>0, <2>1 DEF PeerWalk, LeftOf
    <3>2. Known(d[1]) /\ d[1].descriptor = d[1].identity.started
      BY <2>0, <2>1, <3>1 DEF LeftOf
    <3>3. PICK p \in Pids : Peer!Alive(p) /\ proc[p].id = d[1].identity.started
      BY <2>1, <3>2 DEF Peer!Exited
    <3>4. Is(p, d[1].identity.started)
      BY <3>3 DEF Is, Peer!Named, Peer!Alive
    <3>5. p = d[1].pid
      BY <3>2, <3>4 DEF Known, Only
    <3>6. QED
      BY <3>3, <3>5 DEF Holds
  <2>6. LeftOf(walk)'
    BY <2>0, <2>1, <2>2, <2>3, <2>4, <2>5 DEF LeftOf, BrokenAt
  <2>7. ChainOf(walk)' /\ PlaceOf(walk)'
    BY <2>2 DEF ChainOf, PlaceOf
  <2>8. QED
    BY <2>1, <2>2, <2>4, <2>6, <2>7, PeerLater
<1>3. QED
  BY <1>1, <1>2

\* Each process of the chain is seen to be what it was.
LEMMA PeerStillSame == ASSUME PeerInv, Peer!StillSame, UNCHANGED supervisor, History PROVE PeerInv'
<1>1. CASE walk' = Peer!NoWalk
  BY <1>1, PeerRefuses DEF Peer!StillSame, Peer!Quiet, Peer!Step
<1>2. CASE walk' # Peer!NoWalk
  <2>0. PICK c : c = walk.left
    OBVIOUS
  <2> DEFINE next == IF Len(c) = 1 THEN "whole" ELSE "still"
  <2>1. /\ walk.at = "stillSame" /\ walk # Peer!NoWalk /\ UNCHANGED <<proc, starts, supervisor, granted, references>>
        /\ walk' = [walk EXCEPT !.left = Tail(c), !.at = next] /\ Peer!Unchanged(c[1])
        /\ walk \in PeerWalk /\ LeftOf(walk)
    BY <1>2, <2>0 DEF Peer!StillSame, Peer!Quiet, Peer!Step, Peer!Refuse, PeerInv, WalkOf, Peer!NoWalk, Peer!At
  <2>2. c \in Seq(PeerLink) /\ c # <<>> /\ Tail(c) \in Seq(PeerLink)
    BY <2>0, <2>1 DEF PeerWalk, LeftOf
  <2>3. PICK d : d = Tail(c)
    OBVIOUS
  <2>4. /\ Len(c) \in Nat /\ DOMAIN c = 1..Len(c) /\ DOMAIN d = 1..(Len(c) - 1) /\ Len(c) >= 1
        /\ \A i \in 1..(Len(c) - 1) : d[i] = c[i + 1]
        /\ Len(c) # 1 => d # <<>>
    <3>1. Len(c) \in Nat /\ DOMAIN c = 1..Len(c) /\ Len(c) >= 1
      BY <2>2
    <3>2. d \in Seq(PeerLink) /\ Len(d) = Len(c) - 1 /\ \A i \in 1..(Len(c) - 1) : d[i] = c[i + 1]
      BY <2>2, <2>3
    <3>3. DOMAIN d = 1..(Len(c) - 1) /\ (d = <<>> => Len(c) = 1)
      BY <3>1, <3>2
    <3>4. QED
      BY <3>1, <3>2, <3>3
  <2>5. /\ walk'.why = walk.why /\ walk'.at = next /\ walk'.left = d
        /\ walk'.peer = walk.peer /\ walk' \in PeerWalk
    BY <2>1, <2>2, <2>3 DEF PeerWalk, PeerSteps
  <2>6. /\ GoneFor(walk.peer.started)' <=> GoneFor(walk.peer.started)
        /\ \A i : (Known(d[i])' <=> Known(d[i])) /\ (Holds(d[i])' <=> Holds(d[i]))
    BY <2>1, PeerQuiet DEF PeerInv
  <2>7. belonged => belonged'
    BY <2>1, <2>5, PeerStep
  <2>8. Same(c[1])
    BY <2>1 DEF Peer!Unchanged, Peer!Identity, Same, Begun, Is
  <2>9. \A i \in DOMAIN d : Known(d[i]) /\ d[i].descriptor = d[i].identity.started
    <3>1. TAKE i \in DOMAIN d
    <3>2. i + 1 \in DOMAIN c /\ d[i] = c[i + 1]
      BY <2>4
    <3>3. QED
      BY <2>0, <2>1, <3>2 DEF LeftOf
  <2>10. belonged \/ GoneFor(walk.peer.started) \/ \E i \in DOMAIN d : ~Holds(d[i])
    <3>1. SUFFICES ASSUME BrokenAt(c, "stillSame") PROVE \E i \in DOMAIN d : ~Holds(d[i])
      BY <2>0, <2>1 DEF LeftOf
    <3>2. PICK i \in DOMAIN c : i # 1 /\ ~Holds(c[i])
      BY <2>8, <3>1 DEF BrokenAt
    <3>3. i - 1 \in DOMAIN d /\ d[i - 1] = c[i]
      BY <2>4, <3>2
    <3>4. QED
      BY <3>2, <3>3
  <2>11. LeftOf(walk)'
    <3>1. CASE Len(c) = 1
      BY <2>4, <2>5, <2>6, <2>7, <2>10, <3>1 DEF LeftOf
    <3>2. CASE Len(c) # 1
      BY <2>4, <2>5, <2>6, <2>7, <2>9, <2>10, <3>2 DEF LeftOf, BrokenAt
    <3>3. QED
      BY <3>1, <3>2
  <2>12. ChainOf(walk)' /\ PlaceOf(walk)'
    BY <2>5 DEF ChainOf, PlaceOf
  <2>13. walk'.at \notin {"open", "alive", "same", "root"}
    BY <2>5
  <2>14. QED
    BY <2>1, <2>5, <2>7, <2>11, <2>12, <2>13, PeerLater
<1>3. QED
  BY <1>1, <1>2

\* A check that went through grants what it is about.
LEMMA PeerGrants == ASSUME PeerInv, Peer!Grant, UNCHANGED supervisor, History PROVE PeerInv'
<1>1. /\ walk.at = "whole" /\ walk # Peer!NoWalk /\ walk' = Peer!NoWalk /\ UNCHANGED <<proc, starts, supervisor>>
      /\ references' = IF walk.why = "admit" THEN references \cup {walk.peer} ELSE references
      /\ granted' = (granted \/ (~belonged /\ (walk.why = "valid" \/ ~Peer!Exited(walk.peer.descriptor))))
      /\ granted = FALSE /\ belonged \in BOOLEAN /\ walk \in PeerWalk /\ PeerOf(walk) /\ LeftOf(walk) /\ PeerTable
      /\ \A peer \in references : Referenced(peer)
  BY DEF Peer!Grant, Peer!Step, Peer!At, PeerInv, WalkOf, Peer!NoWalk
<1>2. belonged \/ GoneFor(walk.peer.started)
  BY <1>1 DEF LeftOf
<1>3. walk.peer.descriptor = walk.peer.started /\ (walk.why = "valid" => belonged)
  BY <1>1 DEF PeerOf
<1>4. GoneFor(walk.peer.started) => Peer!Exited(walk.peer.descriptor) /\ Tracked(walk.peer.started)
  BY <1>3 DEF GoneFor, Is, Peer!Exited, Peer!Alive, Peer!Named, Tracked
<1>5. granted' = FALSE
  BY <1>1, <1>2, <1>3, <1>4
<1>6. Referenced(walk.peer)
  BY <1>1, <1>2, <1>3, <1>4 DEF Referenced, PeerOf, PeerWalk
<1>7. \A peer \in references' : Referenced(peer)'
  <2>1. \A peer : Referenced(peer)' <=> Referenced(peer)
    BY <1>1, PeerQuiet
  <2>2. \A peer \in references' : Referenced(peer)
    BY <1>1, <1>6
  <2>3. QED
    BY <2>1, <2>2
<1>8. PeerTable' /\ belonged' = FALSE
  BY <1>1, PeerQuiet DEF History
<1>9. QED
  BY <1>1, <1>5, <1>7, <1>8 DEF PeerInv

\* The chain is closed without a grant.
LEMMA PeerCloses ==
  ASSUME PeerInv, Peer!CloseTree \/ (\E peer \in references : Peer!CloseReference(peer)),
         UNCHANGED supervisor, History
  PROVE  PeerInv'
<1>1. /\ UNCHANGED <<proc, starts, granted>> /\ references' \subseteq references
      /\ walk' = Peer!NoWalk
  BY DEF Peer!CloseTree, Peer!CloseReference, Peer!Step
<1>2. QED
  BY <1>1, PeerRefuses

\* The kernel does not know of the check.
LEMMA PeerMoves == ASSUME PeerInv, Peer!Kernel, History PROVE PeerInv'
<1>1. UNCHANGED <<references, walk, granted>>
  BY DEF Peer!Kernel, Peer!SupEnds
<1>2. PeerTable /\ PeerTable' /\ Moves /\ granted = FALSE /\ belonged \in BOOLEAN
  BY PeerKernel DEF PeerInv
<1>3. ASSUME NEW peer, Referenced(peer) PROVE Referenced(peer)'
  <2>1. Only(peer.pid, peer.started) /\ Tracked(peer.started)
    BY <1>3 DEF Referenced
  <2>2. Only(peer.pid, peer.started)' /\ Tracked(peer.started)'
    BY <1>2, <2>1, PeerOnly
  <2>3. QED
    BY <1>3, <2>2 DEF Referenced
<1>4. CASE walk = Peer!NoWalk
  <2>1. belonged' = FALSE
    BY <1>1, <1>4 DEF History
  <2>2. QED
    BY <1>1, <1>2, <1>3, <1>4, <2>1 DEF PeerInv
<1>5. CASE walk # Peer!NoWalk
  <2>0. PICK w : w = walk
    OBVIOUS
  <2>1. WalkOf(w) /\ w \in PeerWalk /\ PeerOf(w) /\ walk' = w
    BY <1>1, <1>5, <2>0 DEF PeerInv, WalkOf
  <2>2. PICK n, s : n = w.peer.pid /\ s = w.peer.started
    OBVIOUS
  <2>3. Only(n, s) /\ (belonged => Tracked(s))
    BY <2>1, <2>2 DEF PeerOf
  <2>4. /\ Only(n, s)' /\ (GoneFor(s) => GoneFor(s)') /\ (Tracked(s) => Tracked(s)')
        /\ n \in Pids /\ (Is(n, s)' => Is(n, s))
    BY <1>2, <2>1, <2>2, <2>3, PeerOnly DEF PeerWalk, PeerPeer
  <2>5. belonged' \in BOOLEAN /\ (belonged' => Tracked(s)') /\ (belonged => belonged')
    BY <1>1, <1>2, <1>5, <2>1, <2>2, <2>3, <2>4, PeerHistory
  <2>6. supervisor' = supervisor \/ supervisor' = "ended"
    BY <1>2 DEF Moves
  <2>7. PeerOf(w)'
    BY <1>3, <2>1, <2>2, <2>4, <2>5, <2>6 DEF PeerOf
  <2>8. PlaceOf(w)'
    BY <2>1 DEF WalkOf, PlaceOf
  <2>9. ASSUME NEW c, c \in Seq(PeerLink), NEW i \in DOMAIN c, Known(c[i])
        PROVE  /\ Known(c[i])' /\ (Begun(c[i])' => Begun(c[i])) /\ (Same(c[i])' => Same(c[i]))
               /\ (Holds(c[i])' => Holds(c[i]))
    <3>1. c[i] \in PeerLink
      BY <2>9
    <3>2. QED
      BY <1>2, <2>9, <3>1, PeerKnown
  <2>10. ASSUME NEW c, c \in Seq(PeerLink), Linked(c) PROVE Linked(c)'
    <3>1. \A i \in DOMAIN c : Known(c[i]) /\ Known(c[i])' /\ (Holds(c[i])' => Holds(c[i]))
      BY <2>9, <2>10 DEF Linked
    <3>2. ASSUME c # <<>>, \A i \in DOMAIN c : Holds(c[i])' PROVE proc'[c[1].pid].own = proc'[c[Len(c)].pid].own
      <4>1. 1 \in DOMAIN c /\ Len(c) \in DOMAIN c /\ c[1] \in PeerLink /\ c[Len(c)] \in PeerLink
        BY <2>10, <3>2
      <4>2. proc[c[1].pid].own = proc[c[Len(c)].pid].own
        BY <2>10, <3>1, <3>2 DEF Linked
      <4>3. Begun(c[1])' /\ Begun(c[Len(c)])'
        BY <3>2, <4>1 DEF Holds, Same
      <4>4. QED
        BY <1>2, <3>1, <4>1, <4>2, <4>3, PeerTogether
    <3>3. QED
      BY <3>1, <3>2 DEF Linked
  <2>11. ChainOf(w)'
    <3>1. ASSUME w.at \in {"read", "opened", "lives", "unchanged"}
          PROVE  /\ Linked(w.chain) /\ Linked(w.chain)'
                 /\ \A i \in DOMAIN w.chain : Begun(w.chain[i])' => Begun(w.chain[i])
      <4>1. w.chain \in Seq(PeerLink) /\ Linked(w.chain)
        BY <2>1, <3>1 DEF WalkOf, PeerWalk, ChainOf
      <4>2. QED
        BY <2>9, <2>10, <4>1 DEF Linked
    <3>2. ChainOf(w)
      BY <2>1 DEF WalkOf
    <3>3. QED
      BY <2>2, <2>4, <3>1, <3>2 DEF ChainOf
  <2>12. LeftOf(w)'
    <3>1. LeftOf(w) /\ w.left \in Seq(PeerLink)
      BY <2>1 DEF WalkOf, PeerWalk
    <3>2. ASSUME w.at \in {"again", "still", "stillSame"}
          PROVE  \A i \in DOMAIN w.left : /\ Known(w.left[i])' /\ (Same(w.left[i])' => Same(w.left[i]))
                                          /\ (Holds(w.left[i])' => Holds(w.left[i]))
      BY <2>9, <3>1, <3>2 DEF LeftOf
    <3>3. BrokenAt(w.left, w.at) /\ w.at \in {"again", "still", "stillSame"} => BrokenAt(w.left, w.at)'
      BY <3>2 DEF BrokenAt
    <3>4. QED
      BY <2>2, <2>4, <2>5, <3>1, <3>2, <3>3 DEF LeftOf
  <2>13. WalkOf(walk)'
    BY <2>1, <2>7, <2>8, <2>11, <2>12 DEF WalkOf
  <2>14. QED
    BY <1>1, <1>2, <1>3, <1>5, <2>5, <2>13 DEF PeerInv
<1>6. QED
  BY <1>4, <1>5

\* Every step keeps the invariant of the check.
LEMMA PeerInvHolds == ASSUME PeerInv, [Peer!Next]_peerVars PROVE PeerInv'
<1>1. CASE UNCHANGED peerVars
  <2>1. PICK w : w = walk
    OBVIOUS
  <2>2. WalkOf(w)' <=> WalkOf(w)
    <3>1. PICK c, d, s : c = w.chain /\ d = w.left /\ s = w.peer.started
      OBVIOUS
    <3>2. /\ UNCHANGED <<proc, starts, supervisor, belonged>> /\ PeerTable
      BY <1>1 DEF peerVars, PeerInv
    <3>3. PeerOf(w)' <=> PeerOf(w)
      BY <3>2, PeerQuiet DEF PeerOf
    <3>4. /\ Linked(c)' <=> Linked(c)
          /\ \A i : (Begun(c[i])' <=> Begun(c[i]))
      BY <3>2, PeerQuiet DEF Linked
    <3>5. \A i : (Known(d[i])' <=> Known(d[i])) /\ (Holds(d[i])' <=> Holds(d[i])) /\ (Same(d[i])' <=> Same(d[i]))
      BY <3>2, PeerQuiet
    <3>6. GoneFor(s)' <=> GoneFor(s)
      BY <3>2, PeerQuiet
    <3>7. ChainOf(w)' <=> ChainOf(w)
      BY <3>1, <3>4, <3>6 DEF ChainOf
    <3>8. LeftOf(w)' <=> LeftOf(w)
      BY <3>1, <3>2, <3>5, <3>6 DEF LeftOf, BrokenAt
    <3>9. QED
      BY <3>3, <3>7, <3>8 DEF WalkOf, PlaceOf
  <2>3. PeerTable' /\ \A peer : Referenced(peer)' <=> Referenced(peer)
    BY <1>1, PeerQuiet DEF peerVars, PeerInv
  <2>4. QED
    BY <1>1, <2>1, <2>2, <2>3 DEF peerVars, PeerInv
<1>2. CASE Peer!Next
  <2>1. History
    BY <1>2 DEF Peer!Next, History
  <2>2. CASE Peer!Kernel
    BY <2>1, <2>2, PeerMoves
  <2>3. CASE ~Peer!Kernel
    <3>1. \/ \E p \in Pids : Peer!Admit(p)
          \/ \E peer \in references : Peer!Valid(peer) \/ Peer!CloseReference(peer)
          \/ Peer!AdmitOpen \/ Peer!PeerAlive \/ Peer!PeerSame \/ Peer!RootAlive \/ Peer!Read \/ Peer!Open \/ Peer!Lives
          \/ Peer!Climb \/ Peer!RootAgain \/ Peer!StillLives \/ Peer!StillSame \/ Peer!Grant \/ Peer!CloseTree
      BY <1>2, <2>3 DEF Peer!Next
    <3>2. UNCHANGED supervisor
      BY <3>1 DEF Peer!Admit, Peer!Valid, Peer!CloseReference, Peer!AdmitOpen, Peer!PeerAlive, Peer!PeerSame,
                  Peer!RootAlive, Peer!Read, Peer!Open, Peer!Lives, Peer!Climb, Peer!RootAgain, Peer!StillLives,
                  Peer!StillSame, Peer!Grant, Peer!CloseTree, Peer!Quiet, Peer!Step
    <3>3. QED
      BY <2>1, <3>1, <3>2, PeerAdmits, PeerIsAsked, PeerIsOpened, PeerIsAlive, PeerIsSame, PeerRootLives, PeerReads,
         PeerOpens, PeerLives, PeerClimbs, PeerLooksAgain, PeerStillLives, PeerStillSame, PeerGrants, PeerCloses
  <2>4. QED
    BY <2>2, <2>3
<1>3. QED
  BY <1>1, <1>2

\* It holds at the start.
LEMMA PeerInvStarts == ASSUME Peer!Init PROVE PeerInv
<1>1. /\ proc = [p \in Pids |-> Peer!Free] /\ starts = 0 /\ supervisor = "running" /\ references = {}
      /\ walk = Peer!NoWalk /\ belonged = FALSE /\ granted = FALSE
  BY DEF Peer!Init
<1>2. Peer!Free \in PeerProcess /\ Peer!Free.state = "free"
  BY DEF Peer!Free, PeerProcess
<1>3. PeerTable
  BY <1>1, <1>2 DEF PeerTable, Descends, Peer!Named
<1>4. QED
  BY <1>1, <1>3 DEF PeerInv

\* It says that what is served belongs.
LEMMA PeerInvBelong == ASSUME PeerInv PROVE Peer!PeersBelong
<1>1. \A peer \in references : peer.started = peer.descriptor /\ peer.started # 0
  BY DEF PeerInv, Referenced, Only, PeerTable
<1>2. QED
  BY <1>1 DEF PeerInv, Peer!PeersBelong

----------------------------------------------------------------------------
(* Documents, the private document facade.                                 *)

Operation == Document!Operations
Sending == [call : Document!Calls, op : Operation]
Answer == [call : Document!Calls, documents : SUBSET Docs, valid : BOOLEAN]

DocumentTypes ==
  /\ authority \in [peer : [Document!Roles -> {"none", "bound", "ended"}], initial : SUBSET Exported]
  /\ facade \in [open : BOOLEAN, started : BOOLEAN, documents : [Docs -> {"none", "shared", "unique"}],
                 pending : SUBSET Document!Calls, calls : SUBSET Document!Calls]
  /\ facade.open => facade.started
  /\ call \in [Document!Calls -> [op : Operation \cup {Document!Nothing, Document!Done}, answers : 0..1]]
  /\ link \in [asked : SUBSET Document!Calls, out : Seq(Sending), back : Seq(Answer)]
  /\ exports \in [file : [Docs -> Exported \cup {None, Removed}], made : SUBSET Docs, told : SUBSET Docs]

\* A call waits from when it is asked until it is answered.
Waiting ==
  /\ facade.pending = facade.calls /\ facade.calls = link.asked /\ (~facade.started => link.asked = {})
  /\ \A c \in Document!Calls :
       /\ Document!Op(c) \in Operation <=> c \in link.asked
       /\ Document!Op(c) = Document!Nothing => call[c].answers = 0
       /\ Document!Op(c) = Document!Done => call[c].answers = 1
       /\ Document!Op(c) \in Operation => call[c].answers = 0

\* What the host is asked, and what it answers, is about the calls that wait.
Answers(a) ==
  /\ Document!Op(a.call) # Document!Nothing
  /\ a.call \in link.asked =>
       /\ IsFiniteSet(a.documents) /\ Cardinality(a.documents) <= Cardinality(Document!Op(a.call).files)
       /\ a.documents # {} => Document!Op(a.call).method = "Add"
Carried ==
  /\ \A i \in DOMAIN link.out :
       /\ Document!Op(link.out[i].call) # Document!Nothing
       /\ link.out[i].call \in link.asked => link.out[i].op = Document!Op(link.out[i].call)
  /\ \A i \in DOMAIN link.back : Answers(link.back[i])

\* What is granted, and what calls under way may still be answered with, fits together.
Room ==
  /\ IsFiniteSet(Document!Granted) /\ IsFiniteSet(Document!Promised)
  /\ Cardinality(Document!Granted) + Cardinality(Document!Promised) <= MaxDocuments

\* A document that the instance may remove was made for it, and it was told of it once. One
\* that the host has not made is in nobody's hands, and one that it made for a call that waits
\* is in that answer first.
Unmade(d) == exports.file[d] = None =>
  d \notin exports.made \cup exports.told /\ facade.documents[d] = "none"
Claims(a) == a.call \in link.asked /\ a.valid /\ Document!Op(a.call).method = "Add" /\ Document!Op(a.call).unique
Owned ==
  /\ \A d \in Docs : facade.documents[d] = "unique" => d \in exports.made \ exports.told
  /\ \A d \in Docs : Unmade(d)
  /\ \A i \in DOMAIN link.back : \A d \in link.back[i].documents : exports.file[d] # None
  /\ \A i \in DOMAIN link.back : Claims(link.back[i]) => \A d \in link.back[i].documents :
       /\ d \in exports.made \ exports.told /\ facade.documents[d] = "none"
       /\ \A j \in 1..(i - 1) : d \notin link.back[j].documents

DocumentInv == DocumentTypes /\ Waiting /\ Carried /\ Room /\ Owned

----------------------------------------------------------------------------
\* What an operation is made of: it is neither of the marks of a call without one.
LEMMA OperationFacts ==
  ASSUME NEW op \in Operation
  PROVE  /\ op.files \in SUBSET Exported /\ IsFiniteSet(op.files) /\ Cardinality(op.files) \in Nat
         /\ op # Document!Nothing /\ op # Document!Done
         /\ op.method = "Add" => op.unique \in BOOLEAN
         /\ op.method \in {"Delete", "RevokePermissions", "Info"} => op.document \in Docs
<1>1. op.files \in SUBSET Exported
  BY DEF Operation, Document!Operations
<1>2. IsFiniteSet(op.files) /\ Cardinality(op.files) \in Nat
  BY <1>1, DocumentsAssumption, FS_Subset, FS_CardinalityType
<1>3. op.method \in {"Add", "Delete", "RevokePermissions", "Info", "GetMountPoint"}
  BY DEF Operation, Document!Operations
<1>4. /\ op.method = "Add" => op.unique \in BOOLEAN
      /\ op.method \in {"Delete", "RevokePermissions", "Info"} => op.document \in Docs
  BY DEF Operation, Document!Operations
<1>5. QED
  BY <1>1, <1>2, <1>3, <1>4 DEF Document!Nothing, Document!Done

\* The facade counts as the library does.
LEMMA Counted == ASSUME NEW S PROVE Document!Cardinality(S) = Cardinality(S)
BY DEF Document!Cardinality, Cardinality

\* What the link carries has its type.
LEMMA LinkFacts ==
  ASSUME DocumentTypes
  PROVE  /\ link.asked \subseteq Document!Calls /\ link.out \in Seq(Sending) /\ link.back \in Seq(Answer)
         /\ \A i \in DOMAIN link.out : link.out[i].call \in Document!Calls /\ link.out[i].op \in Operation
         /\ \A i \in DOMAIN link.back :
              /\ link.back[i].call \in Document!Calls /\ link.back[i].documents \in SUBSET Docs
              /\ link.back[i].valid \in BOOLEAN
<1>1. link.asked \subseteq Document!Calls /\ link.out \in Seq(Sending) /\ link.back \in Seq(Answer)
  BY DEF DocumentTypes
<1>2. (\A i \in DOMAIN link.out : link.out[i] \in Sending) /\ (\A i \in DOMAIN link.back : link.back[i] \in Answer)
  BY <1>1
<1>3. QED
  BY <1>1, <1>2 DEF Sending, Answer

\* Two finite sets that have nothing in common are counted by adding.
LEMMA Pairs ==
  ASSUME NEW c, NEW F, IsFiniteSet(F)
  PROVE  IsFiniteSet({c} \X F) /\ Cardinality({c} \X F) = Cardinality(F)
<1> DEFINE P == {c} \X F
           f == [x \in F |-> <<c, x>>]
           g == [x \in P |-> x[2]]
<1>1. f \in Surjection(F, P)
  <2>1. \A y \in P : y[2] \in F /\ f[y[2]] = y
    OBVIOUS
  <2>2. f \in [F -> P]
    OBVIOUS
  <2>3. QED
    BY <2>1, <2>2 DEF Surjection
<1>2. IsFiniteSet(P) /\ Cardinality(P) <= Cardinality(F)
  BY <1>1, FS_Surjection
<1>3. g \in Surjection(P, F)
  <2>1. \A y \in F : <<c, y>> \in P /\ g[<<c, y>>] = y
    OBVIOUS
  <2>2. g \in [P -> F]
    OBVIOUS
  <2>3. QED
    BY <2>1, <2>2 DEF Surjection
<1>4. Cardinality(F) <= Cardinality(P)
  BY <1>2, <1>3, FS_Surjection
<1>5. QED
  BY <1>2, <1>4, FS_CardinalityType

\* What is put together is no more than its parts.
LEMMA Joined ==
  ASSUME NEW S, NEW T, IsFiniteSet(S), IsFiniteSet(T)
  PROVE  /\ IsFiniteSet(S \cup T) /\ Cardinality(S \cup T) <= Cardinality(S) + Cardinality(T)
         /\ S \cap T = {} => Cardinality(S \cup T) = Cardinality(S) + Cardinality(T)
<1>1. IsFiniteSet(S \cup T) /\ Cardinality(S \cup T) = Cardinality(S) + Cardinality(T) - Cardinality(S \cap T)
  BY FS_Union
<1>2. IsFiniteSet(S \cap T)
  BY FS_Intersection
<1>3. Cardinality(S \cap T) \in Nat /\ Cardinality(S) \in Nat /\ Cardinality(T) \in Nat
  BY <1>2, FS_CardinalityType
<1>4. S \cap T = {} => Cardinality(S \cap T) = 0
  BY FS_EmptySet
<1>5. QED
  BY <1>1, <1>3, <1>4

\* What is not touched keeps its part of the invariant.
LEMMA DocumentAlone ==
  ASSUME DocumentInv, UNCHANGED <<facade, link, exports, call>>
  PROVE  Waiting' /\ Carried' /\ Room' /\ Owned'
<1>1. Waiting' /\ Carried'
  BY DEF DocumentInv, Waiting, Carried, Answers, Document!Op
<1>2. Room'
  BY DEF DocumentInv, Room, Document!Granted, Document!Promised, Document!Op
<1>3. Owned'
  BY DEF DocumentInv, Owned, Unmade, Claims, Document!Op
<1>4. QED
  BY <1>1, <1>2, <1>3

\* A role is bound to its caller.
LEMMA DocumentBinds ==
  ASSUME DocumentInv, NEW role \in Document!Roles, Document!Bind(role) \/ Document!CallerEnds(role) PROVE DocumentInv'
<1>1. UNCHANGED <<facade, call, link, exports>>
  BY DEF Document!Bind, Document!CallerEnds
<1>2. authority' \in [peer : [Document!Roles -> {"none", "bound", "ended"}], initial : SUBSET Exported]
  <2>1. authority \in [peer : [Document!Roles -> {"none", "bound", "ended"}], initial : SUBSET Exported]
    BY DEF DocumentInv, DocumentTypes
  <2>2. CASE Document!Bind(role)
    <3>1. PICK shown \in SUBSET Exported :
            authority' = [peer |-> [authority.peer EXCEPT ![role] = "bound"], initial |-> shown]
      BY <2>1, <2>2 DEF Document!Bind
    <3>2. QED
      BY <2>1, <3>1
  <2>3. CASE Document!CallerEnds(role)
    BY <2>1, <2>3 DEF Document!CallerEnds
  <2>4. QED
    BY <2>2, <2>3
<1>3. DocumentTypes'
  BY <1>1, <1>2 DEF DocumentInv, DocumentTypes
<1>4. QED
  BY <1>1, <1>3, DocumentAlone DEF DocumentInv

\* The facade is started.
LEMMA DocumentStarts == ASSUME DocumentInv, Document!Start PROVE DocumentInv'
<1>1. /\ ~facade.started /\ facade' \in {Document!Opened, Document!Closed} /\ UNCHANGED <<authority, call, link, exports>>
      /\ DocumentTypes /\ Waiting /\ Carried /\ Owned /\ link.asked = {}
  BY DEF Document!Start, DocumentInv, Waiting
<1>2. /\ facade' \in [open : BOOLEAN, started : BOOLEAN, documents : [Docs -> {"none", "shared", "unique"}],
                      pending : SUBSET Document!Calls, calls : SUBSET Document!Calls]
      /\ facade'.started /\ facade'.pending = {} /\ facade'.calls = {} /\ \A d \in Docs : facade'.documents[d] = "none"
  <2>1. PICK o \in BOOLEAN : facade' = [open |-> o, started |-> TRUE, documents |-> [d \in Docs |-> "none"],
                                       pending |-> {}, calls |-> {}]
    BY <1>1 DEF Document!Opened, Document!Closed, Document!Unopened
  <2>2. QED
    BY <2>1
<1>3. DocumentTypes'
  BY <1>1, <1>2 DEF DocumentTypes
<1>4. Waiting' /\ Carried'
  BY <1>1, <1>2 DEF Waiting, Carried, Answers, Document!Op
<1>5. Document!Granted' = {} /\ Document!Promised' = {}
  BY <1>2 DEF Document!Granted, Document!Promised
<1>6. Room'
  BY <1>5, DocumentsAssumption, FS_EmptySet DEF Room
<1>7. Owned'
  BY <1>1, <1>2 DEF Owned, Unmade, Claims, Document!Op
<1>8. QED
  BY <1>3, <1>4, <1>6, <1>7 DEF DocumentInv

\* A call is refused.
LEMMA DocumentRefuses ==
  ASSUME DocumentInv, NEW c \in Document!Calls, Document!Op(c) = Document!Nothing, Document!Refused(c) PROVE DocumentInv'
<1>1. /\ UNCHANGED <<authority, facade, link, exports>> /\ call' = [call EXCEPT ![c] = Document!Answered(c)]
      /\ DocumentTypes /\ Waiting /\ Carried /\ Owned /\ Room
  BY DEF Document!Refused, DocumentInv
<1>2. call[c].answers = 0 /\ Document!Answered(c) = [op |-> Document!Done, answers |-> 1]
  BY <1>1 DEF Waiting, Document!Answered
<1>3. /\ call' \in [Document!Calls -> [op : Operation \cup {Document!Nothing, Document!Done}, answers : 0..1]]
      /\ Document!Op(c)' = Document!Done /\ call'[c].answers = 1
      /\ \A b \in Document!Calls : b # c => Document!Op(b)' = Document!Op(b) /\ call'[b].answers = call[b].answers
  BY <1>1, <1>2 DEF DocumentTypes, Document!Op
<1>4. /\ Document!Done # Document!Nothing /\ Document!Done \notin Operation /\ Document!Nothing \notin Operation
  BY OperationFacts DEF Document!Done, Document!Nothing
<1>5. c \notin link.asked
  BY <1>1, <1>4 DEF Waiting
<1>6. DocumentTypes'
  BY <1>1, <1>3 DEF DocumentTypes
<1>7. Waiting'
  BY <1>1, <1>3, <1>4, <1>5 DEF Waiting
<1>8. Carried'
  <2>1. \A i \in DOMAIN link.out : link.out[i].call \in Document!Calls
    BY <1>1, LinkFacts
  <2>2. \A i \in DOMAIN link.back : link.back[i].call \in Document!Calls
    BY <1>1, LinkFacts
  <2>3. \A i \in DOMAIN link.back : Answers(link.back[i])'
    BY <1>1, <1>3, <1>4, <1>5, <2>2 DEF Carried, Answers
  <2>4. QED
    BY <1>1, <1>3, <1>4, <1>5, <2>1, <2>3 DEF Carried
<1>9. Room'
  <2>1. \A b \in facade.pending : b \in Document!Calls /\ Document!Op(b)' = Document!Op(b)
    BY <1>1, <1>3, <1>5 DEF Waiting, DocumentTypes
  <2>2. Document!Promised' = Document!Promised /\ Document!Granted' = Document!Granted
    BY <1>1, <2>1 DEF Document!Promised, Document!Granted
  <2>3. QED
    BY <1>1, <2>2 DEF Room
<1>10. Owned'
  <2>1. \A i \in DOMAIN link.back : Claims(link.back[i])' => Claims(link.back[i])
    BY <1>1, <1>3, <1>5 DEF Claims, DocumentTypes, Answer
  <2>2. QED
    BY <1>1, <2>1 DEF Owned, Unmade
<1>11. QED
  BY <1>6, <1>7, <1>8, <1>9, <1>10 DEF DocumentInv

\* A call is taken up within the limits.
LEMMA DocumentCalls ==
  ASSUME DocumentInv, NEW c \in Document!Calls, NEW role \in Document!Roles, NEW op \in Operation,
         Document!Op(c) = Document!Nothing, Document!Call(c, role, op)
  PROVE  DocumentInv'
<1>1. /\ UNCHANGED <<authority, exports>> /\ call' = [call EXCEPT ![c].op = op]
      /\ facade' = [facade EXCEPT !.pending = @ \cup {c}, !.calls = @ \cup {c}]
      /\ link' = [link EXCEPT !.asked = @ \cup {c}, !.out = Append(@, [call |-> c, op |-> op])]
      /\ facade.open /\ Document!WithinLimit(op)
      /\ DocumentTypes /\ Waiting /\ Carried /\ Owned /\ Room
  BY DEF Document!Call, Document!Forwarded, Document!Admitted, Document!Grantable, DocumentInv
<1>2. /\ call' \in [Document!Calls -> [op : Operation \cup {Document!Nothing, Document!Done}, answers : 0..1]]
      /\ Document!Op(c)' = op /\ call'[c].answers = call[c].answers
      /\ \A b \in Document!Calls : b # c => Document!Op(b)' = Document!Op(b) /\ call'[b].answers = call[b].answers
  <2>1. call \in [Document!Calls -> [op : Operation \cup {Document!Nothing, Document!Done}, answers : 0..1]]
    BY <1>1 DEF DocumentTypes
  <2>2. call' = [call EXCEPT ![c] = [@ EXCEPT !.op = op]]
    BY <1>1
  <2>3. /\ call'[c] = [call[c] EXCEPT !.op = op] /\ \A b \in Document!Calls : b # c => call'[b] = call[b]
        /\ call' \in [Document!Calls -> [op : Operation \cup {Document!Nothing, Document!Done}, answers : 0..1]]
    BY <2>1, <2>2
  <2>4. call'[c].op = op /\ call'[c].answers = call[c].answers
    BY <2>1, <2>3
  <2>5. QED
    BY <2>3, <2>4 DEF Document!Op
<1>3. /\ facade'.pending = facade.pending \cup {c} /\ facade'.calls = facade.calls \cup {c}
      /\ facade'.open = facade.open /\ facade'.started = facade.started /\ facade'.documents = facade.documents
      /\ facade' \in [open : BOOLEAN, started : BOOLEAN, documents : [Docs -> {"none", "shared", "unique"}],
                      pending : SUBSET Document!Calls, calls : SUBSET Document!Calls]
  BY <1>1 DEF DocumentTypes
<1>4. PICK e : e = [call |-> c, op |-> op]
  OBVIOUS
<1>5. e \in Sending /\ e.call = c /\ e.op = op
  BY <1>4 DEF Sending
<1>6. /\ link'.asked = link.asked \cup {c} /\ link'.out = Append(link.out, e) /\ link'.back = link.back
      /\ link.out \in Seq(Sending) /\ link.back \in Seq(Answer)
      /\ link' \in [asked : SUBSET Document!Calls, out : Seq(Sending), back : Seq(Answer)]
  <2>1. link.out \in Seq(Sending) /\ link.back \in Seq(Answer) /\ Append(link.out, e) \in Seq(Sending)
    BY <1>1, <1>5, LinkFacts
  <2>2. link \in [asked : SUBSET Document!Calls, out : Seq(Sending), back : Seq(Answer)]
    BY <1>1 DEF DocumentTypes
  <2>3. QED
    BY <1>1, <1>4, <2>1, <2>2
<1>7. DocumentTypes'
  BY <1>1, <1>2, <1>3, <1>6 DEF DocumentTypes
<1>8. c \notin link.asked /\ op # Document!Nothing /\ op # Document!Done
  BY <1>1, OperationFacts DEF Waiting
<1>9. Waiting'
  BY <1>1, <1>2, <1>3, <1>6, <1>8 DEF Waiting, DocumentTypes
<1>10. \A i \in DOMAIN link.back : link.back[i].call \in Document!Calls /\ link.back[i].call # c
  BY <1>1, LinkFacts DEF Carried, Answers
<1>11. Carried'
  <2>1. ASSUME NEW i \in DOMAIN link'.out
        PROVE  /\ Document!Op(link.out[i].call)' # Document!Nothing
               /\ link'.out[i].call \in link'.asked => link'.out[i].op = Document!Op(link.out[i].call)'
    <3>1. i \in 1..(Len(link.out) + 1) /\ Len(link.out) \in Nat
      BY <1>6, <2>1
    <3>2. CASE i = Len(link.out) + 1
      <4>1. link'.out[i] = e
        BY <1>6, <3>2
      <4>2. QED
        BY <1>2, <1>5, <1>8, <4>1
    <3>3. CASE i # Len(link.out) + 1
      <4>1. i \in DOMAIN link.out /\ link'.out[i] = link.out[i] /\ link.out[i] \in Sending
        BY <1>6, <3>1, <3>3
      <4>2. link.out[i].call \in Document!Calls /\ link.out[i].call # c
        BY <1>1, <4>1 DEF Sending, Carried
      <4>3. QED
        BY <1>1, <1>2, <1>6, <4>1, <4>2 DEF Carried
    <3>4. QED
      BY <3>2, <3>3
  <2>2. \A i \in DOMAIN link.back : Answers(link.back[i])'
    BY <1>1, <1>2, <1>6, <1>10 DEF Carried, Answers
  <2>3. QED
    BY <1>6, <2>1, <2>2 DEF Carried
<1>12. Room'
  <2> DEFINE P == {c} \X op.files
  <2>1. \A b \in facade.pending : b \in Document!Calls /\ b # c
    BY <1>1, <1>8 DEF Waiting, DocumentTypes
  <2>2. Document!Promised' = Document!Promised \cup P /\ Document!Granted' = Document!Granted
    BY <1>2, <1>3, <2>1 DEF Document!Promised, Document!Granted
  <2>3. /\ IsFiniteSet(P) /\ Cardinality(P) = Cardinality(op.files) /\ Cardinality(op.files) \in Nat
    BY OperationFacts, Pairs
  <2>4. /\ IsFiniteSet(Document!Promised \cup P)
        /\ Cardinality(Document!Promised \cup P) <= Cardinality(Document!Promised) + Cardinality(op.files)
        /\ Cardinality(Document!Promised \cup P) \in Nat
    BY <1>1, <2>3, Joined, FS_CardinalityType DEF Room
  <2>5. /\ Cardinality(Document!Granted) \in Nat /\ Cardinality(Document!Promised) \in Nat
    BY <1>1, FS_CardinalityType DEF Room
  <2>6. Cardinality(Document!Granted) + Cardinality(Document!Promised) + Cardinality(op.files) <= MaxDocuments
    BY <1>1, Counted DEF Document!WithinLimit
  <2> HIDE DEF P
  <2>7. Cardinality(Document!Granted) + Cardinality(Document!Promised \cup P) <= MaxDocuments
    BY <2>3, <2>4, <2>5, <2>6, DocumentsAssumption
  <2>8. QED
    BY <1>1, <2>2, <2>4, <2>7 DEF Room
<1>13. Owned'
  <2>1. \A i \in DOMAIN link.back : Claims(link.back[i])' => Claims(link.back[i])
    BY <1>2, <1>6, <1>10 DEF Claims
  <2>2. QED
    BY <1>1, <1>3, <1>6, <2>1 DEF Owned, Unmade
<1>14. QED
  BY <1>7, <1>9, <1>11, <1>12, <1>13 DEF DocumentInv

\* The facade puts down what a call that waits was answered with, and forgets the call.
LEMMA DocumentCompletes ==
  ASSUME DocumentInv, NEW c \in link.asked, NEW reply \in SUBSET Docs, NEW valid \in BOOLEAN,
         Document!Completed(c, reply, valid), link'.asked = link.asked \ {c},
         valid => /\ IsFiniteSet(reply) /\ Cardinality(reply) <= Cardinality(Document!Op(c).files)
                  /\ reply # {} => Document!Op(c).method = "Add"
  PROVE  /\ Waiting' /\ Room' /\ UNCHANGED <<facade.open, facade.started, exports.file, exports.made>>
         /\ facade' \in [open : BOOLEAN, started : BOOLEAN, documents : [Docs -> {"none", "shared", "unique"}],
                         pending : SUBSET Document!Calls, calls : SUBSET Document!Calls]
         /\ call' \in [Document!Calls -> [op : Operation \cup {Document!Nothing, Document!Done}, answers : 0..1]]
         /\ exports' \in [file : [Docs -> Exported \cup {None, Removed}], made : SUBSET Docs, told : SUBSET Docs]
         /\ Document!Op(c)' = Document!Done
         /\ \A b \in Document!Calls : b # c => Document!Op(b)' = Document!Op(b)
         /\ \A d \in Docs :
              /\ d \in exports'.told => d \in exports.told \/ (d \in reply /\ valid)
              /\ facade.documents[d] = "none" /\ d \notin reply => facade'.documents[d] = "none"
              /\ facade'.documents[d] = "unique" =>
                   \/ facade.documents[d] = "unique" /\ (d \in exports'.told => d \in exports.told)
                   \/ /\ valid /\ d \in reply /\ Document!Op(c).method = "Add" /\ Document!Op(c).unique
                      /\ exports'.told = exports.told
<1> DEFINE op == Document!Op(c)
<1>1. DocumentTypes /\ Waiting /\ Room /\ c \in Document!Calls /\ c \in facade.pending /\ op \in Operation
  BY DEF DocumentInv, DocumentTypes, Waiting
<1>2. /\ op.files \in SUBSET Exported /\ IsFiniteSet(op.files) /\ Cardinality(op.files) \in Nat
      /\ op.method = "Add" => op.unique \in BOOLEAN
  BY <1>1, OperationFacts
<1>3. call[c].answers = 0 /\ call' = [call EXCEPT ![c] = [op |-> Document!Done, answers |-> 1]]
  <2>1. call[c].answers = 0
    BY <1>1 DEF Waiting
  <2>2. call' = [call EXCEPT ![c] = Document!Answered(c)]
    BY DEF Document!Completed
  <2>3. Document!Answered(c) = [op |-> Document!Done, answers |-> 1]
    BY <2>1 DEF Document!Answered
  <2>4. QED
    BY <2>1, <2>2, <2>3
<1>4. /\ call' \in [Document!Calls -> [op : Operation \cup {Document!Nothing, Document!Done}, answers : 0..1]]
      /\ Document!Op(c)' = Document!Done /\ call'[c].answers = 1
      /\ \A b \in Document!Calls : b # c => Document!Op(b)' = Document!Op(b) /\ call'[b].answers = call[b].answers
  BY <1>1, <1>3 DEF DocumentTypes, Document!Op
<1>5. PICK documents \in [Docs -> {"none", "shared", "unique"}] :
        documents = IF valid THEN Document!Recorded(op, reply) ELSE facade.documents
  <2>1. facade.documents \in [Docs -> {"none", "shared", "unique"}]
    BY <1>1 DEF DocumentTypes
  <2>2. Document!Recorded(op, reply) \in [Docs -> {"none", "shared", "unique"}]
    BY <2>1 DEF Document!Recorded
  <2>3. QED
    BY <2>1, <2>2
<1>6. facade' = [facade EXCEPT !.pending = @ \ {c}, !.calls = @ \ {c}, !.documents = documents]
  <2>1. facade = [facade EXCEPT !.documents = facade.documents]
    BY <1>1 DEF DocumentTypes
  <2>2. QED
    BY <1>1, <1>5, <2>1 DEF Document!Completed, Document!Settled, DocumentTypes
<1>7. /\ facade'.pending = facade.pending \ {c} /\ facade'.calls = facade.calls \ {c}
      /\ facade'.open = facade.open /\ facade'.started = facade.started /\ facade'.documents = documents
      /\ facade' \in [open : BOOLEAN, started : BOOLEAN, documents : [Docs -> {"none", "shared", "unique"}],
                      pending : SUBSET Document!Calls, calls : SUBSET Document!Calls]
  BY <1>1, <1>6 DEF DocumentTypes
<1>8. exports' = IF valid /\ op.method = "Add" /\ ~op.unique THEN [exports EXCEPT !.told = @ \cup reply] ELSE exports
  BY DEF Document!Completed
<1>9. /\ exports' \in [file : [Docs -> Exported \cup {None, Removed}], made : SUBSET Docs, told : SUBSET Docs]
      /\ exports'.file = exports.file /\ exports'.made = exports.made
      /\ exports'.told = IF valid /\ op.method = "Add" /\ ~op.unique THEN exports.told \cup reply ELSE exports.told
  BY <1>1, <1>8 DEF DocumentTypes
<1>10. Document!Nothing # Document!Done /\ Document!Done \notin Operation
  BY OperationFacts DEF Document!Nothing, Document!Done
<1>11. Waiting'
  BY <1>1, <1>4, <1>7, <1>10 DEF Waiting, DocumentTypes
<1>12. ASSUME NEW d \in Docs
       PROVE  /\ facade.documents[d] = "none" /\ d \notin reply => documents[d] = "none"
              /\ documents[d] = "unique" =>
                   \/ facade.documents[d] = "unique" /\ (valid => d \notin reply)
                   \/ valid /\ d \in reply /\ op.unique
  <2>1. CASE ~valid
    BY <1>5, <2>1
  <2>2. CASE valid
    <3>1. documents[d] = CASE op.method = "Delete" /\ d = op.document -> "none"
                           [] d \in reply -> IF op.unique /\ facade.documents[d] = "none" THEN "unique" ELSE "shared"
                           [] OTHER -> facade.documents[d]
      BY <1>5, <2>2 DEF Document!Recorded
    <3>2. QED
      BY <2>2, <3>1
  <2>3. QED
    BY <2>1, <2>2
<1>13. ASSUME NEW d \in Docs
       PROVE  /\ d \in exports'.told => d \in exports.told \/ (d \in reply /\ valid)
              /\ facade.documents[d] = "none" /\ d \notin reply => facade'.documents[d] = "none"
              /\ facade'.documents[d] = "unique" =>
                   \/ facade.documents[d] = "unique" /\ (d \in exports'.told => d \in exports.told)
                   \/ valid /\ d \in reply /\ op.method = "Add" /\ op.unique /\ exports'.told = exports.told
  <2>1. d \in exports'.told => d \in exports.told \/ (d \in reply /\ valid)
    BY <1>9
  <2>2. valid /\ d \in reply => op.method = "Add"
    OBVIOUS
  <2>3. QED
    BY <1>7, <1>9, <1>12, <2>1, <2>2
<1>14. Room'
  <2> DEFINE P == {c} \X op.files
             G == Document!Granted
             Q == Document!Promised'
  <2>1. \A b \in facade'.pending : b \in Document!Calls /\ b # c /\ b \in facade.pending /\ Document!Op(b)' = Document!Op(b)
    BY <1>1, <1>4, <1>7 DEF DocumentTypes
  <2>2. Q = UNION {{b} \X Document!Op(b).files : b \in facade.pending \ {c}}
    BY <1>7, <2>1 DEF Document!Promised
  <2>3. Document!Promised = Q \cup P /\ Q \cap P = {}
    BY <1>1, <2>2 DEF Document!Promised
  <2>4. IsFiniteSet(P) /\ Cardinality(P) = Cardinality(op.files)
    BY <1>2, Pairs
  <2>5. IsFiniteSet(G) /\ IsFiniteSet(Document!Promised)
    BY <1>1 DEF Room
  <2>6. IsFiniteSet(Q)
    BY <2>3, <2>5, FS_Subset
  <2> HIDE DEF P, Q
  <2>7. Cardinality(Document!Promised) = Cardinality(Q) + Cardinality(op.files)
    BY <2>3, <2>4, <2>6, Joined
  <2>8. PICK R \in SUBSET Docs : R = IF valid THEN reply ELSE {}
    OBVIOUS
  <2>9. IsFiniteSet(R) /\ Cardinality(R) <= Cardinality(op.files) /\ Cardinality(R) \in Nat
    BY <1>2, <2>8, FS_EmptySet, FS_CardinalityType
  <2>10. Document!Granted' \subseteq G \cup R
    <3>1. ASSUME NEW d \in Docs, documents[d] # "none", facade.documents[d] = "none" PROVE d \in R
      BY <1>5, <1>12, <2>8, <3>1
    <3>2. QED
      BY <1>7, <3>1 DEF Document!Granted
  <2> HIDE DEF G
  <2>11. IsFiniteSet(G \cup R) /\ Cardinality(G \cup R) <= Cardinality(G) + Cardinality(R)
    BY <2>5, <2>9, Joined
  <2>12. IsFiniteSet(Document!Granted') /\ Cardinality(Document!Granted') <= Cardinality(G \cup R)
    BY <2>10, <2>11, FS_Subset
  <2>13. /\ Cardinality(G) \in Nat /\ Cardinality(Q) \in Nat /\ Cardinality(G \cup R) \in Nat
         /\ Cardinality(Document!Granted') \in Nat
    BY <2>5, <2>6, <2>11, <2>12, FS_CardinalityType
  <2>14. Cardinality(G) + Cardinality(Document!Promised) <= MaxDocuments
    BY <1>1 DEF Room, G
  <2>15. Cardinality(Document!Granted') + Cardinality(Q) <= MaxDocuments
    BY <1>2, <2>7, <2>9, <2>11, <2>12, <2>13, <2>14, DocumentsAssumption
  <2>16. QED
    BY <2>6, <2>12, <2>15 DEF Room, Q
<1>15. QED
  BY <1>4, <1>7, <1>9, <1>11, <1>13, <1>14

\* A call whose time is up is answered by itself.
LEMMA DocumentTimesOut ==
  ASSUME DocumentInv, NEW c \in Document!Calls, Document!Timeout(c) PROVE DocumentInv'
<1>1. /\ c \in link.asked /\ link' = [link EXCEPT !.asked = @ \ {c}] /\ Document!Completed(c, {}, FALSE)
      /\ UNCHANGED authority /\ DocumentTypes /\ Carried /\ Owned
  BY DEF Document!Timeout, DocumentInv
<1>2. /\ link'.asked = link.asked \ {c} /\ link'.out = link.out /\ link'.back = link.back
      /\ link' \in [asked : SUBSET Document!Calls, out : Seq(Sending), back : Seq(Answer)]
  <2>1. link \in [asked : SUBSET Document!Calls, out : Seq(Sending), back : Seq(Answer)]
    BY <1>1 DEF DocumentTypes
  <2>2. QED
    BY <1>1, <2>1
<1>3. /\ Waiting' /\ Room' /\ UNCHANGED <<facade.open, facade.started, exports.file, exports.made>>
      /\ facade' \in [open : BOOLEAN, started : BOOLEAN, documents : [Docs -> {"none", "shared", "unique"}],
                      pending : SUBSET Document!Calls, calls : SUBSET Document!Calls]
      /\ call' \in [Document!Calls -> [op : Operation \cup {Document!Nothing, Document!Done}, answers : 0..1]]
      /\ exports' \in [file : [Docs -> Exported \cup {None, Removed}], made : SUBSET Docs, told : SUBSET Docs]
      /\ Document!Op(c)' = Document!Done
      /\ \A b \in Document!Calls : b # c => Document!Op(b)' = Document!Op(b)
      /\ \A d \in Docs : /\ d \in exports'.told => d \in exports.told
                         /\ facade.documents[d] = "none" => facade'.documents[d] = "none"
                         /\ facade'.documents[d] = "unique" => facade.documents[d] = "unique"
  <2>1. PICK reply \in SUBSET Docs, valid \in BOOLEAN : reply = {} /\ valid = FALSE
    OBVIOUS
  <2>2. Document!Completed(c, reply, valid)
    BY <1>1, <2>1
  <2>3. /\ Waiting' /\ Room' /\ UNCHANGED <<facade.open, facade.started, exports.file, exports.made>>
        /\ facade' \in [open : BOOLEAN, started : BOOLEAN, documents : [Docs -> {"none", "shared", "unique"}],
                        pending : SUBSET Document!Calls, calls : SUBSET Document!Calls]
        /\ call' \in [Document!Calls -> [op : Operation \cup {Document!Nothing, Document!Done}, answers : 0..1]]
        /\ exports' \in [file : [Docs -> Exported \cup {None, Removed}], made : SUBSET Docs, told : SUBSET Docs]
        /\ Document!Op(c)' = Document!Done
        /\ \A b \in Document!Calls : b # c => Document!Op(b)' = Document!Op(b)
    BY <1>1, <1>2, <2>1, <2>2, DocumentCompletes
  <2>4. ASSUME NEW d \in Docs
        PROVE  /\ d \in exports'.told => d \in exports.told
               /\ facade.documents[d] = "none" => facade'.documents[d] = "none"
               /\ facade'.documents[d] = "unique" => facade.documents[d] = "unique"
    <3>1. /\ d \in exports'.told => d \in exports.told \/ (d \in reply /\ valid)
          /\ facade.documents[d] = "none" /\ d \notin reply => facade'.documents[d] = "none"
          /\ facade'.documents[d] = "unique" => facade.documents[d] = "unique" \/ valid
      BY <1>1, <1>2, <2>1, <2>2, DocumentCompletes
    <3>2. QED
      BY <2>1, <3>1
  <2>5. QED
    BY <2>3, <2>4
<1>4. DocumentTypes'
  BY <1>1, <1>2, <1>3 DEF DocumentTypes
<1>5. Document!Done # Document!Nothing
  BY DEF Document!Done, Document!Nothing
<1>6. Carried'
  BY <1>1, <1>2, <1>3, <1>5, LinkFacts DEF Carried, Answers
<1>7. Owned'
  <2>1. \A i \in DOMAIN link.back : Claims(link.back[i])' => Claims(link.back[i])
    BY <1>1, <1>2, <1>3, LinkFacts DEF Claims
  <2>2. \A i \in DOMAIN link.back : link.back[i].documents \in SUBSET Docs
    BY <1>1, LinkFacts
  <2>3. \A d \in Docs : Unmade(d)'
    BY <1>1, <1>3 DEF Owned, Unmade
  <2>4. \A d \in Docs : facade'.documents[d] = "unique" => d \in exports'.made \ exports'.told
    BY <1>1, <1>3 DEF Owned
  <2>5. \A i \in DOMAIN link'.back : \A d \in link'.back[i].documents : exports'.file[d] # None
    BY <1>1, <1>2, <1>3 DEF Owned
  <2>6. ASSUME NEW i \in DOMAIN link'.back, Claims(link.back[i])', NEW d \in link'.back[i].documents
        PROVE  /\ d \in exports'.made \ exports'.told /\ facade'.documents[d] = "none"
               /\ \A j \in 1..(i - 1) : d \notin link'.back[j].documents
    BY <1>1, <1>2, <1>3, <2>1, <2>2, <2>6 DEF Owned
  <2>7. QED
    BY <2>3, <2>4, <2>5, <2>6 DEF Owned
<1>8. QED
  BY <1>3, <1>4, <1>6, <1>7 DEF DocumentInv

\* A sequence without its first element
LEMMA Rest ==
  ASSUME NEW S, NEW s \in Seq(S), s # <<>>
  PROVE  /\ Tail(s) \in Seq(S) /\ 1 \in DOMAIN s /\ Head(s) = s[1]
         /\ \A i \in DOMAIN Tail(s) : i + 1 \in DOMAIN s /\ Tail(s)[i] = s[i + 1] /\ i \in Nat /\ i + 1 # 1
         /\ \A i \in DOMAIN Tail(s) : \A j \in 1..(i - 1) : j \in DOMAIN Tail(s) /\ j + 1 \in 1..((i + 1) - 1)
<1>1. Len(s) \in Nat /\ DOMAIN s = 1..Len(s) /\ Len(s) >= 1 /\ 1 \in DOMAIN s /\ Head(s) = s[1]
  OBVIOUS
<1>2. Tail(s) \in Seq(S) /\ Len(Tail(s)) = Len(s) - 1 /\ \A i \in 1..(Len(s) - 1) : Tail(s)[i] = s[i + 1]
  OBVIOUS
<1>3. DOMAIN Tail(s) = 1..(Len(s) - 1)
  BY <1>1, <1>2
<1>4. QED
  BY <1>1, <1>2, <1>3

\* The next reply changes the documents only as the call that it answers says, so that what
\* is left to answer finds its documents as they were.
LEMMA DocumentReplies == ASSUME DocumentInv, Document!Reply PROVE DocumentInv'
<1>0. PICK a, c : a = Head(link.back) /\ c = a.call
  OBVIOUS
<1>1. /\ link.back # <<>> /\ UNCHANGED authority /\ DocumentTypes /\ Waiting /\ Carried /\ Owned /\ Room
      /\ c \in link.asked => /\ link' = [link EXCEPT !.back = Tail(@), !.asked = @ \ {c}]
                             /\ Document!Completed(c, a.documents, a.valid)
      /\ c \notin link.asked => link' = [link EXCEPT !.back = Tail(@)] /\ UNCHANGED <<facade, call, exports>>
  BY <1>0 DEF Document!Reply, DocumentInv
<1>2. /\ Tail(link.back) \in Seq(Answer) /\ 1 \in DOMAIN link.back /\ a = link.back[1]
      /\ \A i \in DOMAIN Tail(link.back) :
           /\ i + 1 \in DOMAIN link.back /\ Tail(link.back)[i] = link.back[i + 1] /\ i + 1 # 1
           /\ 1 \in 1..((i + 1) - 1)
      /\ \A i \in DOMAIN Tail(link.back) : \A j \in 1..(i - 1) : j \in DOMAIN Tail(link.back) /\ j + 1 \in 1..((i + 1) - 1)
  <2>1. link.back \in Seq(Answer)
    BY <1>1, LinkFacts
  <2>2. \A i \in DOMAIN Tail(link.back) : 1 \in 1..((i + 1) - 1)
    BY <1>1, <2>1
  <2>3. QED
    BY <1>0, <1>1, <2>1, <2>2, Rest
<1>3. c \in Document!Calls /\ a.documents \in SUBSET Docs /\ a.valid \in BOOLEAN
  BY <1>0, <1>1, <1>2, LinkFacts
<1>4. /\ link'.asked = link.asked \ {c} /\ link'.out = link.out /\ link'.back = Tail(link.back)
      /\ link' \in [asked : SUBSET Document!Calls, out : Seq(Sending), back : Seq(Answer)]
  <2>1. link \in [asked : SUBSET Document!Calls, out : Seq(Sending), back : Seq(Answer)]
    BY <1>1 DEF DocumentTypes
  <2>2. CASE c \in link.asked
    BY <1>1, <1>2, <2>1, <2>2
  <2>3. CASE c \notin link.asked
    BY <1>1, <1>2, <2>1, <2>3
  <2>4. QED
    BY <2>2, <2>3
<1>5. ASSUME c \in link.asked
      PROVE  /\ IsFiniteSet(a.documents) /\ Cardinality(a.documents) <= Cardinality(Document!Op(c).files)
             /\ a.documents # {} => Document!Op(c).method = "Add"
  BY <1>0, <1>1, <1>2, <1>5 DEF Carried, Answers
<1>6. ASSUME c \in link.asked, NEW d \in Docs
      PROVE  /\ d \in exports'.told => d \in exports.told \/ (d \in a.documents /\ a.valid)
             /\ facade.documents[d] = "none" /\ d \notin a.documents => facade'.documents[d] = "none"
             /\ facade'.documents[d] = "unique" =>
                  \/ facade.documents[d] = "unique" /\ (d \in exports'.told => d \in exports.told)
                  \/ /\ a.valid /\ d \in a.documents /\ Document!Op(c).method = "Add" /\ Document!Op(c).unique
                     /\ exports'.told = exports.told
  BY <1>1, <1>3, <1>4, <1>5, <1>6, DocumentCompletes
<1>7. /\ Waiting' /\ Room' /\ exports'.file = exports.file /\ exports'.made = exports.made /\ DocumentTypes'
      /\ \A b \in Document!Calls : b # c => Document!Op(b)' = Document!Op(b)
      /\ Document!Op(c)' # Document!Nothing
  <2>1. CASE c \in link.asked
    <3>1. /\ Waiting' /\ Room' /\ UNCHANGED <<facade.open, facade.started, exports.file, exports.made>>
          /\ facade' \in [open : BOOLEAN, started : BOOLEAN, documents : [Docs -> {"none", "shared", "unique"}],
                          pending : SUBSET Document!Calls, calls : SUBSET Document!Calls]
          /\ call' \in [Document!Calls -> [op : Operation \cup {Document!Nothing, Document!Done}, answers : 0..1]]
          /\ exports' \in [file : [Docs -> Exported \cup {None, Removed}], made : SUBSET Docs, told : SUBSET Docs]
          /\ Document!Op(c)' = Document!Done
          /\ \A b \in Document!Calls : b # c => Document!Op(b)' = Document!Op(b)
      BY <1>1, <1>3, <1>4, <1>5, <2>1, DocumentCompletes
    <3>2. Document!Done # Document!Nothing
      BY DEF Document!Done, Document!Nothing
    <3>3. QED
      BY <1>1, <1>4, <3>1, <3>2 DEF DocumentTypes
  <2>2. CASE c \notin link.asked
    <3>1. UNCHANGED <<facade, call, exports, authority>> /\ link'.asked = link.asked
      BY <1>1, <1>4, <2>2
    <3>2. Waiting' /\ Room' /\ DocumentTypes'
      <4>1. Waiting'
        BY <1>1, <3>1 DEF Waiting, Document!Op
      <4>2. Document!Granted' = Document!Granted /\ Document!Promised' = Document!Promised
        BY <3>1 DEF Document!Op, Document!Granted, Document!Promised
      <4>3. Room'
        BY <1>1, <4>2 DEF Room
      <4>4. DocumentTypes'
        BY <1>1, <1>4, <3>1 DEF DocumentTypes
      <4>5. QED
        BY <4>1, <4>3, <4>4
    <3>3. Document!Op(c) # Document!Nothing
      BY <1>0, <1>1, <1>2 DEF Carried, Answers
    <3>4. QED
      BY <3>1, <3>2, <3>3 DEF Document!Op
  <2>3. QED
    BY <2>1, <2>2
<1>8. ASSUME NEW i \in DOMAIN link'.back
      PROVE  /\ i + 1 \in DOMAIN link.back /\ link'.back[i] = link.back[i + 1] /\ 1 \in 1..((i + 1) - 1)
             /\ link'.back[i].call \in Document!Calls /\ link'.back[i].documents \in SUBSET Docs
  <2>1. i + 1 \in DOMAIN link.back /\ link'.back[i] = link.back[i + 1] /\ 1 \in 1..((i + 1) - 1)
    BY <1>2, <1>4
  <2>2. QED
    BY <1>1, <2>1, LinkFacts
<1>9. Carried'
  <2>1. \A i \in DOMAIN link.out : link.out[i].call \in Document!Calls
    BY <1>1, LinkFacts
  <2>2. ASSUME NEW i \in DOMAIN link'.back PROVE Answers(link.back[i])'
    <3>1. Answers(link'.back[i])
      BY <1>1, <1>8 DEF Carried
    <3>2. QED
      BY <1>4, <1>7, <1>8, <3>1 DEF Answers
  <2>3. QED
    BY <1>1, <1>4, <1>7, <2>1, <2>2 DEF Carried
<1>10. Owned'
  <2>1. ASSUME NEW d \in Docs, facade'.documents[d] = "unique" PROVE d \in exports'.made \ exports'.told
    <3>1. CASE c \notin link.asked
      BY <1>1, <2>1, <3>1 DEF Owned
    <3>2. CASE c \in link.asked /\ facade.documents[d] = "unique" /\ (d \in exports'.told => d \in exports.told)
      BY <1>1, <1>7, <3>2 DEF Owned
    <3>3. CASE /\ c \in link.asked /\ a.valid /\ d \in a.documents /\ Document!Op(c).method = "Add" /\ Document!Op(c).unique
               /\ exports'.told = exports.told
      <4>1. Claims(link.back[1])
        BY <1>0, <1>2, <3>3 DEF Claims
      <4>2. QED
        BY <1>1, <1>2, <1>7, <3>3, <4>1 DEF Owned
    <3>4. QED
      BY <1>6, <2>1, <3>1, <3>2, <3>3
  <2>2. ASSUME NEW d \in Docs PROVE Unmade(d)'
    <3>1. CASE c \notin link.asked
      BY <1>1, <3>1 DEF Owned, Unmade
    <3>2. CASE c \in link.asked
      <4>1. SUFFICES ASSUME exports.file[d] = None
                     PROVE  d \notin exports'.made \cup exports'.told /\ facade'.documents[d] = "none"
        BY <1>7 DEF Unmade
      <4>2. d \notin a.documents /\ d \notin exports.made \cup exports.told /\ facade.documents[d] = "none"
        BY <1>1, <1>2, <4>1 DEF Owned, Unmade
      <4>3. QED
        BY <1>6, <1>7, <3>2, <4>2
    <3>3. QED
      BY <3>1, <3>2
  <2>3. \A i \in DOMAIN link'.back : \A d \in link'.back[i].documents : exports'.file[d] # None
    BY <1>1, <1>7, <1>8 DEF Owned
  <2>4. ASSUME NEW i \in DOMAIN link'.back, Claims(link.back[i])', NEW d \in link'.back[i].documents
        PROVE  /\ d \in exports'.made \ exports'.told /\ facade'.documents[d] = "none"
               /\ \A j \in 1..(i - 1) : d \notin link'.back[j].documents
    <3>1. link'.back[i].call # c /\ Claims(link.back[i + 1])
      BY <1>4, <1>7, <1>8, <2>4 DEF Claims
    <3>2. /\ d \in exports.made \ exports.told /\ facade.documents[d] = "none" /\ d \in Docs
          /\ \A j \in 1..((i + 1) - 1) : d \notin link.back[j].documents
      BY <1>1, <1>8, <2>4, <3>1 DEF Owned
    <3>3. d \notin a.documents
      BY <1>2, <1>8, <3>2
    <3>4. d \in exports'.made \ exports'.told /\ facade'.documents[d] = "none"
      BY <1>1, <1>6, <1>7, <3>2, <3>3
    <3>5. ASSUME NEW j \in 1..(i - 1) PROVE d \notin link'.back[j].documents
      <4>1. i \in DOMAIN Tail(link.back)
        BY <1>4
      <4>2. j \in DOMAIN Tail(link.back) /\ j + 1 \in 1..((i + 1) - 1)
        BY <1>2, <4>1
      <4>3. link'.back[j] = link.back[j + 1]
        BY <1>2, <1>4, <4>2
      <4>4. QED
        BY <3>2, <4>2, <4>3
    <3>6. QED
      BY <3>4, <3>5
  <2>5. QED
    BY <2>1, <2>2, <2>3, <2>4 DEF Owned
<1>11. QED
  BY <1>7, <1>9, <1>10 DEF DocumentInv

\* The facade is closed and every call answered.
LEMMA DocumentCloses == ASSUME DocumentInv, Document!Close PROVE DocumentInv'
<1>1. /\ facade.open /\ facade' = Document!Closed /\ link' = [asked |-> {}, out |-> <<>>, back |-> <<>>]
      /\ call' = [c \in Document!Calls |-> IF c \in facade.calls THEN Document!Answered(c) ELSE call[c]]
      /\ authority' = Document!Nobody /\ exports' = exports
      /\ DocumentTypes /\ Waiting /\ Carried /\ Owned /\ Room
  BY DEF Document!Close, DocumentInv
<1>2. /\ facade' \in [open : BOOLEAN, started : BOOLEAN, documents : [Docs -> {"none", "shared", "unique"}],
                      pending : SUBSET Document!Calls, calls : SUBSET Document!Calls]
      /\ facade'.started /\ ~facade'.open /\ facade'.pending = {} /\ facade'.calls = {}
      /\ \A d \in Docs : facade'.documents[d] = "none"
  <2>1. facade' = [open |-> FALSE, started |-> TRUE, documents |-> [d \in Docs |-> "none"], pending |-> {}, calls |-> {}]
    BY <1>1 DEF Document!Closed, Document!Unopened
  <2>2. QED
    BY <2>1
<1>3. /\ link'.asked = {} /\ link'.out = <<>> /\ link'.back = <<>> /\ DOMAIN link'.out = {} /\ DOMAIN link'.back = {}
      /\ link' \in [asked : SUBSET Document!Calls, out : Seq(Sending), back : Seq(Answer)]
  BY <1>1
<1>4. ASSUME NEW c \in Document!Calls
      PROVE  /\ call'[c] \in [op : Operation \cup {Document!Nothing, Document!Done}, answers : 0..1]
             /\ c \in facade.calls => call'[c].op = Document!Done /\ call'[c].answers = 1
             /\ c \notin facade.calls => call'[c] = call[c]
  <2>1. c \in facade.calls => call[c].answers = 0
    BY <1>1 DEF Waiting
  <2>2. c \in facade.calls => call'[c] = [op |-> Document!Done, answers |-> 1]
    BY <1>1, <2>1 DEF Document!Answered
  <2>3. QED
    BY <1>1, <2>2 DEF DocumentTypes
<1>5. authority' \in [peer : [Document!Roles -> {"none", "bound", "ended"}], initial : SUBSET Exported]
  BY <1>1 DEF Document!Nobody
<1>6. DocumentTypes'
  <2>1. call' \in [Document!Calls -> [op : Operation \cup {Document!Nothing, Document!Done}, answers : 0..1]]
    BY <1>1, <1>4
  <2>2. QED
    BY <1>1, <1>2, <1>3, <1>5, <2>1 DEF DocumentTypes
<1>7. Document!Done # Document!Nothing /\ Document!Done \notin Operation /\ Document!Nothing \notin Operation
  BY OperationFacts DEF Document!Done, Document!Nothing
<1>8. Waiting'
  BY <1>1, <1>2, <1>3, <1>4, <1>7 DEF Waiting, Document!Op
<1>9. Carried' /\ Owned'
  BY <1>1, <1>2, <1>3 DEF Carried, Owned, Unmade
<1>10. Room'
  <2>1. Document!Granted' = {} /\ Document!Promised' = {}
    BY <1>2 DEF Document!Granted, Document!Promised
  <2>2. QED
    BY <2>1, DocumentsAssumption, FS_EmptySet DEF Room
<1>11. QED
  BY <1>6, <1>8, <1>9, <1>10 DEF DocumentInv

\* What the host sends is carried to the call that it was asked by.
LEMMA DocumentSends ==
  ASSUME DocumentInv, link.out # <<>>, NEW c, NEW op, c = Head(link.out).call, op = Head(link.out).op,
         NEW D \in SUBSET Docs, NEW valid \in BOOLEAN, Document!Sends(c, D, valid), UNCHANGED <<authority, facade, call>>,
         exports' \in [file : [Docs -> Exported \cup {None, Removed}], made : SUBSET Docs, told : SUBSET Docs],
         IsFiniteSet(D), Cardinality(D) <= Cardinality(op.files), D # {} => op.method = "Add",
         exports'.told = exports.told, exports.made \subseteq exports'.made,
         \A d \in Docs : exports'.file[d] = None => exports.file[d] = None /\ (d \in exports'.made => d \in exports.made),
         \A d \in D : exports'.file[d] # None,
         op.method = "Add" /\ op.unique => \A d \in D : exports.file[d] = None /\ d \in exports'.made
  PROVE  DocumentInv'
<1>1. DocumentTypes /\ Waiting /\ Carried /\ Owned /\ Room
  BY DEF DocumentInv
<1>2. /\ c \in Document!Calls /\ op \in Operation /\ Document!Op(c) # Document!Nothing
      /\ c \in link.asked => op = Document!Op(c)
      /\ Tail(link.out) \in Seq(Sending)
      /\ \A i \in DOMAIN Tail(link.out) : i + 1 \in DOMAIN link.out /\ Tail(link.out)[i] = link.out[i + 1]
  <2>1. link.out \in Seq(Sending)
    BY <1>1, LinkFacts
  <2>2. /\ Tail(link.out) \in Seq(Sending) /\ 1 \in DOMAIN link.out /\ Head(link.out) = link.out[1]
        /\ \A i \in DOMAIN Tail(link.out) : i + 1 \in DOMAIN link.out /\ Tail(link.out)[i] = link.out[i + 1]
    BY <2>1, Rest
  <2>3. QED
    BY <1>1, <2>2, LinkFacts DEF Carried
<1>3. PICK e : e = [call |-> c, documents |-> D, valid |-> valid]
  OBVIOUS
<1>4. e \in Answer /\ e.call = c /\ e.documents = D /\ e.valid = valid
  BY <1>2, <1>3 DEF Answer
<1>5. /\ link'.asked = link.asked /\ link'.out = Tail(link.out) /\ link'.back = Append(link.back, e)
      /\ link' \in [asked : SUBSET Document!Calls, out : Seq(Sending), back : Seq(Answer)]
  <2>1. link.back \in Seq(Answer) /\ Append(link.back, e) \in Seq(Answer)
    BY <1>1, <1>4, LinkFacts
  <2>2. link \in [asked : SUBSET Document!Calls, out : Seq(Sending), back : Seq(Answer)]
    BY <1>1 DEF DocumentTypes
  <2>3. link' = [link EXCEPT !.out = Tail(@), !.back = Append(@, e)]
    BY <1>3 DEF Document!Sends
  <2>4. QED
    BY <1>2, <2>1, <2>2, <2>3
<1>6. DocumentTypes'
  BY <1>1, <1>5 DEF DocumentTypes
<1>7. Waiting'
  BY <1>1, <1>5 DEF Waiting, Document!Op
<1>8. Room'
  <2>1. Document!Granted' = Document!Granted /\ Document!Promised' = Document!Promised
    BY DEF Document!Op, Document!Granted, Document!Promised
  <2>2. QED
    BY <1>1, <2>1 DEF Room
<1>9. ASSUME NEW i \in DOMAIN link'.back
      PROVE  \/ i \in DOMAIN link.back /\ link'.back[i] = link.back[i] /\ (\A j \in 1..(i - 1) : link'.back[j] = link.back[j])
             \/ link'.back[i] = e /\ \A j \in 1..(i - 1) : j \in DOMAIN link.back /\ link'.back[j] = link.back[j]
  <2>1. link.back \in Seq(Answer)
    BY <1>1, LinkFacts
  <2>2. /\ Len(link.back) \in Nat /\ DOMAIN link.back = 1..Len(link.back) /\ i \in 1..(Len(link.back) + 1)
        /\ \A j \in 1..Len(link.back) : link'.back[j] = link.back[j]
        /\ link'.back[Len(link.back) + 1] = e
    BY <1>5, <2>1
  <2>3. QED
    BY <2>2
<1>10. Carried'
  <2>1. ASSUME NEW i \in DOMAIN link'.out
        PROVE  /\ Document!Op(link.out[i].call)' # Document!Nothing
               /\ link'.out[i].call \in link'.asked => link'.out[i].op = Document!Op(link.out[i].call)'
    <3>1. i + 1 \in DOMAIN link.out /\ link'.out[i] = link.out[i + 1]
      BY <1>2, <1>5
    <3>2. QED
      BY <1>1, <1>5, <3>1 DEF Carried, Document!Op
  <2>2. \A b : Answers(b) => Answers(b)'
    BY <1>5 DEF Answers, Document!Op
  <2>3. Answers(e)
    BY <1>2, <1>4 DEF Answers
  <2>4. \A i \in DOMAIN link'.back : Answers(link'.back[i])
    BY <1>1, <1>9, <2>3 DEF Carried
  <2>5. \A i \in DOMAIN link'.back : Answers(link.back[i])'
    BY <2>2, <2>4
  <2>6. QED
    BY <2>1, <2>5 DEF Carried
<1>11. \A i \in DOMAIN link.back : link.back[i].documents \in SUBSET Docs
  BY <1>1, LinkFacts
<1>12. Owned'
  <2>1. \A d \in Docs : facade'.documents[d] = "unique" => d \in exports'.made \ exports'.told
    BY <1>1 DEF Owned
  <2>2. \A d \in Docs : Unmade(d)'
    BY <1>1 DEF Owned, Unmade
  <2>3. ASSUME NEW i \in DOMAIN link'.back, NEW d \in link'.back[i].documents PROVE exports'.file[d] # None
    BY <1>1, <1>4, <1>9, <1>11, <2>3 DEF Owned
  <2>4. ASSUME NEW i \in DOMAIN link'.back, Claims(link.back[i])', NEW d \in link'.back[i].documents
        PROVE  /\ d \in exports'.made \ exports'.told /\ facade'.documents[d] = "none"
               /\ \A j \in 1..(i - 1) : d \notin link'.back[j].documents
    <3>1. Claims(link'.back[i])
      BY <1>5, <2>4 DEF Claims, Document!Op
    <3>2. CASE i \in DOMAIN link.back /\ link'.back[i] = link.back[i] /\ (\A j \in 1..(i - 1) : link'.back[j] = link.back[j])
      <4>1. /\ d \in exports.made \ exports.told /\ facade.documents[d] = "none"
            /\ \A j \in 1..(i - 1) : d \notin link.back[j].documents
        BY <1>1, <2>4, <3>1, <3>2 DEF Owned
      <4>2. QED
        BY <3>2, <4>1
    <3>3. CASE link'.back[i] = e /\ \A j \in 1..(i - 1) : j \in DOMAIN link.back /\ link'.back[j] = link.back[j]
      <4>1. d \in D /\ d \in Docs /\ op.method = "Add" /\ op.unique
        BY <1>2, <1>4, <2>4, <3>1, <3>3 DEF Claims
      <4>2. exports.file[d] = None /\ d \in exports'.made
        BY <4>1
      <4>3. d \notin exports.told /\ facade.documents[d] = "none"
        BY <1>1, <4>1, <4>2 DEF Owned, Unmade
      <4>4. \A j \in DOMAIN link.back : d \notin link.back[j].documents
        BY <1>1, <4>2 DEF Owned
      <4>5. QED
        BY <3>3, <4>2, <4>3, <4>4
    <3>4. QED
      BY <1>9, <3>2, <3>3
  <2>5. QED
    BY <2>1, <2>2, <2>3, <2>4 DEF Owned
<1>13. QED
  BY <1>6, <1>7, <1>8, <1>10, <1>12 DEF DocumentInv

\* The host takes the next call off the link.
LEMMA DocumentHosts == ASSUME DocumentInv, Document!Host PROVE DocumentInv'
<1>1. PICK c, op : c = Head(link.out).call /\ op = Head(link.out).op
  OBVIOUS
<1>2. /\ link.out # <<>> /\ UNCHANGED <<authority, facade, call>>
      /\ \/ op.method = "Add" /\ Document!HostExports(c, op)
         \/ op.method = "Delete" /\ Document!HostRemoves(c, op)
         \/ \E valid \in BOOLEAN :
              Document!Sends(c, {}, valid /\ op.method \notin {"Add", "Delete"}) /\ UNCHANGED exports
  BY <1>1 DEF Document!Host
<1>3. op \in Operation
  <2>1. link.out \in Seq(Sending)
    BY LinkFacts DEF DocumentInv
  <2>2. 1 \in DOMAIN link.out /\ Head(link.out) = link.out[1]
    BY <1>2, <2>1, Rest
  <2>3. QED
    BY <1>1, <2>2, LinkFacts DEF DocumentInv
<1>4. /\ IsFiniteSet({}) /\ Cardinality({}) <= Cardinality(op.files) /\ {} \in SUBSET Docs
      /\ IsFiniteSet(op.files) /\ op.files \in SUBSET Exported
      /\ op.method \in {"Delete", "RevokePermissions", "Info"} => op.document \in Docs
  <2>1. IsFiniteSet(op.files) /\ op.files \in SUBSET Exported /\ Cardinality(op.files) \in Nat
    BY <1>3, OperationFacts
  <2>2. QED
    BY <1>3, <2>1, OperationFacts, FS_EmptySet
<1>5. exports \in [file : [Docs -> Exported \cup {None, Removed}], made : SUBSET Docs, told : SUBSET Docs]
  BY DEF DocumentInv, DocumentTypes
<1>6. CASE op.method = "Add" /\ Document!HostExports(c, op)
  <2>1. PICK document \in [op.files -> Docs], valid \in BOOLEAN :
          /\ \A f \in op.files : exports.file[document[f]] \in IF op.unique THEN {None} ELSE {None, f}
          /\ exports' = [exports EXCEPT
               !.file = [d \in Docs |->
                 IF \E f \in op.files : document[f] = d THEN CHOOSE f \in op.files : document[f] = d
                 ELSE exports.file[d]],
               !.made = IF op.unique THEN @ \cup {document[f] : f \in op.files} ELSE @]
          /\ Document!Sends(c, {document[f] : f \in op.files}, valid)
    BY <1>6 DEF Document!HostExports
  <2>2. PICK D \in SUBSET Docs : D = {document[f] : f \in op.files}
    OBVIOUS
  <2>3. IsFiniteSet(D) /\ Cardinality(D) <= Cardinality(op.files)
    <3>1. document \in Surjection(op.files, D)
      BY <2>2 DEF Surjection
    <3>2. QED
      BY <1>4, <3>1, FS_Surjection
  <2>4. PICK file \in [Docs -> Exported \cup {None, Removed}] :
          /\ \A d \in D : file[d] \in Exported
          /\ \A d \in Docs \ D : file[d] = exports.file[d]
          /\ file = [d \in Docs |->
                 IF \E f \in op.files : document[f] = d THEN CHOOSE f \in op.files : document[f] = d
                 ELSE exports.file[d]]
    <3> DEFINE F == [d \in Docs |-> IF \E f \in op.files : document[f] = d THEN CHOOSE f \in op.files : document[f] = d
                                    ELSE exports.file[d]]
    <3>1. \A d \in D : F[d] \in op.files
      BY <2>2
    <3>2. \A d \in Docs \ D : F[d] = exports.file[d]
      BY <2>2
    <3>3. F \in [Docs -> Exported \cup {None, Removed}]
      BY <1>4, <1>5, <3>1, <3>2
    <3>4. QED
      BY <1>4, <3>1, <3>2, <3>3
  <2>5. /\ exports'.file = file /\ exports'.told = exports.told
        /\ exports'.made = IF op.unique THEN exports.made \cup D ELSE exports.made
        /\ exports' \in [file : [Docs -> Exported \cup {None, Removed}], made : SUBSET Docs, told : SUBSET Docs]
    BY <1>5, <2>1, <2>2, <2>4
  <2>6. \A d \in D : file[d] # None
    BY <2>4, DocumentsAssumption
  <2>7. \A d \in Docs : file[d] = None => exports.file[d] = None /\ (d \in exports'.made => d \in exports.made)
    BY <2>4, <2>5, <2>6
  <2>8. ASSUME op.unique, NEW d \in D PROVE exports.file[d] = None /\ d \in exports'.made
    <3>1. PICK f \in op.files : d = document[f]
      BY <2>2
    <3>2. exports.file[d] \in {None}
      BY <2>1, <2>8, <3>1
    <3>3. exports'.made = exports.made \cup D
      BY <2>5, <2>8
    <3>4. QED
      BY <3>2, <3>3
  <2>9. Document!Sends(c, D, valid) /\ exports.made \subseteq exports'.made
    BY <2>1, <2>2, <2>5
  <2>10. QED
    BY <1>1, <1>2, <1>6, <2>3, <2>5, <2>6, <2>7, <2>8, <2>9, DocumentSends
<1>7. CASE op.method = "Delete" /\ Document!HostRemoves(c, op)
  <2>1. exports' = [exports EXCEPT !.file[op.document] = Removed] /\ Document!Sends(c, {}, TRUE) /\ op.document \in Docs
    BY <1>4, <1>7 DEF Document!HostRemoves
  <2>2. /\ exports'.told = exports.told /\ exports'.made = exports.made
        /\ exports'.file = [exports.file EXCEPT ![op.document] = Removed]
        /\ exports' \in [file : [Docs -> Exported \cup {None, Removed}], made : SUBSET Docs, told : SUBSET Docs]
    BY <1>5, <2>1
  <2>3. \A d \in Docs : exports'.file[d] = None => exports.file[d] = None
    BY <1>5, <2>1, <2>2, DocumentsAssumption
  <2>4. QED
    BY <1>1, <1>2, <1>4, <1>7, <2>1, <2>2, <2>3, DocumentSends
<1>8. CASE \E valid \in BOOLEAN :
              Document!Sends(c, {}, valid /\ op.method \notin {"Add", "Delete"}) /\ UNCHANGED exports
  <2>1. PICK valid \in BOOLEAN : Document!Sends(c, {}, valid) /\ UNCHANGED exports
    BY <1>8
  <2>2. QED
    BY <1>1, <1>2, <1>4, <1>5, <2>1, DocumentSends
<1>9. QED
  BY <1>2, <1>6, <1>7, <1>8

\* Every step keeps the invariant of the facade.
LEMMA DocumentInvHolds == ASSUME DocumentInv, [Document!Next]_documentVars PROVE DocumentInv'
<1>1. CASE UNCHANGED documentVars
  <2>1. DocumentTypes'
    BY <1>1 DEF documentVars, DocumentInv, DocumentTypes
  <2>2. QED
    BY <1>1, <2>1, DocumentAlone DEF documentVars, DocumentInv
<1>2. CASE Document!Next
  <2>1. ASSUME NEW c \in Document!Calls, Document!Op(c) = Document!Nothing,
               NEW role \in Document!Roles, NEW op \in Document!Operations, Document!Call(c, role, op)
        PROVE  DocumentInv'
    BY <2>1, DocumentCalls DEF Operation
  <2>2. QED
    BY <1>2, <2>1, DocumentBinds, DocumentStarts, DocumentRefuses, DocumentReplies, DocumentTimesOut, DocumentCloses,
       DocumentHosts DEF Document!Next
<1>3. QED
  BY <1>1, <1>2

\* It holds at the start.
LEMMA DocumentInvStarts == ASSUME Document!Init PROVE DocumentInv
<1>1. /\ authority = Document!Nobody /\ facade = Document!Unopened
      /\ call = [c \in Document!Calls |-> [op |-> Document!Nothing, answers |-> 0]]
      /\ link = [asked |-> {}, out |-> <<>>, back |-> <<>>]
      /\ \E stands \in [Docs -> Exported \cup {None}] : exports = [file |-> stands, made |-> {}, told |-> {}]
  BY DEF Document!Init
<1>2. /\ facade = [open |-> FALSE, started |-> FALSE, documents |-> [d \in Docs |-> "none"], pending |-> {}, calls |-> {}]
      /\ authority = [peer |-> [role \in Document!Roles |-> "none"], initial |-> {}]
  BY <1>1 DEF Document!Unopened, Document!Nobody
<1>3. DocumentTypes
  BY <1>1, <1>2 DEF DocumentTypes
<1>4. Document!Done # Document!Nothing /\ Document!Nothing \notin Operation
  BY OperationFacts DEF Document!Done, Document!Nothing
<1>5. Waiting
  BY <1>1, <1>2, <1>4 DEF Waiting, Document!Op
<1>6. Document!Granted = {} /\ Document!Promised = {}
  BY <1>2 DEF Document!Granted, Document!Promised
<1>7. Room
  BY <1>6, DocumentsAssumption, FS_EmptySet DEF Room
<1>8. DOMAIN link.out = {} /\ DOMAIN link.back = {}
  BY <1>1
<1>9. Carried /\ Owned
  BY <1>1, <1>2, <1>8 DEF Carried, Owned, Unmade
<1>10. QED
  BY <1>3, <1>5, <1>7, <1>9 DEF DocumentInv

\* It says that the accounts agree.
LEMMA DocumentInvAccounted == ASSUME DocumentInv PROVE Document!Accounted
<1>1. DocumentTypes /\ Waiting /\ Room
  BY DEF DocumentInv
<1>2. Document!Done # Document!Nothing /\ Document!Done \notin Operation
  BY OperationFacts DEF Document!Done, Document!Nothing
<1>3. Document!TypeOK
  BY <1>1 DEF DocumentTypes, Document!TypeOK, Document!Op, Operation
<1>4. \A c \in Document!Calls : Document!Op(c) # Document!Nothing => (call[c].answers = 0 <=> c \in facade.calls)
  <2>1. \A c \in Document!Calls : Document!Op(c) \in Operation \cup {Document!Nothing, Document!Done}
    BY <1>1 DEF DocumentTypes, Document!Op
  <2>2. QED
    BY <1>1, <1>2, <2>1 DEF Waiting
<1>5. Document!Cardinality(Document!Granted) + Document!Cardinality(Document!Promised) <= MaxDocuments
  BY <1>1, Counted DEF Room
<1>6. QED
  BY <1>1, <1>3, <1>4, <1>5 DEF Waiting, Document!Accounted

\* Only a call that is taken up begins to wait, and what it removes was checked as it is.
LEMMA DocumentOwn ==
  ASSUME DocumentInv, [Document!Next]_documentVars, NEW c \in Document!Calls,
         Document!Op(c) = Document!Nothing, c \in facade'.calls, Document!Removes(Document!Op(c)')
  PROVE  Document!Op(c)'.document \in exports.made \ exports.told
<1>1. DocumentTypes /\ Waiting /\ Owned /\ c \notin link.asked /\ c \notin facade.calls
  <2>1. Document!Nothing \notin Operation
    BY OperationFacts
  <2>2. QED
    BY <2>1 DEF DocumentInv, Waiting
<1>2. Document!Next
  BY <1>1 DEF documentVars
<1>3. ASSUME NEW b \in Document!Calls, NEW role \in Document!Roles, NEW op \in Document!Operations,
             Document!Op(b) = Document!Nothing, Document!Call(b, role, op)
      PROVE  Document!Op(c)'.document \in exports.made \ exports.told
  <2>1. /\ call' = [call EXCEPT ![b].op = op] /\ facade'.calls = facade.calls \cup {b}
        /\ Document!Removes(op) => facade.documents[op.document] = "unique"
    BY <1>1, <1>3 DEF Document!Call, Document!Grantable, DocumentTypes
  <2>2. c = b /\ Document!Op(c)' = op
    BY <1>1, <2>1 DEF Document!Op, DocumentTypes
  <2>3. op.document \in Docs
    BY <2>2, OperationFacts DEF Document!Removes, Operation
  <2>4. QED
    BY <1>1, <2>1, <2>2, <2>3 DEF Owned
<1>4. facade'.calls \subseteq facade.calls \/ \E b \in Document!Calls, role \in Document!Roles, op \in Document!Operations :
        Document!Op(b) = Document!Nothing /\ Document!Call(b, role, op)
  <2>1. ASSUME NEW b, NEW reply, NEW valid, Document!Completed(b, reply, valid) PROVE facade'.calls \subseteq facade.calls
    BY <1>1, <2>1 DEF Document!Completed, Document!Settled, DocumentTypes
  <2>2. Document!Opened.calls = {} /\ Document!Closed.calls = {}
    BY DEF Document!Opened, Document!Closed, Document!Unopened
  <2>3. CASE Document!Reply
    BY <2>1, <2>3 DEF Document!Reply
  <2>4. CASE \E b \in Document!Calls : Document!Timeout(b)
    BY <2>1, <2>4 DEF Document!Timeout
  <2>5. CASE Document!Start \/ Document!Close
    BY <2>2, <2>5 DEF Document!Start, Document!Close
  <2>6. CASE Document!Host \/ \E role \in Document!Roles : Document!Bind(role) \/ Document!CallerEnds(role)
    BY <2>6 DEF Document!Host, Document!Bind, Document!CallerEnds
  <2>7. CASE \E b \in Document!Calls : Document!Refused(b)
    BY <2>7 DEF Document!Refused
  <2>8. QED
    BY <1>2, <2>3, <2>4, <2>5, <2>6, <2>7 DEF Document!Next
<1>5. QED
  BY <1>1, <1>3, <1>4

\* What lasts in the behaviours of the two components.
PartsInv == DocumentInv /\ PeerInv

\* Whatever processes, files and limits there are, a check finds a caller valid
\* only if it descended from the application's supervisor at a moment of that
\* check (DesktopProcessPeers), and the document facade keeps its accounts, answers
\* every operation once, and asks the host to remove only documents that it created
\* for itself and that no later answer names (DocumentService, DocumentGrants).
THEOREM OnlyOwnHolds == PartsSpec => OnlyOwn
<1>1. PartsInit => PartsInv
  BY DocumentInvStarts, PeerInvStarts DEF PartsInit, PartsInv
<1>2. [PartsNext]_<<part, vars, documentVars, peerVars>> => [Document!Next]_documentVars /\ [Peer!Next]_peerVars
  BY DEF PartsNext
<1>3. PartsInv /\ [PartsNext]_<<part, vars, documentVars, peerVars>> => PartsInv'
  BY <1>2, DocumentInvHolds, PeerInvHolds DEF PartsInv
<1>4. PartsInv => Document!Accounted
  BY DocumentInvAccounted DEF PartsInv
<1>5. PartsInv => Peer!PeersBelong
  BY PeerInvBelong DEF PartsInv
<1>6. PartsInv /\ [PartsNext]_<<part, vars, documentVars, peerVars>> =>
        [\A c \in Document!Calls :
           Document!Op(c) = Document!Nothing /\ c \in facade'.calls /\ Document!Removes(Document!Op(c)') =>
             Document!Op(c)'.document \in exports.made \ exports.told]_(Document!vars)
  BY <1>2, DocumentOwn DEF PartsInv
<1>7. QED
  BY <1>1, <1>3, <1>4, <1>5, <1>6, PTL DEF PartsSpec, OnlyOwn, Document!OwnGrantsOnly
=============================================================================
