----------------------------- MODULE Deployment -----------------------------
(***************************************************************************)
(* The deployment transaction of the physical-desktop service              *)
(* (hostdesktop/deployment_linux.go, deployment_transaction_linux.go,      *)
(* deployment_driver_linux.go, and the daemon's side of the maintenance    *)
(* lease in login_maintenance_linux.go).                                   *)
(*                                                                         *)
(* One manager process at a time (an flock) ensures, stops or uninstalls   *)
(* the service under a journal; the manager or the whole host may die      *)
(* between any two effects; the daemon and systemd run beside it.  A step  *)
(* is one effect that is durable on its own.                               *)
(***************************************************************************)
EXTENDS Naturals

CONSTANTS
    Digests,       \* policy digests, each with its own version directory
    Disks,         \* the installations a first manager may meet
    None

ASSUME DigestsAssumption == None \notin Digests

VersionStates == {"absent", "altered", "good"}
NoVersions == [d \in Digests |-> "absent"]
EmptyTree == [versions |-> NoVersions, policy |-> None]

\* What is under root: version directories and installed.json.
Trees == [versions : [Digests -> VersionStates], policy : Digests \cup {None}]
ASSUME NoneIsNoTree == None \notin Trees

\* A first manager meets what this service leaves behind, possibly damaged.
ASSUME DisksAssumption == \A d \in Disks :
  /\ d.root \in Trees \cup {None} /\ {d.driver, d.enabled, d.active} \subseteq BOOLEAN
  /\ d.unit = IF d.root = None THEN None ELSE d.root.policy
  /\ d.root # None => d.root.policy # None
  /\ d.enabled \/ d.active => d.root # None

\* loginDeploymentSnapshot
Snapshots == [rootExisted : BOOLEAN, policy : Digests \cup {None},
              unit : Digests \cup {None}, driver : BOOLEAN,
              enabled : BOOLEAN, active : BOOLEAN, wasLoaded : BOOLEAN,
              published : Digests \cup {None}, replace : BOOLEAN,
              removing : BOOLEAN]
Journals == [saved : Snapshots, committed : BOOLEAN, backup : VersionStates]
ASSUME NoneIsNoJournal == None \notin Journals

Requests == [operation : {"ensure"}, digest : Digests]
              \cup [operation : {"stop", "uninstall"}, digest : {None}]

VARIABLES
    root,      \* the installed tree, None if there is none
    removing,  \* root.removing
    unit,      \* the policy that the unit file names
    driver,    \* the module-load file exists
    journal,   \* root.transaction, renamed into place as a whole
    retired,   \* root.committed exists
    enabled,   \* systemd starts the unit at boot
    wanted,    \* systemd keeps the unit running
    running,   \* the policy of the live daemon
    loaded,    \* the kernel module is loaded
    attached,  \* a desktop attachment is served
    lease,     \* the manager's maintenance connection
    pc,        \* the manager: "idle" if there is no process
    request,
    mode,      \* "apply", "rollback" of a failed one, or "recover"
    active,    \* what install read of the service before it began
    undo,      \* the manager's copy of the snapshot
    failed,    \* the restore in progress has met an error
    outcome,   \* how the last attempt ended
    base,      \* history: the files before the open transaction
    baseOn,    \* history: whether the unit was enabled then
    consent,   \* history: the interruption was confirmed in this attempt
    lapsed,    \* history: the daemon came up by itself where no lease that was
               \* checked afterwards covers it
    hidden,    \* history: an error of systemctl hid the running daemon, likewise
    injected   \* history: an effect of a rollback or commit has failed

files == <<root, removing, unit, driver>>
log == <<journal, retired>>
host == <<enabled, wanted, running, loaded>>
service == <<attached, lease>>
memory == <<request, mode, active, undo, failed, outcome>>
excuses == <<consent, lapsed, hidden>>
history == <<base, baseOn, injected, excuses>>
vars == <<files, log, host, service, pc, memory, history>>

NoSnapshot == [rootExisted |-> FALSE, policy |-> None, unit |-> None,
               driver |-> FALSE, enabled |-> FALSE, active |-> FALSE,
               wasLoaded |-> FALSE, published |-> None, replace |-> FALSE,
               removing |-> FALSE]
NoRequest == [operation |-> "stop", digest |-> None]

Policy == IF root = None THEN None ELSE root.policy
Version(d) == IF root = None THEN "absent" ELSE root.versions[d]
Target == request.digest
Ensuring == request.operation = "ensure"
Image == [root |-> root, unit |-> unit, driver |-> driver]

----------------------------------------------------------------------------
(* The daemon and systemd.                                                 *)

\* A mistake: only the lease stops new attachments.
AdmitsBesideJournal == lease # "held"

\* admitAttachment and the ticket check: not under a lease, and not while a
\* journal is pending.
Admits == lease # "held" /\ journal = None

Attach == /\ running # None
          /\ attached = FALSE
          /\ Admits
          /\ attached' = TRUE
          /\ UNCHANGED <<files, log, host, lease, pc, memory, history>>

Detach == /\ attached
          /\ attached' = FALSE
          /\ UNCHANGED <<files, log, host, lease, pc, memory, history>>

\* The daemon's end of every connection goes away with it.
Gone == /\ running' = None
        /\ attached' = FALSE
        /\ lease' = IF lease = "held" THEN "lost" ELSE lease

DaemonCrash == /\ running # None
               /\ Gone
               /\ UNCHANGED <<files, log, enabled, wanted, loaded, pc, memory,
                              history>>

\* Restart=on-failure, and the start of an enabled unit at boot.
DaemonStart == /\ wanted
               /\ running = None
               /\ unit # None
               /\ Version(unit) # "absent"
               /\ running' = unit
               /\ lapsed' = (lapsed \/ pc # "idle")
               /\ UNCHANGED <<files, log, enabled, wanted, loaded, service, pc,
                              memory, base, baseOn, consent, hidden, injected>>

StopUnit == Gone /\ wanted' = FALSE /\ UNCHANGED <<enabled, loaded>>

\* systemctl start of a running unit does nothing.
StartUnit == /\ wanted' = TRUE
             /\ running' = IF running = None /\ Version(unit) # "absent"
                            THEN unit ELSE running
             /\ UNCHANGED <<enabled, loaded, service>>

----------------------------------------------------------------------------
(* One attempt of the manager.                                             *)

\* Nobody has been asked, and no daemon has escaped notice.  The excuses are about
\* the stop that follows them in an attempt.
NoExcuse == consent' = FALSE /\ lapsed' = FALSE /\ hidden' = FALSE

\* Every deferred release runs; what is on disk stays.
End(result) ==
    /\ pc' = "idle"
    /\ outcome' = result
    /\ lease' = "none"
    /\ undo' = NoSnapshot
    /\ mode' = "apply"
    /\ active' = FALSE
    /\ failed' = FALSE
    /\ UNCHANGED <<request, base, baseOn>>
    /\ NoExcuse

Refused == /\ End("refused")
           /\ UNCHANGED <<files, log, host, attached, injected>>

Manage(r) ==
    /\ pc = "idle"
    /\ pc' = "recover"
    /\ request' = r
    /\ outcome' = "none"
    /\ UNCHANGED <<files, log, host, service, mode, active, undo, failed,
                   history>>

\* recover: collect a committed journal, or roll an uncommitted one back.
Recover ==
    /\ pc = "recover"
    /\ \/ /\ retired' = FALSE
          /\ mode' = IF journal = None THEN "apply" ELSE "recover"
          /\ undo' = IF journal = None THEN undo ELSE journal.saved
          /\ pc' = IF journal = None THEN "dispatch"
                   ELSE IF journal.committed THEN "collect" ELSE "maintain"
          /\ UNCHANGED <<files, journal, host, service, request, active,
                         failed, outcome, history>>
       \/ Refused

\* The installation is one that this manager may change as requested.
Acceptable ==
    /\ removing = None
    /\ IF Ensuring
       THEN /\ Policy = None => root = None /\ unit = None
            /\ Version(Target) = "altered" => Policy = Target
       ELSE Policy # None

Unchanged == Policy = Target /\ Version(Target) = "good" /\ unit = Target

\* What is-active and is-enabled of systemctl are taken for: any error, that of a
\* context cancelled meanwhile included, reads as no.
Seen(is) == {is, FALSE}

\* manage and install up to the first mutation: the files are staged and
\* verified beside the installation.
Dispatch ==
    /\ pc = "dispatch"
    /\ \/ /\ Acceptable
          /\ active' \in IF Ensuring THEN Seen(Policy # None /\ running # None) ELSE {FALSE}
          /\ consent' = FALSE /\ lapsed' = FALSE
          /\ hidden' = (Ensuring /\ ~active' /\ running # None)
          /\ pc' = IF Ensuring /\ Unchanged /\ active' THEN "confirm"
                   ELSE IF Ensuring /\ ~active' THEN "snapshot"
                   ELSE "maintain"
          /\ UNCHANGED <<files, log, host, service, request, mode, undo,
                         failed, outcome, base, baseOn, injected>>
       \/ Refused

\* An unchanged, healthy policy is only proved again.
Confirm ==
    /\ pc = "confirm"
    /\ IF running = Target THEN End("done") \/ End("refused")
                           ELSE End("refused")
    /\ UNCHANGED <<files, log, host, attached, injected>>

\* The lease blocks admission before anybody is asked; a daemon that cannot
\* be asked has unknown impact.
Maintain ==
    /\ pc = "maintain"
    /\ \E up \in Seen(running # None) :
         \/ /\ ~up
            /\ pc' = "check"
            /\ hidden' = (running # None)
            /\ UNCHANGED lease
         \/ /\ up
            /\ \/ lease' = "held" /\ pc' = IF attached THEN "consent" ELSE "check"
               \/ UNCHANGED lease /\ pc' = "consent"
            /\ hidden' = FALSE
    /\ consent' = FALSE /\ lapsed' = FALSE
    /\ UNCHANGED <<files, log, host, attached, memory, base, baseOn, injected>>

Consent ==
    /\ pc = "consent"
    /\ \/ /\ consent' = TRUE
          /\ pc' = "check"
          /\ UNCHANGED <<files, log, host, service, memory, base, baseOn,
                         lapsed, hidden, injected>>
       \/ Refused

\* A mistake: the lease is not checked again after the confirmation.
CheckOnce == TRUE

\* maintenance_check, and then the runtime's identity
Held == lease # "lost"

Check ==
    /\ pc = "check"
    /\ \/ /\ Held
          /\ pc' = IF mode = "recover" THEN "stop service" ELSE "snapshot"
          /\ lapsed' = (lapsed /\ lease = "none")
          /\ UNCHANGED <<files, log, host, service, memory, base, baseOn,
                         consent, hidden, injected>>
       \/ Refused

\* snapshot, where is-enabled has answered on and is-active up
Taken(on, up) == [NoSnapshot EXCEPT
                    !.rootExisted = root # None,
                    !.policy = Policy,
                    !.unit = unit,
                    !.driver = driver,
                    !.enabled = on,
                    !.active = up,
                    !.wasLoaded = loaded]

FirstStep == CASE Ensuring -> "driver"
               [] request.operation = "stop" -> "halt"
               [] OTHER -> "driver off"

TakeSnapshot ==
    /\ pc = "snapshot"
    /\ \/ /\ \E on \in Seen(Policy # None /\ enabled),
               up \in Seen(Policy # None /\ running # None) :
                 undo' = Taken(on, up)
          /\ journal' = [saved |-> undo', committed |-> FALSE,
                         backup |-> "absent"]
          /\ base' = Image
          /\ baseOn' = enabled
          /\ pc' = FirstStep
          /\ UNCHANGED <<files, retired, host, service, request, mode, active,
                         failed, outcome, consent, lapsed, hidden, injected>>
       \/ Refused

\* An error of the transaction's own steps starts the rollback.
RollBack == /\ pc' = "stop service"
            /\ mode' = "rollback"
            /\ active' = FALSE
            /\ UNCHANGED <<request, failed, outcome>>

Proceed(to) == pc' = to /\ UNCHANGED <<request, mode, active, failed, outcome>>

\* A failing step has had its effect or not.
Apply(from, to, Effect, Nothing) ==
    /\ pc = from
    /\ \/ Effect /\ Proceed(to)
       \/ (Effect \/ Nothing) /\ RollBack
    /\ UNCHANGED history

PrepareDriver ==
    /\ \/ Apply("driver", "directories",
                loaded' = TRUE /\ driver' = TRUE,
                loaded' \in {loaded, TRUE} /\ UNCHANGED driver)
       \/ Apply("driver off", "save removal",
                driver' = FALSE /\ UNCHANGED loaded,
                UNCHANGED <<driver, loaded>>)
    /\ UNCHANGED <<root, removing, unit, log, enabled, wanted, running,
                   service, undo>>

AfterDirectories == IF active THEN "halt" ELSE "save version"

MakeDirectories ==
    /\ Apply("directories", AfterDirectories,
             root' = IF root = None THEN EmptyTree ELSE root,
             UNCHANGED root)
    /\ UNCHANGED <<removing, unit, driver, log, host, service, undo>>

AfterHalt == CASE Ensuring -> "save version"
               [] request.operation = "stop" -> "commit"
               [] OTHER -> "disable"

Halt ==
    /\ Apply("halt", AfterHalt, StopUnit, UNCHANGED <<host, service>>)
    /\ UNCHANGED <<files, log, undo>>

\* A mistake: the journal does not learn which version is about to change.
SaveVersionInMemory ==
    /\ pc = "save version" /\ Version(Target) # "good"
    /\ undo' = [undo EXCEPT !.published = Target,
                            !.replace = Version(Target) = "altered"]
    /\ Apply("save version", IF undo'.replace THEN "backup" ELSE "publish",
             UNCHANGED journal, UNCHANGED journal)
    /\ UNCHANGED <<files, retired, host, service>>

\* The journal learns which version directory is about to change.
SaveVersion ==
    /\ pc = "save version" /\ Version(Target) # "good"
    /\ undo' = [undo EXCEPT !.published = Target,
                            !.replace = Version(Target) = "altered"]
    /\ Apply("save version", IF undo'.replace THEN "backup" ELSE "publish",
             journal' = [journal EXCEPT !.saved = undo'],
             UNCHANGED journal)
    /\ UNCHANGED <<files, retired, host, service>>

Retained ==
    /\ pc = "save version"
    /\ Version(Target) = "good"
    /\ Proceed("unit")
    /\ UNCHANGED <<files, log, host, service, undo, history>>

SetVersion(d, v) == root' = [root EXCEPT !.versions[d] = v]

BackUp ==
    /\ Apply("backup", "publish",
             /\ SetVersion(Target, "absent")
             /\ journal' = [journal EXCEPT !.backup = Version(Target)],
             UNCHANGED <<root, journal>>)
    /\ UNCHANGED <<removing, unit, driver, retired, host, service, undo>>

Publish ==
    /\ Apply("publish", "unit", SetVersion(Target, "good"), UNCHANGED root)
    /\ UNCHANGED <<removing, unit, driver, log, host, service, undo>>

WriteUnit ==
    /\ Apply("unit", "enable", unit' = Target, UNCHANGED unit)
    /\ UNCHANGED <<root, removing, driver, log, host, service, undo>>

Enable ==
    /\ \/ Apply("enable", "start", enabled' = TRUE, UNCHANGED enabled)
       \/ Apply("disable", "move away", enabled' = FALSE, UNCHANGED enabled)
    /\ UNCHANGED <<files, log, wanted, running, loaded, service, undo>>

\* start, is-active and the health probe
StartNew ==
    /\ Apply("start", "verify", StartUnit, UNCHANGED <<host, service>>)
    /\ UNCHANGED <<files, log, undo>>

\* The runtime authenticates to the daemon, whose reply names its policy.
Proved == running = Target

Verify ==
    /\ pc = "verify"
    /\ (Proved /\ Proceed("record")) \/ RollBack
    /\ UNCHANGED <<files, log, host, service, undo, history>>

WriteRecord ==
    /\ Apply("record", "commit", root' = [root EXCEPT !.policy = Target],
             UNCHANGED root)
    /\ UNCHANGED <<removing, unit, driver, log, host, service, undo>>

SaveRemoval ==
    /\ undo' = [undo EXCEPT !.removing = TRUE]
    /\ Apply("save removal", "halt",
             journal' = [journal EXCEPT !.saved = undo'],
             UNCHANGED journal)
    /\ UNCHANGED <<files, retired, host, service>>

MoveAway ==
    /\ Apply("move away", "remove unit",
             root' = None /\ removing' = root,
             UNCHANGED <<root, removing>>)
    /\ UNCHANGED <<unit, driver, log, host, service, undo>>

RemoveUnit ==
    /\ Apply("remove unit", "commit", unit' = None, UNCHANGED unit)
    /\ UNCHANGED <<root, removing, driver, log, host, service, undo>>

----------------------------------------------------------------------------
(* restore: every step is tried, and the errors are joined.                *)

Tried(from, to) == /\ pc = from
                   /\ pc' = to
                   /\ IF from = "stop service" THEN NoExcuse ELSE UNCHANGED excuses
                   /\ UNCHANGED <<request, mode, active, undo, outcome, base,
                                  baseOn>>

Restored(from, to, Effect) ==
    /\ Tried(from, to)
    /\ Effect
    /\ UNCHANGED <<failed, injected>>

\* The effect fails by itself, or because the disk or systemd fails.
Broken(from, to) == /\ Tried(from, to)
                    /\ failed' = TRUE
                    /\ UNCHANGED injected
Fault(from, to) == /\ Tried(from, to)
                   /\ failed' = TRUE
                   /\ injected' = TRUE

RestoreStop ==
    /\ \/ Restored("stop service", "bring back",
                   IF unit = None THEN UNCHANGED <<host, service>>
                                  ELSE StopUnit)
       \/ /\ unit # None
          /\ Fault("stop service", "bring back")
          /\ UNCHANGED <<host, service>>
    /\ UNCHANGED <<files, log>>

RestoreRoot ==
    /\ IF removing # None /\ undo.removing
       THEN \/ /\ root = None
               /\ \/ Restored("bring back", "versions",
                              root' = removing /\ removing' = None)
                  \/ Fault("bring back", "versions")
                     /\ UNCHANGED <<root, removing>>
               /\ UNCHANGED service
            \/ /\ pc = "bring back"
               /\ root # None
               /\ End("stuck")
               /\ UNCHANGED <<root, removing, attached, injected>>
       ELSE Restored("bring back", "versions",
                     UNCHANGED <<root, removing, service>>)
    /\ UNCHANGED <<unit, driver, log, host>>

\* loginRemoveDurable syncs the parent of what it removes, which may be gone
\* together with an installation that did not exist before.
RestoreVersion ==
    /\ pc = "versions"
    /\ LET Old == journal.backup
           Replacing == undo.replace /\ Old # "absent"
       IN  IF undo.published = None \/ (undo.replace /\ ~Replacing)
           THEN Restored("versions", "root", UNCHANGED <<root, journal>>)
           ELSE IF root = None
           THEN Broken("versions", "root") /\ UNCHANGED <<root, journal>>
           ELSE \/ Restored("versions", "root",
                     /\ SetVersion(undo.published,
                                   IF Replacing THEN Old ELSE "absent")
                     /\ journal' = [journal EXCEPT !.backup = "absent"])
                \/ /\ Fault("versions", "root")
                   /\ \E v \in {"altered", "absent"} :
                        /\ v = "absent" \/ Version(undo.published) # "absent"
                        /\ SetVersion(undo.published, v)
                   /\ UNCHANGED journal
    /\ UNCHANGED <<removing, unit, driver, retired, host, service>>

RestoreDirectory ==
    /\ \/ Restored("root", "disable unit",
                   root' = IF undo.rootExisted /\ root = None
                           THEN EmptyTree ELSE root)
       \/ Fault("root", "disable unit") /\ UNCHANGED root
    /\ UNCHANGED <<removing, unit, driver, log, host, service>>

RestoreDisable ==
    /\ IF undo.enabled \/ unit = None
       THEN Restored("disable unit", "unit file", UNCHANGED enabled)
       ELSE \/ Restored("disable unit", "unit file", enabled' = FALSE)
            \/ Fault("disable unit", "unit file") /\ UNCHANGED enabled
    /\ UNCHANGED <<files, log, wanted, running, loaded, service>>

\* A mistake: only a unit file that was saved is restored.
RestoreSavedUnit == /\ Restored("unit file", "policy",
                                unit' = IF undo.unit = None THEN unit
                                                            ELSE undo.unit)
                    /\ UNCHANGED <<root, removing, driver, log, host, service>>

RestoreUnit ==
    /\ \/ Restored("unit file", "policy", unit' = undo.unit)
       \/ Fault("unit file", "policy") /\ UNCHANGED unit
    /\ UNCHANGED <<root, removing, driver, log, host, service>>

RestorePolicy ==
    /\ IF ~undo.rootExisted
       THEN Restored("policy", "driver file", UNCHANGED root)
       ELSE IF root = None
       THEN Broken("policy", "driver file") /\ UNCHANGED root
       ELSE \/ Restored("policy", "driver file",
                        root' = [root EXCEPT !.policy = undo.policy])
            \/ Fault("policy", "driver file") /\ UNCHANGED root
    /\ UNCHANGED <<removing, unit, driver, log, host, service>>

RestoreDriver ==
    /\ \/ Restored("driver file", "enable unit", driver' = undo.driver)
       \/ Fault("driver file", "enable unit") /\ UNCHANGED driver
    /\ UNCHANGED <<root, removing, unit, log, host, service>>

RestoreEnable ==
    /\ IF undo.unit # None /\ undo.enabled
       THEN \/ Restored("enable unit", "start unit", enabled' = TRUE)
            \/ Fault("enable unit", "start unit") /\ UNCHANGED enabled
       ELSE Restored("enable unit", "start unit", UNCHANGED enabled)
    /\ UNCHANGED <<files, log, wanted, running, loaded, service>>

RestoreStart ==
    /\ IF undo.active /\ unit # None
       THEN \/ Restored("start unit", "unload", StartUnit)
            \/ Fault("start unit", "unload") /\ UNCHANGED <<host, service>>
       ELSE IF undo.active
       THEN Broken("start unit", "unload") /\ UNCHANGED <<host, service>>
       ELSE Restored("start unit", "unload", UNCHANGED <<host, service>>)
    /\ UNCHANGED <<files, log>>

RestoreModule ==
    /\ IF ~undo.wasLoaded /\ loaded
       THEN \/ Restored("unload", "remove", loaded' = FALSE)
            \/ Fault("unload", "remove") /\ UNCHANGED loaded
       ELSE Restored("unload", "remove", UNCHANGED loaded)
    /\ UNCHANGED <<files, log, enabled, wanted, running, service>>

\* What a removal that stops halfway leaves.
Remains(t) == [versions |-> [d \in Digests |->
                   IF t.versions[d] = "absent" THEN "absent" ELSE "altered"],
               policy |-> None]

RestoreAbsence ==
    /\ IF undo.rootExisted \/ root = None
       THEN Restored("remove", "restored", UNCHANGED root)
       ELSE \/ Restored("remove", "restored", root' = None)
            \/ Fault("remove", "restored") /\ root' \in {root, Remains(root)}
    /\ UNCHANGED <<removing, unit, driver, log, host, service>>

EndRestore ==
    /\ pc = "restored"
    /\ IF failed
       THEN End("stuck") /\ UNCHANGED <<attached, injected>>
       ELSE pc' = "commit" /\ UNCHANGED <<service, memory, history>>
    /\ UNCHANGED <<files, log, host>>

----------------------------------------------------------------------------
(* commitJournal: the marker decides, the rest is collection.              *)

\* The journal stays for the next attempt to commit or to roll back.
Unknown == /\ injected' = TRUE
           /\ End(IF mode = "apply" THEN "unknown" ELSE "stuck")
           /\ UNCHANGED attached

Commit ==
    /\ pc = "commit"
    /\ \/ /\ journal' = [journal EXCEPT !.committed = TRUE]
          /\ Proceed("collect")
          /\ UNCHANGED <<service, undo, history>>
       \/ /\ mode = "apply" /\ ~Ensuring    \* the runtime has changed
          /\ RollBack
          /\ UNCHANGED <<journal, service, undo, history>>
       \/ Unknown /\ \E c \in BOOLEAN :
            journal' = [journal EXCEPT !.committed = c \/ journal.committed]
    /\ UNCHANGED <<files, retired, host>>

Collect ==
    /\ pc = "collect"
    /\ \/ /\ removing' = IF undo.removing THEN None ELSE removing
          /\ Proceed("retire")
          /\ UNCHANGED <<service, undo, history>>
       \/ /\ undo.removing /\ removing # None
          /\ removing' \in {removing, Remains(removing)}
          /\ Unknown
    /\ UNCHANGED <<root, unit, driver, log, host>>

Retire ==
    /\ pc = "retire"
    /\ \/ /\ journal' = None
          /\ retired' = TRUE
          /\ Proceed("clean")
          /\ UNCHANGED <<service, undo, history>>
       \/ Unknown /\ UNCHANGED log
    /\ UNCHANGED <<files, host>>

Ended == CASE mode = "apply" -> "done" [] OTHER -> "rolled back"

Clean ==
    /\ pc = "clean"
    /\ \/ /\ retired' = FALSE
          /\ IF mode = "recover"
             THEN /\ pc' = "dispatch"
                  /\ mode' = "apply"
                  /\ undo' = NoSnapshot
                  /\ lease' = "none"
                  /\ UNCHANGED <<request, active, failed, outcome, history>>
             ELSE End(Ended) /\ UNCHANGED injected
          /\ UNCHANGED attached
       \/ Unknown /\ UNCHANGED retired
    /\ UNCHANGED <<files, journal, host>>

----------------------------------------------------------------------------
(* The manager process or the whole host dies.                             *)

Crash == /\ pc # "idle"
         /\ End("none")
         /\ UNCHANGED <<files, log, host, attached, injected>>

Reboot == /\ End("none")
          /\ running' = None
          /\ attached' = FALSE
          /\ wanted' = (enabled /\ unit # None)
          /\ loaded' = driver
          /\ UNCHANGED <<files, log, enabled, injected>>

----------------------------------------------------------------------------

Init ==
    /\ \E d \in Disks : /\ root = d.root
                        /\ unit = d.unit
                        /\ driver = d.driver
                        /\ enabled = d.enabled
                        /\ wanted = d.active
                        /\ running = IF d.active THEN d.unit ELSE None
                        /\ loaded = d.driver
    /\ removing = None /\ journal = None /\ retired = FALSE
    /\ attached = FALSE /\ lease = "none"
    /\ pc = "idle" /\ request = NoRequest /\ mode = "apply"
    /\ active = FALSE /\ undo = NoSnapshot /\ failed = FALSE
    /\ outcome = "none"
    /\ base = Image /\ baseOn = enabled
    /\ consent = FALSE /\ lapsed = FALSE /\ hidden = FALSE /\ injected = FALSE

Applying == \/ PrepareDriver \/ MakeDirectories \/ Halt \/ SaveVersion
            \/ Retained \/ BackUp \/ Publish \/ WriteUnit \/ Enable
            \/ StartNew \/ Verify \/ WriteRecord \/ SaveRemoval
            \/ MoveAway \/ RemoveUnit

Restoring == \/ RestoreStop \/ RestoreRoot \/ RestoreVersion
             \/ RestoreDirectory \/ RestoreDisable \/ RestoreUnit
             \/ RestorePolicy \/ RestoreDriver \/ RestoreEnable
             \/ RestoreStart \/ RestoreModule \/ RestoreAbsence \/ EndRestore

Committing == Commit \/ Collect \/ Retire \/ Clean

Manager == \/ \E r \in Requests : Manage(r)
           \/ Recover \/ Dispatch \/ Confirm \/ Maintain \/ Consent \/ Check
           \/ TakeSnapshot \/ Applying \/ Restoring \/ Committing

Daemon == Attach \/ Detach \/ DaemonCrash \/ DaemonStart

Next == Manager \/ Daemon \/ Crash \/ Reboot

Spec == Init /\ [][Next]_vars

----------------------------------------------------------------------------
(* Properties.                                                             *)

\* The state is well typed, and a manager that has returned holds nothing: its
\* maintenance lease has been released on every path.
TypeOK ==
    /\ pc = "idle" => lease = "none" /\ undo = NoSnapshot /\ mode = "apply"
    /\ root \in Trees \cup {None}
    /\ removing \in Trees \cup {None}
    /\ unit \in Digests \cup {None}
    /\ journal \in Journals \cup {None}
    /\ {driver, retired, enabled, wanted, loaded, attached, active, failed,
        baseOn, consent, lapsed, hidden, injected} \subseteq BOOLEAN
    /\ running \in Digests \cup {None}
    /\ lease \in {"none", "held", "lost"}
    /\ pc \in {"idle", "recover", "dispatch", "confirm", "maintain", "consent",
               "check", "snapshot", "driver", "directories", "halt",
               "save version", "backup", "publish", "unit", "enable", "start",
               "verify", "record", "driver off", "save removal", "disable",
               "move away", "remove unit", "stop service", "bring back",
               "versions", "root", "disable unit", "unit file", "policy",
               "driver file", "enable unit", "start unit", "unload", "remove",
               "restored", "commit", "collect", "retire", "clean"}
    /\ request \in Requests
    /\ mode \in {"apply", "rollback", "recover"}
    /\ undo \in Snapshots
    /\ outcome \in {"none", "refused", "done", "rolled back", "unknown",
                    "stuck"}
    /\ base \in [root : Trees \cup {None}, unit : Digests \cup {None},
                 driver : BOOLEAN]

Pending == journal # None /\ ~journal.committed

\* ImplementsContract holds whatever fails.  The properties that except injected
\* speak of hosts on which no effect of a rollback or a commit has failed: the
\* retry of a rollback that failed in part decides from what the first left.

\* Whatever fails, and wherever the manager or the host dies, the files that a
\* recovery would leave change only by whole transactions: the marker is
\* written over exactly the old installation or exactly the new one
\* (CONTRIBUTING.md "A private root-owned sibling journal saves original files
\* ... A durable commit marker distinguishes cleanup from rollback").
Contract == INSTANCE DeploymentContract WITH
    installed <- IF Pending THEN base ELSE Image
ImplementsContract == Contract!Spec

\* An attachment is only ever served by a daemon whose policy has been proved
\* and committed: not by one that a half-finished transaction installed, even
\* if systemd brought it up after a crash (pendingDeployment); and no commit and
\* no rollback leaves the daemon of another policy behind.
ServedPolicy == IF ~Pending THEN Policy
                ELSE IF base.root = None THEN None ELSE base.root.policy
RunsCommitted ==
  /\ TypeOK
  /\ ~injected =>
       /\ attached => running = ServedPolicy /\ running # None
       /\ ~Pending /\ running # None => running = Policy

\* The transaction never takes the desktop away from an attachment without a
\* confirmation, unless the daemon came up by itself after the continuity
\* check of its lease or after it was found not running, or an error of systemctl
\* hid it (maintain's count, lease and maintenance_check); and a rollback that
\* retires its journal, in whichever attempt, has brought the enablement back to what
\* the snapshot recorded, enables nothing that was not enabled before the transaction,
\* and has asked systemd to keep running what was recorded as active (restore).
NothingTaken ==
    /\ [][attached /\ ~attached' /\ pc \in {"halt", "stop service"} /\ pc' # pc
           => consent \/ lapsed \/ hidden \/ injected]_vars
    /\ [][pc = "commit" /\ mode # "apply" /\ pc' = "collect"
           => injected \/ /\ enabled = undo.enabled /\ (enabled => baseOn)
                          /\ undo.active => wanted]_vars

\* A rollback or recovery in which no effect failed leaves the original files
\* in place, even where it reports a failure: what an earlier attempt left can
\* always be rolled back (restore is run again from any point it died at).
RecoveryRestores == outcome = "stuck" => injected \/ Image = base

============================================================================
