---------------------------- MODULE DesktopSession ----------------------------
(***************************************************************************)
(* The helper's main function (desktop_bootstrap.py) assembles the         *)
(* supervisor of one desktop session (desktop_session.py), which starts    *)
(* the private bus, the compositor, the capture service, the input service *)
(* and the portals one after the other, each when the one before is ready, *)
(* then the application's supervisor; and it disposes of all of them when  *)
(* the application has exited, or when a step before its launch fails.     *)
(*                                                                         *)
(* A step is one callback of the helper's event loop.  Processes run and   *)
(* die beside it.  A callback records its transitions in a receipt, and a  *)
(* record that cannot be written raises out of the callback: bad is the    *)
(* set of the records that cannot be written in this step.                 *)
(***************************************************************************)
EXTENDS Integers, Sequences, FiniteSets, SequencesExt

CONSTANTS
    Plans,         \* what a plan asks for: the input portal, and other portals in order
    WriteFaults,   \* records may fail
    MaxDead        \* bound: processes dead and not yet waited for

PortalsOf(plan) == ToSet(plan.portals)
\* What the start sequence waits for, besides the owner of a name
Callbacks == {"nothing", "address", "connection", "display", "authorized", "activated"}
\* Services whose readiness is the ownership of a bus name
Named == {"ibus", "ibus-portal"} \cup UNION {PortalsOf(plan) : plan \in Plans}
Processes == {"bus", "compositor", "capture", "application"} \cup Named

ASSUME WriteFaultsAssumption == WriteFaults \in BOOLEAN
ASSUME MaxDeadAssumption == MaxDead \in Nat \ {0}
ASSUME PlansAssumption ==
  /\ Plans # {}
  /\ \A plan \in Plans :
       /\ plan = [input |-> plan.input, portals |-> plan.portals]
       /\ plan.input \in BOOLEAN /\ plan.portals \in Seq(STRING) /\ IsInjective(plan.portals)
       /\ PortalsOf(plan) \cap {"bus", "compositor", "capture", "application", "ibus", "ibus-portal"} = {}
       /\ PortalsOf(plan) \cap Callbacks = {}

\* Of the records a callback may make, one cannot be written, and the report of
\* that failure can or cannot.
Faults(records) ==
  IF WriteFaults THEN {B \in SUBSET (records \cup {"failed"}) : Cardinality(B \ {"failed"}) <= 1}
  ELSE {{}}

VARIABLES
    session,   \* the attributes of DesktopSession, and its receipt
    os         \* of each process: none, running, or dead and not waited for

vars == <<session, os>>

\* waits: the callback that the start sequence continues in; owned: the bus
\* names that are watched and have their owner; sent: the signal a process was
\* sent; ended: calls of completed; log: states in the receipt; unwritten:
\* history, a record failed; raised: the callback is unwinding; gone: the helper
\* left its main function without an event loop.
Init ==
  /\ \E plan \in Plans :
     session = [plan |-> plan, stage |-> "main", waits |-> "nothing", closed |-> FALSE, failed |-> FALSE,
                ready |-> FALSE, application |-> FALSE, processes |-> {}, owned |-> {},
                timeout |-> FALSE, kill |-> FALSE, connection |-> "none",
                helper |-> "none", lost |-> FALSE, sharing |-> FALSE,
                sent |-> [p \in Processes |-> "none"], completed |-> TRUE, ended |-> 0,
                log |-> {}, unwritten |-> FALSE, raised |-> FALSE, gone |-> FALSE]
  /\ os = [p \in Processes |-> "none"]

----------------------------------------------------------------------------
(* Parts of callbacks.  Each maps the session to the session it leaves, and *)
(* does nothing while the callback unwinds.                                 *)

Recorded(t, record, state, bad) ==
  IF t.raised THEN t
  ELSE [t EXCEPT !.log = @ \cup state, !.raised = record \in bad,
                 !.unwritten = @ \/ record \in bad]

Transition(t, stage, bad) ==
  Recorded(IF t.raised THEN t ELSE [t EXCEPT !.stage = stage], "transition", {}, bad)

\* DesktopSession.finish
Finish(t) ==
  IF t.raised THEN t
  ELSE [t EXCEPT !.kill = FALSE, !.completed = FALSE, !.ended = IF t.completed THEN @ + 1 ELSE @]

\* What close does to the services, sharing and timers
Disposed(t) ==
  [t EXCEPT !.closed = TRUE, !.timeout = FALSE, !.owned = {}, !.sharing = FALSE,
            !.helper = IF @ = "open" THEN "closed" ELSE @,
            !.lost = @ \/ t.helper = "open",
            !.connection = IF @ = "open" THEN "closed" ELSE @,
            !.sent = [p \in Processes |-> IF p \in t.processes THEN "term" ELSE @[p]],
            !.kill = t.processes # {}]

\* Mutant: close does not look for a live application.
CloseAnyway(t) ==
  IF t.raised \/ t.closed THEN t
  ELSE IF t.processes = {} THEN Finish(Disposed(t)) ELSE Disposed(t)

\* DesktopSession.close
Close(t) ==
  IF t.raised \/ t.closed THEN t
  ELSE IF "application" \in t.processes THEN [t EXCEPT !.raised = TRUE]
  ELSE IF t.processes = {} THEN Finish(Disposed(t)) ELSE Disposed(t)

Revoked(t) == IF t.raised \/ t.helper = "none" THEN t ELSE [t EXCEPT !.lost = TRUE]

\* DesktopSession.fail
Fail(t, bad) ==
  IF t.raised \/ t.closed \/ t.failed \/ t.stage = "terminating" THEN t
  ELSE LET u == Revoked(Recorded([t EXCEPT !.failed = TRUE], "failed", {"failed"}, bad)) IN
       IF t.application THEN u ELSE Close(u)

\* DesktopSession.spawn: the process is registered before its record is written.
Spawn(t, p, bad) ==
  IF t.raised THEN t
  ELSE IF t.closed \/ p \in t.processes THEN [t EXCEPT !.raised = TRUE]
  ELSE Recorded([t EXCEPT !.processes = @ \cup {p}], "process", {}, bad)

\* The answer that a step of the start sequence waits for is wrong, or the step
\* raises before its process exists, or after.
Outcomes == {"fine", "wrong", "refused", "broken"}
Start(t, p, outcome, waits, bad) ==
  IF t.raised \/ outcome = "refused" THEN [t EXCEPT !.raised = TRUE]
  ELSE LET u == Spawn(t, p, bad) IN
       IF u.raised \/ outcome = "broken" THEN [u EXCEPT !.raised = TRUE]
       ELSE [u EXCEPT !.waits = waits]

\* DesktopSession.guard: what a callback raises is a failure of the session.
Guarded(t, bad) == IF t.raised THEN Fail([t EXCEPT !.raised = FALSE], bad) ELSE t
Live(t) == ~t.closed /\ ~t.failed

\* The callback is over; what it still raises, the event loop drops.
Leaves(t) ==
  /\ session' = [t EXCEPT !.raised = FALSE]
  /\ os' = [p \in Processes |-> IF p \in t.processes \ session.processes THEN "running" ELSE os[p]]

----------------------------------------------------------------------------
(* The start sequence.                                                      *)

Running == session.ended = 0 /\ ~session.gone

\* read_configuration refuses the launch: there is no receipt, and nothing to record in.
Unconfigured ==
  /\ Running /\ session.stage = "main"
  /\ Leaves([session EXCEPT !.gone = TRUE])

\* assemble: what it raises is recorded, if that is still possible.
Assembled(t, outcome, bad) ==
  IF ~t.raised /\ outcome = "fine" THEN [t EXCEPT !.stage = "created"]
  ELSE [Recorded([t EXCEPT !.raised = FALSE], "failed", {"failed"}, bad) EXCEPT !.gone = TRUE]

Assemble(outcome, bad) ==
  /\ Running /\ session.stage = "main"
  /\ Leaves(Assembled(Transition(session, "resources", bad), outcome, bad))

\* start and start_bus: the deadline is armed before the bus is spawned.
StartBus(outcome, bad) ==
  /\ Running /\ session.stage = "created"
  /\ LET t == Transition(session, "private_bus", bad)
         u == IF t.raised THEN t ELSE [t EXCEPT !.timeout = TRUE]
         v == Guarded(Start(u, "bus", outcome, "address", bad), bad)
     IN Leaves([v EXCEPT !.gone = v.raised])

\* The callback that the sequence waits for arrives at a live session.
Arrives(waits) == Running /\ Live(session) /\ session.waits = waits
Arrived == [session EXCEPT !.waits = "nothing"]
Continues(t, bad) == Leaves(Guarded(t, bad))
Raise(t) == [t EXCEPT !.raised = TRUE]
Answered(outcome, t) == IF outcome = "wrong" THEN Raise(Arrived) ELSE t

\* received in start_bus: the bus has printed its address, or something else.
BusAnswers(outcome, bad) ==
  /\ Arrives("address")
  /\ Continues(Answered(outcome, [Arrived EXCEPT !.waits = "connection"]), bad)

\* The callback arrives when the session has failed or is closed: guard discards
\* it, and bus_connected closes the connection.
Late ==
  /\ Running /\ ~Live(session) /\ session.waits # "nothing"
  /\ Leaves(Arrived)

\* bus_connected and start_graphics
BusConnected(outcome, bad) ==
  /\ Arrives("connection")
  /\ Leaves(
       IF outcome = "wrong" THEN Fail(Arrived, bad)
       ELSE LET t == Transition([Arrived EXCEPT !.connection = "open"], "graphics", bad)
                u == IF t.raised THEN t ELSE [t EXCEPT !.helper = "open"]
            IN Guarded(Start(u, "compositor", outcome, "display", bad), bad))

\* display_ready
DisplayReady(outcome, bad) ==
  /\ Arrives("display")
  /\ Continues(Answered(outcome, Start(Transition(Arrived, "capture", bad), "capture", outcome, "authorized", bad)), bad)

\* capture_authorized
CaptureAuthorized(outcome, bad) ==
  /\ Arrives("authorized")
  /\ Continues(Answered(outcome, Start(Transition(Arrived, "input", bad), "ibus", outcome, "ibus", bad)), bad)

\* launch_application: the deadline ends, sharing begins, the application is
\* spawned, and the session is ready.
Launch(t, outcome, bad) ==
  LET u == Transition(t, "application", bad)
      v == IF u.raised THEN u ELSE [u EXCEPT !.timeout = FALSE, !.sharing = TRUE]
      w == IF outcome = "refused" THEN Raise(v) ELSE Spawn(v, "application", bad)
      x == IF w.raised THEN w ELSE [w EXCEPT !.application = TRUE]
  IN IF x.raised \/ outcome = "broken" THEN Raise(x)
     ELSE Recorded([x EXCEPT !.ready = TRUE], "prepared", {"prepared"}, bad)

\* next_service in start_portals
NextPortal(t, i, outcome, bad) ==
  IF i > Len(session.plan.portals) THEN Launch(t, outcome, bad)
  ELSE Start(t, session.plan.portals[i], outcome, session.plan.portals[i], bad)

\* start_portals
StartPortals(t, outcome, bad) ==
  IF session.plan.portals = <<>> THEN Launch(t, outcome, bad)
  ELSE NextPortal(Transition(t, "portals", bad), 1, outcome, bad)

\* activated in input_ready
InputActivated(outcome, bad) ==
  /\ Arrives("activated")
  /\ Continues(Answered(outcome, StartPortals(Arrived, outcome, bad)), bad)

\* What follows the readiness of p: input_ready for the input service
AfterOwner(t, p, outcome, bad) ==
  IF p = "ibus" /\ session.plan.input THEN Start(t, "ibus-portal", outcome, "ibus-portal", bad)
  ELSE IF p \in {"ibus", "ibus-portal"}
       THEN IF outcome = "fine" THEN [t EXCEPT !.waits = "activated"] ELSE Raise(t)
       ELSE NextPortal(t, 1 + CHOOSE i \in DOMAIN session.plan.portals : session.plan.portals[i] = p, outcome, bad)

\* appeared in service: the name has an owner, the process that was launched.
NameAppears(p, outcome, bad) ==
  /\ Arrives(p) /\ session.connection = "open"
  /\ LET t == [Arrived EXCEPT !.owned = @ \cup {p}]
     IN Continues(Answered(outcome, AfterOwner(t, p, outcome, bad)), bad)

----------------------------------------------------------------------------
(* What fails or is asked for beside it.                                    *)

\* vanished in service
NameVanishes(p, bad) ==
  /\ Running /\ Live(session) /\ p \in session.owned /\ session.connection = "open"
  /\ Leaves(Fail(session, bad))

\* The bus connection closes, or a line of the compositor is refused.
ServiceFails(bad) ==
  /\ Running /\ session.connection = "open" /\ Live(session)
  /\ Leaves(Fail(session, bad))

\* graphics_lost
GraphicsLost(bad) ==
  /\ Running /\ session.helper = "open" /\ Live(session)
  /\ Leaves(Fail(Revoked(session), bad))

\* The preparation deadline
Timeout(bad) ==
  /\ Running /\ session.timeout
  /\ Leaves(Fail([session EXCEPT !.timeout = FALSE], bad))

\* terminate_application, at the request of a viewer
TerminateApplication(bad) ==
  /\ Running /\ session.sharing /\ ~session.closed
  /\ session.application /\ "application" \in session.processes
  /\ session.stage # "terminating"
  /\ LET t == Recorded([session EXCEPT !.stage = "terminating"], "terminating", {"terminating"}, bad)
         u == Revoked(t)
     IN Leaves(IF u.raised THEN u ELSE [u EXCEPT !.sent["application"] = "term"])

\* Mutant: only the services that own a name are killed.
KillNamed ==
  /\ Running /\ session.kill
  /\ Leaves([session EXCEPT !.kill = FALSE,
                            !.sent = [p \in Processes |->
                               IF p \in session.processes \cap Named THEN "kill" ELSE @[p]]])

\* kill_support
KillSupport ==
  /\ Running /\ session.kill
  /\ Leaves([session EXCEPT !.kill = FALSE,
                            !.sent = [p \in Processes |->
                               IF p \in session.processes \ {"application"} THEN "kill" ELSE @[p]]])

\* A process dies.
Dies(p) ==
  /\ Running /\ os[p] = "running"
  /\ Cardinality({q \in Processes : os[q] = "dead"}) < MaxDead
  /\ os' = [os EXCEPT ![p] = "dead"]
  /\ UNCHANGED session

\* application_exited: what the application's own receipt says, or that there is none
Reported(t, outcome, bad) ==
  LET u == Recorded(t, "result", {outcome}, bad)
  IN IF u.raised THEN Recorded([u EXCEPT !.raised = FALSE], "failed", {"failed"}, bad) ELSE u

\* Mutant: a service that has done its part may go.
ExitedQuietly(p, outcome, bad) ==
  /\ Running /\ os[p] = "dead" /\ p \in session.processes
  /\ LET t == Recorded([session EXCEPT !.processes = @ \ {p}], "exit", {}, bad)
         u == IF t.raised \/ t.closed THEN t
              ELSE IF p = "application" THEN Close(Reported(t, outcome, bad))
              ELSE IF p = session.waits THEN Fail(t, bad) ELSE t
         v == IF ~u.raised /\ u.closed /\ u.processes = {} THEN Finish(u) ELSE u
     IN session' = [v EXCEPT !.raised = FALSE]
  /\ os' = [os EXCEPT ![p] = "none"]

\* exited in spawn: the process was waited for.
Exited(p, outcome, bad) ==
  /\ Running /\ os[p] = "dead" /\ p \in session.processes
  /\ LET t == Recorded([session EXCEPT !.processes = @ \ {p}], "exit", {}, bad)
         u == IF t.raised \/ t.closed THEN t
              ELSE IF p = "application" THEN Close(Reported(t, outcome, bad))
              ELSE Fail(t, bad)
         v == IF ~u.raised /\ u.closed /\ u.processes = {} THEN Finish(u) ELSE u
     IN session' = [v EXCEPT !.raised = FALSE]
  /\ os' = [os EXCEPT ![p] = "none"]

\* read_application_result: the receipt of the application's supervisor, or none to be had
Results == {"exited", "failed"}

Failing == Faults({"failed"})
Exits(p) ==
  \E bad \in Faults(IF p = "application" THEN {"exit", "result"} ELSE {"exit"}) :
    \E result \in IF p = "application" THEN Results ELSE {"none"} : Exited(p, result, bad)

Next ==
  \/ KillSupport \/ Late \/ Unconfigured
  \/ \E p \in Processes : Dies(p) \/ Exits(p)
  \/ \E bad \in Failing :
       \/ ServiceFails(bad) \/ GraphicsLost(bad) \/ Timeout(bad)
       \/ \E p \in Named : NameVanishes(p, bad)
       \/ \E outcome \in {"fine", "wrong"} : BusAnswers(outcome, bad)
  \/ \E bad \in Faults({"terminating"}) : TerminateApplication(bad)
  \/ \E bad \in Faults({"transition", "process", "prepared"}), outcome \in Outcomes :
       \/ Assemble(outcome, bad)
       \/ StartBus(outcome, bad)
       \/ BusConnected(outcome, bad)
       \/ DisplayReady(outcome, bad)
       \/ CaptureAuthorized(outcome, bad)
       \/ InputActivated(outcome, bad)
       \/ \E p \in Named : NameAppears(p, outcome, bad)

Spec == Init /\ [][Next]_vars

\* The event loop fires its timers and waits for its children, and what was
\* killed dies.  No service, no application and no answer is fair.
Fairness ==
  /\ WF_vars(\E bad \in Failing : Timeout(bad)) /\ WF_vars(KillSupport)
  /\ WF_vars(\E p \in Processes : Exits(p))
  /\ WF_vars(\E p \in Processes : session.sent[p] = "kill" /\ Dies(p))
FairSpec == Spec /\ Fairness

----------------------------------------------------------------------------
(* Properties.                                                              *)

TypeOK ==
  /\ session.stage \in {"main", "resources", "created", "private_bus", "graphics", "capture", "input", "portals",
                        "application", "terminating"}
  /\ session.waits \in Callbacks \cup Named
  /\ session.processes \subseteq Processes /\ session.owned \subseteq Named
  /\ session.connection \in {"none", "open", "closed"} /\ session.helper \in {"none", "open", "closed"}
  /\ session.sent \in [Processes -> {"none", "term", "kill"}]
  /\ session.log \subseteq {"prepared", "terminating", "failed", "exited"}
  /\ os \in [Processes -> {"none", "running", "dead"}]
  /\ \A p \in Processes : p \in session.processes <=> os[p] \in {"running", "dead"}
  /\ session.ended \in 0..1 /\ ~session.raised

\* A session takes nothing away too early and keeps nothing too long.  No
\* failure, timer, late callback or unwritable receipt stops the application or
\* takes its services away: while its supervisor runs nothing is disposed of,
\* and it is signalled only when a viewer asked for it ("Failure is never
\* implicit force quit").  A session that is closed holds nothing: a callback
\* that was on its way when it closed opens nothing again, and the session is
\* completed once, after its last process was waited for, with a receipt that
\* says how it ended: with a failure, or with the exit of the application.
ApplicationUndisturbed ==
  /\ TypeOK
  /\ "application" \in session.processes =>
       /\ ~session.closed
       /\ \A p \in Processes \ {"application"} : session.sent[p] = "none"
       /\ session.sent["application"] # "none" => session.stage = "terminating"
  /\ session.closed => /\ session.connection # "open" /\ session.helper # "open"
                       /\ ~session.sharing /\ ~session.timeout
  /\ session.ended = 1 => session.closed /\ session.processes = {} /\ ~session.kill
  /\ session.ended = 1 /\ ~session.unwritten => session.log \cap {"failed", "exited"} # {}

\* The application is launched only into a complete session: bus, compositor,
\* capture, IBus and every portal of the plan were ready and none has exited, and no
\* deadline is left to run (an exit that could not be recorded is not noticed).  The
\* portal of IBus, which a plan with input adds, is not among those asked for.
LaunchedWhole ==
  [][(/\ "application" \in session'.processes \ session.processes
      /\ ~session.unwritten) =>
       /\ Live(session) /\ ~session'.timeout
       /\ {"bus", "compositor", "capture", "ibus"} \cup PortalsOf(session.plan) \subseteq session.processes
       /\ PortalsOf(session.plan) \cup {"ibus"} \subseteq session'.owned]_vars

\* Preparation ends: with a running application, or with everything disposed of
\* and completed; and so does the session when the application has exited.
Vacant == session.stage \notin {"main", "resources", "created"} /\ os["application"] # "running"
Settled == os["application"] = "running" \/ session.ended = 1
SessionEnds == [](~session.unwritten) => (Vacant ~> Settled)
===============================================================================
