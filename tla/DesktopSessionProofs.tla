------------------------ MODULE DesktopSessionProofs ------------------------
(***************************************************************************)
(* Proofs about DesktopSession, for every set of plans and any faults.     *)
(* Every part of a callback maps a session to a session: a lemma per part  *)
(* says what it keeps, also while the callback unwinds, and an action is   *)
(* the composition of its parts.                                           *)
(*                                                                         *)
(* After them Application, the supervisor that the session launches last,  *)
(* for any process numbers and any number of processes: what a number      *)
(* names, and who is whose child, at each step of a pass; and LoginText,   *)
(* the paste child, for any number of pastes and threads.                  *)
(***************************************************************************)
EXTENDS MCDesktopSession, FiniteSets, FiniteSetTheorems, SequenceTheorems, WellFoundedInduction, TLAPS

Stages == {"main", "resources", "created", "private_bus", "graphics", "capture", "input", "portals",
           "application", "terminating"}
\* No process was started yet.
Early == {"main", "resources", "created"}

\* A session in the middle of a callback
Sessions ==
  [plan : Plans, stage : Stages, waits : Callbacks \cup Named, closed : BOOLEAN, failed : BOOLEAN,
   ready : BOOLEAN, application : BOOLEAN, processes : SUBSET Processes, owned : SUBSET Named,
   timeout : BOOLEAN, kill : BOOLEAN, connection : {"none", "open", "closed"},
   helper : {"none", "open", "closed"}, lost : BOOLEAN, sharing : BOOLEAN,
   sent : [Processes -> {"none", "term", "kill"}], completed : BOOLEAN, ended : 0..1,
   log : SUBSET {"prepared", "terminating", "failed", "exited"},
   unwritten : BOOLEAN, raised : BOOLEAN, gone : BOOLEAN]

\* The receipt says how the session ended, or could not.
Told(t) == t.unwritten \/ t.log \cap {"failed", "exited"} # {}

\* Nothing is disposed of and nobody is signalled before the session is closed,
\* but an application that a viewer asked to end.
Untouched(t) == ~t.closed =>
  /\ ~t.kill /\ t.ended = 0
  /\ \A p \in Processes \ {"application"} : t.sent[p] = "none"
  /\ t.sent["application"] # "none" => t.stage = "terminating"

\* A closed session holds nothing open and no application.
Emptied(t) == t.closed =>
  /\ "application" \notin t.processes /\ Told(t)
  /\ t.connection # "open" /\ t.helper # "open" /\ ~t.sharing /\ ~t.timeout

\* A session is completed once, when its last process is gone.
Completed(t) ==
  /\ t.completed <=> t.ended = 0
  /\ t.ended = 1 => t.closed /\ t.processes = {} /\ ~t.kill

\* The sequence is over when the application is there.
Launched(t) ==
  /\ "application" \in t.processes \/ t.application => t.stage \in {"application", "terminating"} /\ t.waits = "nothing"
  /\ t.stage = "terminating" => t.application
  /\ t.stage \in Early =>
       /\ t.waits = "nothing" /\ t.processes = {} /\ ~t.closed /\ ~t.failed
       /\ ~t.timeout /\ t.connection = "none" /\ t.helper = "none"

\* The sequence waits only for what its own plan asks for.
Awaited(plan) == Callbacks \cup {"ibus", "ibus-portal"} \cup PortalsOf(plan)
Planned(t) == t.waits \in Awaited(t.plan)

Sound(t) == Untouched(t) /\ Emptied(t) /\ Completed(t) /\ Launched(t) /\ Planned(t)

\* While the sequence waits, what it has started is there, and what it waited
\* for has its owner.
Services == {"bus", "compositor", "capture", "ibus"}
Before(t, i) == {t.plan.portals[j] : j \in 1..i}
Has(t, processes, owned) == processes \subseteq t.processes /\ owned \subseteq t.owned
Gathered(t) ==
  /\ t.waits \in {"address", "connection"} => Has(t, {"bus"}, {})
  /\ t.waits = "display" => Has(t, {"bus", "compositor"}, {})
  /\ t.waits = "authorized" => Has(t, {"bus", "compositor", "capture"}, {})
  /\ t.waits = "ibus" => Has(t, Services, {})
  /\ t.waits \in {"ibus-portal", "activated"} => Has(t, Services, {"ibus"})
  /\ t.waits \in Named \ {"ibus", "ibus-portal"} =>
       \E i \in DOMAIN t.plan.portals :
         /\ t.plan.portals[i] = t.waits
         /\ Has(t, Services \cup Before(t, i), {"ibus"} \cup Before(t, i - 1))

\* The processes are those the operating system knows.
Known == \A p \in Processes : p \in session.processes <=> os[p] \in {"running", "dead"}

IInv ==
  /\ session \in Sessions /\ ~session.raised
  /\ os \in [Processes -> {"none", "running", "dead"}] /\ Known
  /\ Sound(session)
  /\ Live(session) /\ ~session.unwritten => Gathered(session)

----------------------------------------------------------------------------
(* What the parts of a callback keep.                                       *)

Part(t, u, started) ==
  /\ u \in Sessions /\ Sound(u) /\ u.plan = t.plan
  /\ t.processes \subseteq u.processes /\ u.processes \subseteq t.processes \cup started
  /\ Live(u) => Live(t)
  /\ t.unwritten => u.unwritten

\* What a record does not change
Same(t, u) ==
  /\ u.stage = t.stage /\ u.waits = t.waits /\ u.closed = t.closed
  /\ u.application = t.application /\ u.processes = t.processes /\ u.owned = t.owned
  /\ u.timeout = t.timeout

LEMMA RecordedPart ==
  ASSUME NEW t \in Sessions, Sound(t), NEW record, NEW bad,
         NEW state \in SUBSET {"prepared", "terminating", "failed", "exited"}
  PROVE  /\ Part(t, Recorded(t, record, state, bad), {})
         /\ Same(t, Recorded(t, record, state, bad))
         /\ Recorded(t, record, state, bad).failed = t.failed
         /\ t.raised => Recorded(t, record, state, bad).raised
         /\ ~t.raised => /\ state \subseteq Recorded(t, record, state, bad).log
                         /\ Recorded(t, record, state, bad).raised => Recorded(t, record, state, bad).unwritten
<1>1. CASE t.raised
  BY <1>1 DEF Part, Same, Recorded
<1>2. CASE ~t.raised
  <2> DEFINE log == t.log \cup state
             raised == record \in bad
             unwritten == t.unwritten \/ raised
             v == [t EXCEPT !.log = log, !.raised = raised, !.unwritten = unwritten]
  <2>0. raised \in BOOLEAN /\ unwritten \in BOOLEAN /\ (t.unwritten \/ raised => unwritten)
    OBVIOUS
  <2>1. log \in SUBSET {"prepared", "terminating", "failed", "exited"} /\ t.log \subseteq log /\ state \subseteq log
    BY DEF Sessions
  <2>2. Recorded(t, record, state, bad) = v
    BY <1>2 DEF Recorded
  <2> HIDE DEF log, raised, unwritten
  <2>3. v \in Sessions /\ v.plan = t.plan /\ v.processes = t.processes
        /\ v.log = log /\ v.raised = raised /\ v.unwritten = unwritten
        /\ Same(t, v) /\ v.failed = t.failed
    BY <2>0, <2>1 DEF Sessions, Same
  <2>4. Sound(v)
    BY <2>0, <2>1 DEF Sessions, Sound, Untouched, Emptied, Completed, Launched, Planned, Told
  <2> HIDE DEF v
  <2> QED BY <2>0, <2>1, <2>2, <2>3, <2>4, <1>2 DEF Part, Same, Live
<1> QED BY <1>1, <1>2

LEMMA FinishPart ==
  ASSUME NEW t \in Sessions, Sound(t), t.closed, t.processes = {}
  PROVE  Part(t, Finish(t), {})
<1>1. CASE t.raised
  BY <1>1 DEF Part, Finish
<1>2. CASE ~t.raised
  <2> DEFINE ended == IF t.completed THEN t.ended + 1 ELSE t.ended
             u == [t EXCEPT !.kill = FALSE, !.completed = FALSE, !.ended = ended]
  <2>0. ended = 1
    BY <1>2 DEF Sessions, Sound, Completed
  <2>t. ended \in 0..1
    BY <2>0
  <2>f. Finish(t) = u
    BY <1>2 DEF Finish
  <2> HIDE DEF ended
  <2>1. u.plan = t.plan /\ u.processes = t.processes /\ u.closed = t.closed /\ u.failed = t.failed
        /\ u.unwritten = t.unwritten
    BY DEF Sessions
  <2>3. u \in Sessions
    BY <2>t DEF Sessions
  <2>2. Sound(u)
    BY <2>0 DEF Sessions, Sound, Untouched, Emptied, Completed, Launched, Planned, Told
  <2> QED BY <2>f, <2>1, <2>2, <2>3 DEF Part, Live
<1> QED BY <1>1, <1>2

LEMMA DisposedPart ==
  ASSUME NEW t \in Sessions, Sound(t), ~t.closed, Told(t), "application" \notin t.processes,
         t.stage \notin Early
  PROVE  Part(t, Disposed(t), {}) /\ Disposed(t).closed /\ Disposed(t).processes = t.processes
<1> DEFINE helper == IF t.helper = "open" THEN "closed" ELSE t.helper
           connection == IF t.connection = "open" THEN "closed" ELSE t.connection
           lost == t.lost \/ t.helper = "open"
           signals == [p \in Processes |-> IF p \in t.processes THEN "term" ELSE t.sent[p]]
           kill == t.processes # {}
           u == [t EXCEPT !.closed = TRUE, !.timeout = FALSE, !.owned = {}, !.sharing = FALSE, !.helper = helper,
                          !.lost = lost, !.connection = connection, !.sent = signals, !.kill = kill]
<1>1. /\ helper \in {"none", "closed"} /\ connection \in {"none", "closed"} /\ lost \in BOOLEAN
      /\ kill \in BOOLEAN /\ signals \in [Processes -> {"none", "term", "kill"}]
  BY DEF Sessions
<1>2. Disposed(t) = u
  BY DEF Disposed
<1> HIDE DEF helper, connection, lost, signals, kill
<1>3. u.plan = t.plan /\ u.processes = t.processes /\ u.closed /\ u.unwritten = t.unwritten
  BY DEF Sessions
<1>5. u \in Sessions
  BY <1>1 DEF Sessions
<1>4. Sound(u)
  BY <1>1 DEF Sessions, Sound, Untouched, Emptied, Completed, Launched, Planned, Told
<1> HIDE DEF u
<1> QED BY <1>2, <1>3, <1>4, <1>5 DEF Part, Live

LEMMA RaisedPart ==
  ASSUME NEW t \in Sessions, Sound(t), NEW raised \in BOOLEAN
  PROVE  /\ Part(t, [t EXCEPT !.raised = raised], {})
         /\ Same(t, [t EXCEPT !.raised = raised])
         /\ [t EXCEPT !.raised = raised].raised = raised
         /\ [t EXCEPT !.raised = raised].unwritten = t.unwritten
         /\ [t EXCEPT !.raised = raised].failed = t.failed
<1> DEFINE u == [t EXCEPT !.raised = raised]
<1>1. u \in Sessions /\ u.plan = t.plan /\ u.failed = t.failed /\ u.unwritten = t.unwritten /\ u.raised = raised
      /\ Same(t, u)
  BY DEF Sessions, Same
<1>2. Sound(u)
  BY DEF Sessions, Sound, Untouched, Emptied, Completed, Launched, Planned, Told
<1> HIDE DEF u
<1>3. Part(t, u, {})
  BY <1>1, <1>2 DEF Part, Same, Live
<1> QED BY <1>1, <1>3 DEF u

LEMMA ClosePart ==
  ASSUME NEW t \in Sessions, Sound(t), t.raised \/ t.closed \/ Told(t), t.stage \notin Early
  PROVE  /\ Part(t, Close(t), {})
         /\ t.failed => Close(t).failed
         /\ Close(t).waits = t.waits
         /\ "application" \in t.processes => Same(t, Close(t))
<1>1. CASE t.raised \/ t.closed
  BY <1>1 DEF Part, Close, Same
<1>2. CASE ~t.raised /\ ~t.closed /\ "application" \in t.processes
  <2> DEFINE r == [t EXCEPT !.raised = TRUE]
  <2>1. Close(t) = r
    BY <1>2 DEF Close
  <2>2. Part(t, r, {}) /\ Same(t, r) /\ r.failed = t.failed
    BY RaisedPart
  <2> HIDE DEF r
  <2> QED BY <2>1, <2>2 DEF Same
<1>3. CASE ~t.raised /\ ~t.closed /\ "application" \notin t.processes
  <2>1. Part(t, Disposed(t), {}) /\ Disposed(t).closed /\ Disposed(t).processes = t.processes
    BY <1>3, DisposedPart
  <2>2. t.processes = {} => Part(Disposed(t), Finish(Disposed(t)), {})
    BY <2>1, FinishPart DEF Part
  <2>3. Close(t) = IF t.processes = {} THEN Finish(Disposed(t)) ELSE Disposed(t)
    BY <1>3 DEF Close
  <2>4. Part(t, Close(t), {})
    BY <2>1, <2>2, <2>3 DEF Part
  <2>5. Close(t).failed = t.failed /\ Close(t).waits = t.waits
    BY <2>3 DEF Disposed, Finish, Sessions
  <2> QED BY <1>3, <2>4, <2>5
<1> QED BY <1>1, <1>2, <1>3

LEMMA RevokedPart ==
  ASSUME NEW t \in Sessions, Sound(t)
  PROVE  /\ Part(t, Revoked(t), {}) /\ Same(t, Revoked(t)) /\ Revoked(t).failed = t.failed
         /\ Revoked(t).raised = t.raised /\ Revoked(t).unwritten = t.unwritten /\ Revoked(t).log = t.log
<1>1. CASE t.raised \/ t.helper = "none"
  BY <1>1 DEF Part, Revoked, Same
<1>2. CASE ~(t.raised \/ t.helper = "none")
  <2> DEFINE u == [t EXCEPT !.lost = TRUE]
  <2>1. u \in Sessions /\ u.plan = t.plan /\ u.failed = t.failed /\ u.unwritten = t.unwritten /\ u.log = t.log
        /\ u.raised = t.raised /\ Same(t, u)
    BY DEF Sessions, Same
  <2>2. Sound(u)
    BY DEF Sessions, Sound, Untouched, Emptied, Completed, Launched, Planned, Told
  <2>3. Revoked(t) = u
    BY <1>2 DEF Revoked
  <2> HIDE DEF u
  <2> QED BY <2>1, <2>2, <2>3 DEF Part, Same, Live
<1> QED BY <1>1, <1>2

LEMMA FailPart ==
  ASSUME NEW t \in Sessions, Sound(t), t.stage \notin Early, NEW bad
  PROVE  /\ Part(t, Fail(t, bad), {})
         /\ ~t.raised /\ t.stage # "terminating" => ~Live(Fail(t, bad))
         /\ t.stage = "terminating" => Fail(t, bad) = t
         /\ "application" \in t.processes => Same(t, Fail(t, bad))
<1>1. CASE t.raised \/ t.closed \/ t.failed \/ t.stage = "terminating"
  BY <1>1 DEF Part, Fail, Same, Live
<1>2. CASE ~(t.raised \/ t.closed \/ t.failed \/ t.stage = "terminating")
  <2> DEFINE u == [t EXCEPT !.failed = TRUE]
             v == Recorded(u, "failed", {"failed"}, bad)
             w == Revoked(v)
  <2>1. u \in Sessions /\ u.plan = t.plan /\ u.failed /\ u.unwritten = t.unwritten /\ ~u.raised /\ Same(t, u)
    BY <1>2 DEF Sessions, Same
  <2>2. Sound(u)
    BY <1>2 DEF Sessions, Sound, Untouched, Emptied, Completed, Launched, Planned, Told
  <2>3. Fail(t, bad) = IF t.application THEN w ELSE Close(w)
    BY <1>2 DEF Fail
  <2> HIDE DEF u
  <2>4. /\ Part(u, v, {}) /\ Same(u, v) /\ v.failed
        /\ "failed" \in v.log
    BY <2>1, <2>2, RecordedPart
  <2> HIDE DEF v
  <2>5. Part(v, w, {}) /\ Same(v, w) /\ w.failed /\ "failed" \in w.log
    BY <2>4, RevokedPart DEF Part
  <2> HIDE DEF w
  <2>6. Told(w) /\ w.stage \notin Early
    BY <2>1, <2>4, <2>5 DEF Told, Same
  <2>7. Part(w, Close(w), {}) /\ Close(w).failed /\ ("application" \in w.processes => Same(w, Close(w)))
    BY <2>5, <2>6, ClosePart DEF Part
  <2> QED BY <1>2, <2>1, <2>3, <2>4, <2>5, <2>7 DEF Part, Same, Live
<1> QED BY <1>1, <1>2

LEMMA GuardedPart ==
  ASSUME NEW t \in Sessions, Sound(t), t.stage \notin Early, NEW bad
  PROVE  /\ Part(t, Guarded(t, bad), {})
         /\ ~t.raised => Guarded(t, bad) = t
         /\ t.raised /\ t.stage # "terminating" => ~Live(Guarded(t, bad))
         /\ "application" \in t.processes => Same(t, Guarded(t, bad))
<1>1. CASE ~t.raised
  BY <1>1 DEF Part, Guarded, Same
<1>2. CASE t.raised
  <2> DEFINE u == [t EXCEPT !.raised = FALSE]
  <2>1. Part(t, u, {}) /\ Same(t, u) /\ ~u.raised
    BY RaisedPart
  <2>2. Guarded(t, bad) = Fail(u, bad)
    BY <1>2 DEF Guarded
  <2> HIDE DEF u
  <2>3. /\ Part(u, Fail(u, bad), {})
        /\ u.stage # "terminating" => ~Live(Fail(u, bad))
        /\ "application" \in u.processes => Same(u, Fail(u, bad))
    BY <2>1, FailPart DEF Part, Same
  <2> QED BY <1>2, <2>1, <2>2, <2>3 DEF Part, Same
<1> QED BY <1>1, <1>2

\* The sequence is on its way: there is no application, and a process was or may
\* be started.
Starting(t) ==
  /\ t \in Sessions /\ Sound(t)
  /\ t.stage \notin Early \cup {"terminating"} /\ ~t.application /\ "application" \notin t.processes

LEMMA TransitionPart ==
  ASSUME NEW t \in Sessions, Starting(t), NEW bad, NEW stage \in Stages \ (Early \cup {"terminating"})
  PROVE  /\ Part(t, Transition(t, stage, bad), {}) /\ Starting(Transition(t, stage, bad))
         /\ Transition(t, stage, bad).processes = t.processes /\ Transition(t, stage, bad).owned = t.owned
         /\ Transition(t, stage, bad).waits = t.waits /\ Transition(t, stage, bad).closed = t.closed
         /\ ~Transition(t, stage, bad).raised => ~t.raised /\ Transition(t, stage, bad).stage = stage
<1>1. CASE t.raised
  BY <1>1 DEF Transition, Recorded, Part, Starting
<1>2. CASE ~t.raised
  <2> DEFINE u == [t EXCEPT !.stage = stage]
             v == Recorded(u, "transition", {}, bad)
  <2>1. /\ u \in Sessions /\ u.plan = t.plan /\ u.processes = t.processes /\ u.owned = t.owned /\ u.waits = t.waits
        /\ u.closed = t.closed /\ u.failed = t.failed /\ u.unwritten = t.unwritten /\ u.stage = stage
        /\ u.application = t.application
    BY DEF Sessions
  <2>2. Sound(u)
    BY DEF Sessions, Starting, Sound, Untouched, Emptied, Completed, Launched, Planned, Told
  <2>3. Transition(t, stage, bad) = v
    BY <1>2 DEF Transition
  <2> HIDE DEF u
  <2>4. Part(u, v, {}) /\ Same(u, v)
    BY <2>1, <2>2, RecordedPart
  <2> HIDE DEF v
  <2> QED BY <1>2, <2>1, <2>3, <2>4 DEF Part, Same, Starting, Live
<1> QED BY <1>1, <1>2

LEMMA SpawnPart ==
  ASSUME NEW t \in Sessions, Starting(t), NEW bad, NEW p \in Processes,
         p = "application" => t.raised \/ (t.stage = "application" /\ t.waits = "nothing")
  PROVE  /\ Part(t, Spawn(t, p, bad), {p})
         /\ Spawn(t, p, bad).stage = t.stage /\ Spawn(t, p, bad).waits = t.waits
         /\ Spawn(t, p, bad).owned = t.owned /\ Spawn(t, p, bad).application = t.application
         /\ Spawn(t, p, bad).timeout = t.timeout /\ Spawn(t, p, bad).closed = t.closed
         /\ p \in Spawn(t, p, bad).processes \ t.processes => ~t.raised
         /\ ~Spawn(t, p, bad).raised => ~t.raised /\ p \in Spawn(t, p, bad).processes
<1>1. CASE t.raised
  BY <1>1 DEF Spawn, Part, Starting
<1>2. CASE ~t.raised /\ (t.closed \/ p \in t.processes)
  <2> DEFINE r == [t EXCEPT !.raised = TRUE]
  <2>1. Spawn(t, p, bad) = r
    BY <1>2 DEF Spawn
  <2>2. r \in Sessions /\ Part(t, r, {}) /\ Same(t, r) /\ r.raised
    BY RaisedPart DEF Part, Starting
  <2> HIDE DEF r
  <2> QED BY <2>1, <2>2 DEF Starting, Same, Part
<1>3. CASE ~t.raised /\ ~(t.closed \/ p \in t.processes)
  <2> DEFINE u == [t EXCEPT !.processes = @ \cup {p}]
             v == Recorded(u, "process", {}, bad)
  <2>1. /\ u.plan = t.plan /\ u.processes = t.processes \cup {p} /\ u.owned = t.owned /\ u.waits = t.waits
        /\ u.closed = t.closed /\ u.failed = t.failed /\ u.unwritten = t.unwritten /\ u.stage = t.stage
        /\ u.application = t.application /\ u.timeout = t.timeout
    BY DEF Sessions
  <2>5. u \in Sessions
    BY DEF Sessions
  <2>2. Sound(u)
    BY <1>3 DEF Sessions, Starting, Sound, Untouched, Emptied, Completed, Launched, Planned, Told
  <2>3. Spawn(t, p, bad) = v
    BY <1>3 DEF Spawn
  <2> HIDE DEF u
  <2>4. Part(u, v, {}) /\ Same(u, v)
    BY <2>5, <2>2, RecordedPart
  <2> HIDE DEF v
  <2> QED BY <1>3, <2>1, <2>3, <2>4 DEF Part, Same, Live
<1> QED BY <1>1, <1>2, <1>3

LEMMA StartPart ==
  ASSUME NEW t \in Sessions, Starting(t), NEW bad, NEW p \in Processes \ {"application"}, NEW outcome,
         NEW waits \in Awaited(t.plan) \cap (Callbacks \cup Named)
  PROVE  /\ Part(t, Start(t, p, outcome, waits, bad), {p}) /\ Starting(Start(t, p, outcome, waits, bad))
         /\ Start(t, p, outcome, waits, bad).owned = t.owned
         /\ ~Start(t, p, outcome, waits, bad).raised =>
              ~t.raised /\ Start(t, p, outcome, waits, bad).waits = waits /\ p \in Start(t, p, outcome, waits, bad).processes
<1>1. CASE t.raised \/ outcome = "refused"
  <2> DEFINE r == [t EXCEPT !.raised = TRUE]
  <2>1. Start(t, p, outcome, waits, bad) = r
    BY <1>1 DEF Start
  <2>2. r \in Sessions /\ Part(t, r, {}) /\ Same(t, r) /\ r.raised
    BY RaisedPart DEF Part, Starting
  <2> HIDE DEF r
  <2> QED BY <2>1, <2>2 DEF Starting, Same, Part
<1>2. CASE ~(t.raised \/ outcome = "refused")
  <2> DEFINE u == Spawn(t, p, bad)
  <2>1. /\ Part(t, u, {p}) /\ u.stage = t.stage /\ u.owned = t.owned /\ u.application = t.application
        /\ ~u.raised => p \in u.processes
    BY SpawnPart
  <2>2. Start(t, p, outcome, waits, bad) =
          IF u.raised \/ outcome = "broken" THEN [u EXCEPT !.raised = TRUE] ELSE [u EXCEPT !.waits = waits]
    BY <1>2 DEF Start
  <2> HIDE DEF u
  <2>3. u \in Sessions /\ Starting(u)
    BY <2>1 DEF Part, Starting
  <2>4. CASE u.raised \/ outcome = "broken"
    <3> DEFINE r == [u EXCEPT !.raised = TRUE]
    <3>1. Start(t, p, outcome, waits, bad) = r
      BY <2>2, <2>4
    <3>2. r \in Sessions /\ Part(u, r, {}) /\ Same(u, r) /\ r.raised
      BY <2>1, <2>3, RaisedPart DEF Part, Starting
    <3> HIDE DEF r
    <3> QED BY <3>1, <3>2, <2>1, <2>3 DEF Starting, Same, Part, Live
  <2>5. CASE ~(u.raised \/ outcome = "broken")
    <3> DEFINE v == [u EXCEPT !.waits = waits]
    <3>1. Start(t, p, outcome, waits, bad) = v
      BY <2>2, <2>5
    <3>2. v \in Sessions /\ v.plan = u.plan /\ v.processes = u.processes /\ v.owned = u.owned /\ v.stage = u.stage
          /\ v.closed = u.closed /\ v.failed = u.failed /\ v.unwritten = u.unwritten /\ v.waits = waits
          /\ v.application = u.application
      BY <2>3 DEF Sessions
    <3>3. Planned(v)
      BY <2>1, <3>2 DEF Part, Planned
    <3>4. Untouched(v) /\ Emptied(v) /\ Completed(v) /\ Launched(v)
      BY <2>3 DEF Sessions, Starting, Sound, Untouched, Emptied, Completed, Launched, Told
    <3> HIDE DEF v
    <3> QED BY <1>2, <2>1, <2>3, <2>5, <3>1, <3>2, <3>3, <3>4 DEF Part, Starting, Sound, Live
  <2> QED BY <2>4, <2>5
<1> QED BY <1>1, <1>2

\* An application that was launched: no deadline is left, and nothing was given up.
Whole(t, u) == "application" \in u.processes => ~t.raised /\ ~t.closed /\ ~u.timeout /\ u.owned = t.owned

LEMMA LaunchPart ==
  ASSUME NEW t \in Sessions, Starting(t), t.waits = "nothing", Live(t), NEW bad, NEW outcome
  PROVE  /\ Part(t, Launch(t, outcome, bad), {"application"})
         /\ Launch(t, outcome, bad).stage \notin Early \cup {"terminating"}
         /\ Launch(t, outcome, bad).waits = "nothing"
         /\ Whole(t, Launch(t, outcome, bad))
<1> DEFINE u == Transition(t, "application", bad)
           v == IF u.raised THEN u ELSE [u EXCEPT !.timeout = FALSE, !.sharing = TRUE]
           w == IF outcome = "refused" THEN Raise(v) ELSE Spawn(v, "application", bad)
           x == IF w.raised THEN w ELSE [w EXCEPT !.application = TRUE]
           y == [x EXCEPT !.ready = TRUE]
           z == Recorded(y, "prepared", {"prepared"}, bad)
<1>1. /\ Part(t, u, {}) /\ Starting(u) /\ u.waits = "nothing" /\ u.processes = t.processes /\ u.owned = t.owned
      /\ ~u.closed /\ (~u.raised => ~t.raised /\ u.stage = "application")
  BY TransitionPart DEF Stages, Early, Live
<1>2. Launch(t, outcome, bad) = IF x.raised \/ outcome = "broken" THEN Raise(x) ELSE z
  BY DEF Launch
<1> HIDE DEF u
<1>3. /\ Part(t, v, {}) /\ Starting(v) /\ v.waits = "nothing" /\ v.processes = t.processes /\ v.owned = t.owned
      /\ (~v.raised => ~t.raised /\ v.stage = "application" /\ ~v.timeout) /\ ~v.closed
  <2>1. CASE u.raised
    BY <1>1, <2>1
  <2>2. CASE ~u.raised
    <3> DEFINE r == [u EXCEPT !.timeout = FALSE, !.sharing = TRUE]
    <3>1. /\ r \in Sessions /\ r.plan = u.plan /\ r.processes = u.processes /\ r.owned = u.owned /\ r.stage = u.stage
          /\ r.closed = u.closed /\ r.failed = u.failed /\ r.unwritten = u.unwritten /\ r.waits = u.waits
          /\ r.application = u.application /\ ~r.timeout
      BY <1>1 DEF Starting, Sessions
    <3>2. Sound(r)
      BY <1>1, <2>2 DEF Sessions, Starting, Sound, Untouched, Emptied, Completed, Launched, Planned, Told
    <3>3. v = r
      BY <2>2
    <3> HIDE DEF r, v
    <3> QED BY <1>1, <2>2, <3>1, <3>2, <3>3 DEF Part, Starting, Live
  <2> QED BY <2>1, <2>2
<1> HIDE DEF v
<1>4. /\ Part(t, w, {"application"}) /\ w.waits = "nothing" /\ w.stage \notin Early \cup {"terminating"}
      /\ Whole(t, w) /\ (~w.raised => "application" \in w.processes)
  <2>1. CASE outcome = "refused"
    <3>1. w = [v EXCEPT !.raised = TRUE]
      BY <2>1 DEF Raise
    <3> HIDE DEF w
    <3> QED BY <3>1, <1>3, RaisedPart DEF Starting, Part, Same, Whole, Live
  <2>2. CASE outcome # "refused"
    <3>1. w = Spawn(v, "application", bad)
      BY <2>2
    <3>2. /\ Part(v, w, {"application"}) /\ w.stage = v.stage /\ w.waits = v.waits /\ w.owned = v.owned
          /\ w.timeout = v.timeout
          /\ "application" \in w.processes \ v.processes => ~v.raised
          /\ ~w.raised => "application" \in w.processes
      BY <3>1, <1>3, SpawnPart DEF Starting, Processes
    <3> HIDE DEF w
    <3> QED BY <1>3, <3>2 DEF Part, Starting, Whole, Live
  <2> QED BY <2>1, <2>2
<1> HIDE DEF w
<1>5. /\ Part(t, x, {"application"}) /\ x.waits = "nothing" /\ x.stage \notin Early \cup {"terminating"}
      /\ Whole(t, x)
  <2>1. CASE w.raised
    BY <1>4, <2>1
  <2>2. CASE ~w.raised
    <3> DEFINE r == [w EXCEPT !.application = TRUE]
    <3>1. /\ r \in Sessions /\ r.plan = w.plan /\ r.processes = w.processes /\ r.owned = w.owned /\ r.stage = w.stage
          /\ r.closed = w.closed /\ r.failed = w.failed /\ r.unwritten = w.unwritten /\ r.waits = w.waits
          /\ r.timeout = w.timeout
      BY <1>4 DEF Part, Sessions
    <3>2. Sound(r)
      BY <1>4, <2>2 DEF Part, Sessions, Sound, Untouched, Emptied, Completed, Launched, Planned, Told
    <3>3. x = r
      BY <2>2
    <3> HIDE DEF r, x
    <3> QED BY <1>4, <3>1, <3>2, <3>3 DEF Part, Live, Whole
  <2> QED BY <2>1, <2>2
<1> HIDE DEF x
<1>6. CASE x.raised \/ outcome = "broken"
  <2> DEFINE r == [x EXCEPT !.raised = TRUE]
  <2>1. Launch(t, outcome, bad) = r
    BY <1>2, <1>6 DEF Raise
  <2>2. r \in Sessions /\ Part(x, r, {}) /\ Same(x, r) /\ r.raised
    BY <1>5, RaisedPart DEF Part, Starting
  <2> HIDE DEF r
  <2> QED BY <2>1, <2>2, <1>5 DEF Part, Same, Whole, Live
<1>7. CASE ~(x.raised \/ outcome = "broken")
  <2>1. /\ y \in Sessions /\ y.plan = x.plan /\ y.unwritten = x.unwritten /\ y.failed = x.failed /\ Same(x, y)
    BY <1>5 DEF Part, Sessions, Same
  <2>2. Sound(y)
    BY <1>5 DEF Part, Sessions, Sound, Untouched, Emptied, Completed, Launched, Planned, Told
  <2> HIDE DEF y
  <2>3. Part(y, z, {}) /\ Same(y, z)
    BY <2>1, <2>2, RecordedPart
  <2> HIDE DEF z
  <2> QED BY <1>2, <1>5, <1>7, <2>1, <2>3 DEF Part, Same, Whole, Live
<1> QED BY <1>6, <1>7

----------------------------------------------------------------------------
(* The step that a callback makes.                                          *)

LEMMA Names ==
  /\ {"ibus", "ibus-portal"} \subseteq Named /\ Named \cap Callbacks = {} /\ "application" \notin Named
  /\ Named \subseteq Processes /\ Named \cap {"bus", "compositor", "capture"} = {}
  /\ \A plan \in Plans : PortalsOf(plan) \subseteq Named \ {"ibus", "ibus-portal"}
  BY PlansAssumption DEF Named, Callbacks, Processes

\* What one step may do to the application: launch it into a complete session.
LaunchStep ==
  /\ "application" \in session'.processes \ session.processes
  /\ ~session.unwritten
  => /\ Live(session) /\ ~session'.timeout
     /\ Services \cup PortalsOf(session.plan) \subseteq session.processes
     /\ PortalsOf(session.plan) \cup {"ibus"} \subseteq session'.owned

LEMMA NothingGathered == ASSUME NEW t, t.waits = "nothing" PROVE Gathered(t)
  BY Names DEF Gathered, Callbacks

LEMMA LeavesInv ==
  ASSUME IInv, NEW t \in Sessions, Sound(t), session.processes \subseteq t.processes,
         Live(t) /\ ~t.unwritten => Gathered(t), Leaves(t)
  PROVE  IInv' /\ Same(t, session')
<1>1. session' = [t EXCEPT !.raised = FALSE]
  BY DEF Leaves
<1>2. /\ session' \in Sessions /\ Part(t, session', {}) /\ Same(t, session') /\ ~session'.raised
      /\ session'.failed = t.failed /\ session'.unwritten = t.unwritten
  BY <1>1, RaisedPart DEF Part
<1>3. Live(session') /\ ~session'.unwritten => Gathered(session')
  BY <1>2 DEF Part, Same, Live, Gathered, Has, Before
<1>4. (os \in [Processes -> {"none", "running", "dead"}] /\ Known)'
  BY <1>2 DEF Leaves, IInv, Known, Same
<1> QED BY <1>2, <1>3, <1>4 DEF IInv, Part, Sound, Untouched, Emptied, Completed, Launched, Planned, Told, Live, Gathered, Has

\* The session that a step of the sequence leaves to its guard
Sequel(u) ==
  /\ u \in Sessions /\ Sound(u) /\ u.plan = session.plan /\ session.processes \subseteq u.processes
  /\ u.stage \notin Early \cup {"terminating"}
  /\ session.unwritten => u.unwritten
  /\ ~u.raised /\ ~u.unwritten => Gathered(u)
  /\ "application" \in u.processes /\ ~session.unwritten =>
       /\ ~u.timeout
       /\ Services \cup PortalsOf(session.plan) \subseteq session.processes
       /\ PortalsOf(session.plan) \cup {"ibus"} \subseteq u.owned

LEMMA ContinuesInv ==
  ASSUME IInv, Live(session), NEW u, Sequel(u), NEW bad, Continues(u, bad)
  PROVE  IInv' /\ LaunchStep
<1> DEFINE v == Guarded(u, bad)
<1>1. /\ v \in Sessions /\ Part(u, v, {})
      /\ ~u.raised => v = u
      /\ u.raised => ~Live(v)
      /\ "application" \in u.processes => Same(u, v)
  BY GuardedPart DEF Sequel, Part
<1>2. Leaves(v)
  BY DEF Continues
<1> HIDE DEF v
<1>3. Live(v) /\ ~v.unwritten => Gathered(v)
  BY <1>1 DEF Sequel
<1>4. IInv' /\ Same(v, session')
  BY <1>1, <1>2, <1>3, LeavesInv DEF Part, Sequel
<1>5. LaunchStep
  BY <1>1, <1>4 DEF LaunchStep, Sequel, Part, Same
<1> QED BY <1>4, <1>5

LEMMA ArrivedPart ==
  ASSUME IInv, NEW w, Arrives(w), w # "nothing"
  PROVE  /\ Arrived \in Sessions /\ Starting(Arrived) /\ Live(Arrived) /\ ~Arrived.raised
         /\ Arrived.waits = "nothing" /\ Arrived.plan = session.plan /\ Arrived.processes = session.processes
         /\ Arrived.owned = session.owned /\ Arrived.unwritten = session.unwritten
         /\ Arrived.connection = session.connection
         /\ ~session.unwritten => Gathered(session)
<1>1. session \in Sessions /\ Sound(session) /\ ~session.raised /\ session.waits = w /\ Live(session)
  BY DEF IInv, Arrives
<1>2. /\ Arrived.waits = "nothing" /\ Arrived.plan = session.plan /\ Arrived.processes = session.processes
      /\ Arrived.owned = session.owned /\ Arrived.unwritten = session.unwritten /\ Arrived.raised = session.raised
      /\ Arrived.connection = session.connection /\ Arrived.stage = session.stage
      /\ Arrived.closed = session.closed /\ Arrived.failed = session.failed
      /\ Arrived.application = session.application
  BY <1>1 DEF Arrived, Sessions
<1>3. Arrived \in Sessions
  BY <1>1 DEF Arrived, Sessions, Callbacks
<1>4. Sound(Arrived)
  BY <1>1 DEF Arrived, Sessions, Sound, Untouched, Emptied, Completed, Launched, Planned, Awaited, Callbacks, Told
<1>5. session.stage \notin Early \cup {"terminating"} /\ ~session.application /\ "application" \notin session.processes
  BY <1>1 DEF Sound, Launched
<1> QED BY <1>1, <1>2, <1>3, <1>4, <1>5 DEF IInv, Live, Starting

\* What the session holds before the next process of the sequence is started.
Onward(t) ==
  /\ t \in Sessions /\ Starting(t) /\ t.plan = session.plan /\ t.processes = session.processes
  /\ session.unwritten => t.unwritten

LEMMA RaiseSequel == ASSUME IInv, NEW t, Onward(t) PROVE Sequel(Raise(t))
<1> DEFINE r == [t EXCEPT !.raised = TRUE]
<1>1. r \in Sessions /\ Part(t, r, {}) /\ Same(t, r) /\ r.raised
  BY RaisedPart DEF Part, Starting, Onward
<1>2. Raise(t) = r
  BY DEF Raise
<1> HIDE DEF r
<1> QED BY <1>1, <1>2 DEF Sequel, Part, Same, Onward, Starting

LEMMA StartSequel ==
  ASSUME IInv, NEW t, Onward(t), NEW bad, NEW outcome, NEW p \in Processes \ {"application"},
         NEW waits \in Awaited(t.plan) \cap (Callbacks \cup Named),
         ~session.unwritten =>
           \A u : /\ u.plan = t.plan /\ t.processes \cup {p} \subseteq u.processes
                  /\ u.owned = t.owned /\ u.waits = waits
                  => Gathered(u)
  PROVE  Sequel(Start(t, p, outcome, waits, bad))
<1> DEFINE u == Start(t, p, outcome, waits, bad)
<1>1. /\ u \in Sessions /\ Part(t, u, {p}) /\ Starting(u) /\ u.owned = t.owned
      /\ ~u.raised => ~t.raised /\ u.waits = waits /\ p \in u.processes
  BY StartPart DEF Onward, Part
<1> HIDE DEF u
<1>2. ~u.raised /\ ~u.unwritten => Gathered(u)
  BY <1>1 DEF Onward, Part
<1>3. Sequel(u)
  BY <1>1, <1>2 DEF Sequel, Part, Onward, Starting
<1> QED BY <1>3 DEF u

\* The portals before the i-th are ready.
LEMMA NextPortalSequel ==
  ASSUME IInv, NEW t, Onward(t), NEW bad, NEW outcome, NEW i \in 1..(Len(t.plan.portals) + 1),
         i > Len(t.plan.portals) => Live(t) /\ t.waits = "nothing",
         ~session.unwritten => Has(t, Services \cup Before(t, i - 1), {"ibus"} \cup Before(t, i - 1))
  PROVE  Sequel(NextPortal(t, i, outcome, bad))
<1>a. t \in Sessions /\ t.plan = session.plan /\ t.plan \in Plans /\ t.plan.portals \in Seq(STRING)
  BY PlansAssumption DEF Onward, Sessions
<1>b. DOMAIN t.plan.portals = 1..Len(t.plan.portals)
  BY <1>a
<1>c. PortalsOf(t.plan) = {t.plan.portals[j] : j \in DOMAIN t.plan.portals}
  BY DEF PortalsOf, ToSet
<1>0. t \in Sessions /\ t.plan = session.plan /\ t.plan \in Plans /\ t.plan.portals \in Seq(STRING)
      /\ PortalsOf(t.plan) = {t.plan.portals[j] : j \in 1..Len(t.plan.portals)}
  BY <1>a, <1>b, <1>c
<1>1. CASE i > Len(t.plan.portals)
  <2> DEFINE u == Launch(t, outcome, bad)
  <2>1. i - 1 = Len(t.plan.portals) /\ Before(t, i - 1) = PortalsOf(t.plan)
    BY <1>0, <1>1 DEF Before
  <2>2. Part(t, u, {"application"}) /\ u.stage \notin Early \cup {"terminating"} /\ u.waits = "nothing" /\ Whole(t, u)
    BY <1>1, LaunchPart DEF Onward
  <2>3. NextPortal(t, i, outcome, bad) = u
    BY <1>0, <1>1 DEF NextPortal
  <2> HIDE DEF u
  <2>4. Gathered(u)
    BY <2>2, NothingGathered
  <2> QED BY <1>0, <2>1, <2>2, <2>3, <2>4 DEF Sequel, Part, Onward, Whole, Has
<1>2. CASE i <= Len(t.plan.portals)
  <2> DEFINE p == t.plan.portals[i]
  <2>1. i \in DOMAIN t.plan.portals /\ p \in PortalsOf(t.plan)
    BY <1>0, <1>2
  <2>2. p \in Named \ {"ibus", "ibus-portal"} /\ p \in Processes \ {"application"} /\ p \in Awaited(t.plan)
    BY <1>0, <2>1, Names DEF Awaited
  <2>3. ~session.unwritten =>
          \A u : /\ u.plan = t.plan /\ t.processes \cup {p} \subseteq u.processes
                 /\ u.owned = t.owned /\ u.waits = p
                 => Gathered(u)
    <3> SUFFICES ASSUME ~session.unwritten, NEW u, u.plan = t.plan, t.processes \cup {p} \subseteq u.processes,
                        u.owned = t.owned, u.waits = p
                 PROVE  Gathered(u)
      OBVIOUS
    <3>1. Before(u, i) = Before(t, i - 1) \cup {p} /\ Before(u, i - 1) = Before(t, i - 1)
      BY <1>2, <1>0 DEF Before
    <3>2. Has(u, Services \cup Before(u, i), {"ibus"} \cup Before(u, i - 1))
      BY <3>1 DEF Has
    <3>3. p \notin Callbacks
      BY <2>2, Names
    <3> HIDE DEF p
    <3> QED BY <2>1, <2>2, <3>2, <3>3 DEF Gathered, Callbacks, p
  <2>4. NextPortal(t, i, outcome, bad) = Start(t, p, outcome, p, bad)
    BY <1>0, <1>2 DEF NextPortal
  <2> HIDE DEF p
  <2> QED BY <2>2, <2>3, <2>4, StartSequel
<1> QED BY <1>0, <1>1, <1>2

\* All services have an owner and activation is the last of the input's steps.
LEMMA StartPortalsSequel ==
  ASSUME IInv, NEW t, Onward(t), Live(t), t.waits = "nothing", NEW bad, NEW outcome,
         ~session.unwritten => Has(t, Services, {"ibus"})
  PROVE  Sequel(StartPortals(t, outcome, bad))
<1>0. t \in Sessions /\ t.plan = session.plan /\ t.plan \in Plans /\ t.plan.portals \in Seq(STRING)
      /\ \A u : Before(u, 0) = {}
  BY PlansAssumption DEF Onward, Sessions, Before
<1>1. CASE t.plan.portals = <<>>
  <2>1. StartPortals(t, outcome, bad) = NextPortal(t, 1, outcome, bad)
    BY <1>0, <1>1 DEF StartPortals, NextPortal
  <2>2. 1 \in 1..(Len(t.plan.portals) + 1) /\ 1 - 1 = 0
    BY <1>1
  <2> QED BY <1>0, <2>1, <2>2, NextPortalSequel
<1>2. CASE t.plan.portals # <<>>
  <2> DEFINE u == Transition(t, "portals", bad)
  <2>1. StartPortals(t, outcome, bad) = NextPortal(u, 1, outcome, bad)
    BY <1>0, <1>2 DEF StartPortals
  <2>2. Part(t, u, {}) /\ Starting(u) /\ u.processes = t.processes /\ u.owned = t.owned
    BY TransitionPart DEF Onward, Stages, Early
  <2> HIDE DEF u
  <2>3. Onward(u) /\ u.plan = t.plan
    BY <2>2 DEF Part, Onward, Starting
  <2>4. 1 \in 1..(Len(u.plan.portals) + 1) /\ ~(1 > Len(u.plan.portals)) /\ 1 - 1 = 0
    BY <1>0, <1>2, <2>3
  <2>5. ~session.unwritten => Has(u, Services \cup Before(u, 0), {"ibus"} \cup Before(u, 0))
    BY <1>0, <2>2 DEF Has
  <2> QED BY <2>1, <2>3, <2>4, <2>5, NextPortalSequel
<1> QED BY <1>1, <1>2

LEMMA AfterOwnerSequel ==
  ASSUME IInv, NEW p \in Named, Arrives(p), NEW t, Onward(t), Live(t), t.waits = "nothing",
         t.owned = session.owned \cup {p}, NEW bad, NEW outcome
  PROVE  Sequel(AfterOwner(t, p, outcome, bad))
<1>0. t \in Sessions /\ t.plan = session.plan /\ t.plan \in Plans /\ p \in Awaited(t.plan)
      /\ session.waits = p /\ (~session.unwritten => Gathered(session)) /\ t.processes = session.processes
  BY DEF Onward, Sessions, Arrives, IInv, Sound, Planned
<1>1. CASE p = "ibus" /\ t.plan.input
  <2>1. AfterOwner(t, p, outcome, bad) = Start(t, "ibus-portal", outcome, "ibus-portal", bad)
    BY <1>0, <1>1 DEF AfterOwner
  <2>2. "ibus-portal" \in Awaited(t.plan) \cap (Callbacks \cup Named) /\ "ibus-portal" \in Processes \ {"application"}
    BY Names DEF Awaited
  <2>3. ~session.unwritten => Has(t, Services, {"ibus"})
    BY <1>0, <1>1 DEF Gathered, Has
  <2>4. ~session.unwritten =>
          \A u : /\ u.plan = t.plan /\ t.processes \cup {"ibus-portal"} \subseteq u.processes
                 /\ u.owned = t.owned /\ u.waits = "ibus-portal"
                 => Gathered(u)
    BY <2>3 DEF Gathered, Has
  <2> QED BY <2>1, <2>2, <2>4, StartSequel
<1>2. CASE p \in {"ibus", "ibus-portal"} /\ ~(p = "ibus" /\ t.plan.input)
  <2>1. CASE outcome = "fine"
    <3> DEFINE u == [t EXCEPT !.waits = "activated"]
    <3>1. AfterOwner(t, p, outcome, bad) = u
      BY <1>0, <1>2, <2>1 DEF AfterOwner
    <3>2. /\ u.plan = t.plan /\ u.processes = t.processes /\ u.owned = t.owned /\ u.waits = "activated"
          /\ u.stage = t.stage /\ u.unwritten = t.unwritten /\ u.application = t.application
      BY <1>0 DEF Sessions
    <3>3. u \in Sessions
      BY <1>0 DEF Sessions, Callbacks
    <3>4. Sound(u)
      BY <1>0 DEF Sessions, Onward, Starting, Sound, Untouched, Emptied, Completed, Launched, Planned, Awaited, Callbacks, Told
    <3> HIDE DEF u
    <3>5. ~session.unwritten => Has(u, Services, {"ibus"})
      BY <1>0, <1>2, <3>2 DEF Gathered, Has
    <3>6. ~session.unwritten => Gathered(u)
      BY <3>2, <3>5, Names DEF Gathered, Callbacks
    <3> QED BY <3>1, <3>2, <3>3, <3>4, <3>6 DEF Sequel, Onward, Starting
  <2>2. CASE outcome # "fine"
    <3>1. AfterOwner(t, p, outcome, bad) = Raise(t)
      BY <1>0, <1>2, <2>2 DEF AfterOwner
    <3> QED BY <3>1, RaiseSequel
  <2> QED BY <2>1, <2>2
<1>3. CASE p \notin {"ibus", "ibus-portal"}
  <2> DEFINE i == CHOOSE i \in DOMAIN session.plan.portals : session.plan.portals[i] = p
  <2>1. AfterOwner(t, p, outcome, bad) = NextPortal(t, 1 + i, outcome, bad)
    BY <1>3 DEF AfterOwner
  <2>2. session.plan.portals \in Seq(STRING) /\ IsInjective(session.plan.portals)
    BY <1>0, PlansAssumption
  <2>3. p \in PortalsOf(session.plan)
    BY <1>0, <1>3, Names DEF Awaited
  <2>4. i \in DOMAIN session.plan.portals /\ session.plan.portals[i] = p
    BY <2>3 DEF PortalsOf, ToSet
  <2>5. \A j \in DOMAIN session.plan.portals : session.plan.portals[j] = p => j = i
    BY <2>2, <2>4 DEF IsInjective
  <2> HIDE DEF i
  <2>6. DOMAIN session.plan.portals = 1..Len(session.plan.portals) /\ Len(session.plan.portals) \in Nat
    BY <2>2
  <2>7. i \in 1..Len(session.plan.portals) /\ 1 + i \in 1..(Len(t.plan.portals) + 1) /\ (1 + i) - 1 = i
    BY <1>0, <2>4, <2>6
  <2>8. ~session.unwritten => Has(t, Services \cup Before(t, i), {"ibus"} \cup Before(t, i))
    <3> SUFFICES ASSUME ~session.unwritten
                 PROVE  Has(t, Services \cup Before(t, i), {"ibus"} \cup Before(t, i))
      OBVIOUS
    <3>1. Has(session, Services \cup Before(session, i), {"ibus"} \cup Before(session, i - 1))
      BY <1>0, <1>3, <2>5 DEF Gathered
    <3>2. Before(t, i) = Before(session, i) /\ Before(t, i) = Before(session, i - 1) \cup {p}
      BY <1>0, <2>4, <2>7 DEF Before
    <3> QED BY <1>0, <3>1, <3>2 DEF Has
  <2> QED BY <2>1, <2>7, <2>8, NextPortalSequel
<1> QED BY <1>1, <1>2, <1>3

\* Every step of the sequence
LEMMA AnsweredSequel ==
  ASSUME IInv, NEW w, Arrives(w), w # "nothing", NEW u, Sequel(u), NEW outcome
  PROVE  Sequel(Answered(outcome, u))
  BY ArrivedPart, RaiseSequel DEF Onward, Answered

LEMMA SequenceInv ==
  ASSUME IInv, NEW bad, NEW outcome,
         \/ BusAnswers(outcome, bad) \/ DisplayReady(outcome, bad) \/ CaptureAuthorized(outcome, bad)
         \/ InputActivated(outcome, bad) \/ \E p \in Named : NameAppears(p, outcome, bad)
  PROVE  IInv' /\ LaunchStep
<1>1. CASE BusAnswers(outcome, bad)
  <2> DEFINE t == Arrived
             u == [t EXCEPT !.waits = "connection"]
  <2>1. /\ t \in Sessions /\ Starting(t) /\ Live(t) /\ ~t.raised /\ t.plan = session.plan
        /\ t.processes = session.processes /\ t.unwritten = session.unwritten /\ t.owned = session.owned
        /\ (~session.unwritten => Gathered(session)) /\ session.waits = "address"
    BY <1>1, ArrivedPart DEF BusAnswers, Arrives
  <2> HIDE DEF t
  <2>2. /\ u.plan = t.plan /\ u.processes = t.processes /\ u.owned = t.owned /\ u.waits = "connection"
        /\ u.stage = t.stage /\ u.unwritten = t.unwritten /\ u.application = t.application
    BY <2>1 DEF Sessions
  <2>3. u \in Sessions
    BY <2>1 DEF Sessions, Callbacks
  <2>4. Sound(u)
    BY <2>1 DEF Sessions, Starting, Sound, Untouched, Emptied, Completed, Launched, Planned, Awaited, Callbacks, Told
  <2>5. ~session.unwritten => Gathered(u)
    BY <2>1, <2>2, Names DEF Gathered, Has, Callbacks
  <2>6. Sequel(u)
    BY <2>1, <2>2, <2>3, <2>4, <2>5 DEF Sequel, Starting
  <2>7. Sequel(Answered(outcome, u))
    BY <1>1, <2>6, AnsweredSequel DEF BusAnswers
  <2> QED BY <1>1, <2>7, ContinuesInv DEF BusAnswers, Arrives, t
<1>2. CASE DisplayReady(outcome, bad)
  <2> DEFINE t == Transition(Arrived, "capture", bad)
             u == Start(t, "capture", outcome, "authorized", bad)
  <2>1. /\ Arrived \in Sessions /\ Starting(Arrived) /\ Arrived.plan = session.plan
        /\ Arrived.processes = session.processes /\ Arrived.unwritten = session.unwritten
        /\ (~session.unwritten => Gathered(session)) /\ session.waits = "display"
    BY <1>2, ArrivedPart DEF DisplayReady, Arrives
  <2>2. Part(Arrived, t, {}) /\ Starting(t) /\ t.processes = Arrived.processes
    BY <2>1, TransitionPart DEF Stages, Early
  <2> HIDE DEF t
  <2>3. Onward(t)
    BY <2>1, <2>2 DEF Onward, Part
  <2>4. "authorized" \in Awaited(t.plan) \cap (Callbacks \cup Named) /\ "capture" \in Processes \ {"application"}
    BY DEF Awaited, Callbacks, Processes
  <2>5. ~session.unwritten =>
          \A v : /\ v.plan = t.plan /\ t.processes \cup {"capture"} \subseteq v.processes
                 /\ v.owned = t.owned /\ v.waits = "authorized"
                 => Gathered(v)
    BY <2>1, <2>2, Names DEF Gathered, Has, Callbacks
  <2>6. Sequel(u)
    BY <2>3, <2>4, <2>5, StartSequel
  <2>7. Sequel(Answered(outcome, u))
    BY <1>2, <2>6, AnsweredSequel DEF DisplayReady
  <2> QED BY <1>2, <2>7, ContinuesInv DEF DisplayReady, Arrives, t
<1>3. CASE CaptureAuthorized(outcome, bad)
  <2> DEFINE t == Transition(Arrived, "input", bad)
             u == Start(t, "ibus", outcome, "ibus", bad)
  <2>1. /\ Arrived \in Sessions /\ Starting(Arrived) /\ Arrived.plan = session.plan
        /\ Arrived.processes = session.processes /\ Arrived.unwritten = session.unwritten
        /\ (~session.unwritten => Gathered(session)) /\ session.waits = "authorized"
    BY <1>3, ArrivedPart DEF CaptureAuthorized, Arrives
  <2>2. Part(Arrived, t, {}) /\ Starting(t) /\ t.processes = Arrived.processes
    BY <2>1, TransitionPart DEF Stages, Early
  <2> HIDE DEF t
  <2>3. Onward(t)
    BY <2>1, <2>2 DEF Onward, Part
  <2>4. "ibus" \in Awaited(t.plan) \cap (Callbacks \cup Named) /\ "ibus" \in Processes \ {"application"}
    BY Names DEF Awaited
  <2>5. ~session.unwritten =>
          \A v : /\ v.plan = t.plan /\ t.processes \cup {"ibus"} \subseteq v.processes
                 /\ v.owned = t.owned /\ v.waits = "ibus"
                 => Gathered(v)
    BY <2>1, <2>2, Names DEF Gathered, Has, Callbacks, Services
  <2>6. Sequel(u)
    BY <2>3, <2>4, <2>5, StartSequel
  <2>7. Sequel(Answered(outcome, u))
    BY <1>3, <2>6, AnsweredSequel DEF CaptureAuthorized
  <2> QED BY <1>3, <2>7, ContinuesInv DEF CaptureAuthorized, Arrives, t
<1>4. CASE InputActivated(outcome, bad)
  <2> DEFINE u == StartPortals(Arrived, outcome, bad)
  <2>1. /\ Arrived \in Sessions /\ Starting(Arrived) /\ Arrived.plan = session.plan /\ Live(Arrived)
        /\ Arrived.processes = session.processes /\ Arrived.unwritten = session.unwritten
        /\ Arrived.owned = session.owned /\ Arrived.waits = "nothing"
        /\ (~session.unwritten => Gathered(session)) /\ session.waits = "activated"
    BY <1>4, ArrivedPart DEF InputActivated, Arrives
  <2>2. ~session.unwritten => Has(Arrived, Services, {"ibus"})
    BY <2>1 DEF Gathered, Has
  <2>3. Sequel(u)
    BY <2>1, <2>2, StartPortalsSequel DEF Onward
  <2> HIDE DEF u
  <2>4. Sequel(Answered(outcome, u))
    BY <1>4, <2>3, AnsweredSequel DEF InputActivated
  <2> QED BY <1>4, <2>4, ContinuesInv DEF InputActivated, Arrives, u
<1>5. ASSUME NEW p \in Named, NameAppears(p, outcome, bad) PROVE IInv' /\ LaunchStep
  <2> DEFINE t == [Arrived EXCEPT !.owned = @ \cup {p}]
             u == AfterOwner(t, p, outcome, bad)
  <2>0. p # "nothing"
    BY Names DEF Callbacks
  <2>1. /\ Arrived \in Sessions /\ Starting(Arrived) /\ Arrived.plan = session.plan /\ Live(Arrived)
        /\ Arrived.processes = session.processes /\ Arrived.unwritten = session.unwritten
        /\ Arrived.owned = session.owned /\ Arrived.waits = "nothing" /\ Arrived.connection = session.connection
    BY <1>5, <2>0, ArrivedPart DEF NameAppears
  <2>2. /\ t \in Sessions /\ t.plan = Arrived.plan /\ t.processes = Arrived.processes /\ t.waits = "nothing"
        /\ t.owned = Arrived.owned \cup {p} /\ t.unwritten = Arrived.unwritten /\ t.stage = Arrived.stage
        /\ t.application = Arrived.application /\ t.closed = Arrived.closed /\ t.failed = Arrived.failed
    BY <2>1 DEF Sessions
  <2>3. Sound(t)
    BY <2>1 DEF Sessions, Starting, Sound, Untouched, Emptied, Completed, Launched, Planned, Told
  <2> HIDE DEF t
  <2>4. Onward(t) /\ Live(t)
    BY <2>1, <2>2, <2>3 DEF Onward, Starting, Live
  <2>5. Sequel(u)
    BY <1>5, <2>1, <2>2, <2>4, AfterOwnerSequel DEF NameAppears
  <2> HIDE DEF u
  <2>6. Sequel(Answered(outcome, u))
    BY <1>5, <2>0, <2>5, AnsweredSequel DEF NameAppears
  <2> QED BY <1>5, <2>6, ContinuesInv DEF NameAppears, Arrives, t, u
<1> QED BY <1>1, <1>2, <1>3, <1>4, <1>5

----------------------------------------------------------------------------
(* The other steps.                                                         *)

LEMMA FailInv ==
  ASSUME IInv, NEW t \in Sessions, Sound(t), t.stage \notin Early, ~t.raised, t.processes = session.processes,
         NEW bad, Leaves(Fail(t, bad))
  PROVE  IInv' /\ LaunchStep
<1> DEFINE v == Fail(t, bad)
<1>1. /\ Part(t, v, {})
      /\ t.stage # "terminating" => ~Live(v)
      /\ t.stage = "terminating" => v = t
  BY FailPart
<1>2. t.stage = "terminating" => t.waits = "nothing"
  BY DEF Sound, Launched
<1>3. Live(v) => Gathered(v)
  BY <1>1, <1>2, NothingGathered
<1>4. v.processes = session.processes
  BY <1>1 DEF Part
<1> HIDE DEF v
<1>5. IInv' /\ Same(v, session')
  BY <1>1, <1>3, <1>4, LeavesInv DEF Part, v
<1> QED BY <1>4, <1>5 DEF LaunchStep, Same

LEMMA GonePart ==
  ASSUME NEW t \in Sessions, Sound(t), NEW gone \in BOOLEAN
  PROVE  LET u == [t EXCEPT !.gone = gone]
         IN  u \in Sessions /\ Sound(u) /\ Same(t, u) /\ u.plan = t.plan /\ u.failed = t.failed /\ u.unwritten = t.unwritten
<1> DEFINE u == [t EXCEPT !.gone = gone]
<1>1. u \in Sessions /\ Same(t, u) /\ u.plan = t.plan /\ u.failed = t.failed /\ u.unwritten = t.unwritten
  BY DEF Sessions, Same
<1>2. Sound(u)
  BY DEF Sessions, Sound, Untouched, Emptied, Completed, Launched, Planned, Told
<1> QED BY <1>1, <1>2

LEMMA UnconfiguredInv == ASSUME IInv, Unconfigured PROVE IInv' /\ LaunchStep
<1> DEFINE t == [session EXCEPT !.gone = TRUE]
<1>1. t \in Sessions /\ Sound(t) /\ Same(session, t) /\ t.plan = session.plan /\ t.failed = session.failed /\ t.unwritten = session.unwritten
  BY GonePart DEF IInv
<1>2. session.waits = "nothing"
  BY DEF IInv, Unconfigured, Sound, Launched, Early
<1> HIDE DEF t
<1>3. Gathered(t)
  BY <1>1, <1>2, NothingGathered DEF Same
<1>4. IInv' /\ Same(t, session')
  BY <1>1, <1>3, LeavesInv DEF Unconfigured, Same, t
<1> QED BY <1>1, <1>4 DEF LaunchStep, Same

LEMMA AssembleInv == ASSUME IInv, NEW outcome, NEW bad, Assemble(outcome, bad) PROVE IInv' /\ LaunchStep
<1> DEFINE r == [session EXCEPT !.stage = "resources"]
           t == Recorded(r, "transition", {}, bad)
           v == Assembled(t, outcome, bad)
<1>0. /\ session \in Sessions /\ Sound(session) /\ session.waits = "nothing" /\ session.processes = {}
      /\ session.stage = "main" /\ session.stage \in Early /\ ~session.raised
  BY DEF IInv, Assemble, Sound, Launched, Early
<1>1. r \in Sessions /\ r.waits = "nothing" /\ r.processes = {} /\ r.stage = "resources"
  BY <1>0 DEF Sessions, Stages
<1>2. Sound(r)
  BY <1>0 DEF Sessions, Sound, Untouched, Emptied, Completed, Launched, Planned, Told, Early
<1>3. Transition(session, "resources", bad) = t
  BY <1>0 DEF Transition
<1> HIDE DEF r
<1>4. t \in Sessions /\ Sound(t) /\ t.waits = "nothing" /\ t.processes = {} /\ t.stage = "resources"
  BY <1>1, <1>2, RecordedPart DEF Part, Same
<1> HIDE DEF t
<1>5. v \in Sessions /\ Sound(v) /\ v.waits = "nothing" /\ v.processes = {}
  <2>1. CASE ~t.raised /\ outcome = "fine"
    <3>1. v = [t EXCEPT !.stage = "created"]
      BY <2>1 DEF Assembled
    <3>2. v \in Sessions /\ v.waits = "nothing" /\ v.processes = {}
      BY <1>4, <3>1 DEF Sessions, Stages
    <3>3. Sound(v)
      BY <1>4, <3>1 DEF Sessions, Sound, Untouched, Emptied, Completed, Launched, Planned, Told, Early
    <3> QED BY <3>2, <3>3
  <2>2. CASE ~(~t.raised /\ outcome = "fine")
    <3> DEFINE x == [t EXCEPT !.raised = FALSE]
               y == Recorded(x, "failed", {"failed"}, bad)
    <3>1. v = [y EXCEPT !.gone = TRUE]
      BY <2>2 DEF Assembled
    <3>2. x \in Sessions /\ Sound(x) /\ Same(t, x)
      BY <1>4, RaisedPart DEF Part
    <3> HIDE DEF x
    <3>3. y \in Sessions /\ Sound(y) /\ Same(x, y)
      BY <3>2, RecordedPart DEF Part
    <3> HIDE DEF y, v
    <3>4. v \in Sessions /\ Sound(v) /\ Same(y, v)
      BY <3>1, <3>3, GonePart
    <3> QED BY <1>4, <3>2, <3>3, <3>4 DEF Same
  <2> QED BY <2>1, <2>2
<1> HIDE DEF v
<1>6. Gathered(v)
  BY <1>5, NothingGathered
<1>7. IInv' /\ Same(v, session')
  BY <1>0, <1>3, <1>5, <1>6, LeavesInv DEF Assemble, v
<1> QED BY <1>5, <1>7 DEF LaunchStep, Same

LEMMA StartBusInv == ASSUME IInv, NEW outcome, NEW bad, StartBus(outcome, bad) PROVE IInv' /\ LaunchStep
<1> DEFINE r == [session EXCEPT !.stage = "private_bus"]
           t == Recorded(r, "transition", {}, bad)
           u == IF t.raised THEN t ELSE [t EXCEPT !.timeout = TRUE]
           x == Start(u, "bus", outcome, "address", bad)
           v == Guarded(x, bad)
           z == [v EXCEPT !.gone = v.raised]
<1>0. /\ session \in Sessions /\ Sound(session) /\ session.waits = "nothing" /\ session.processes = {}
      /\ session.stage = "created" /\ session.stage \in Early /\ ~session.raised /\ Live(session)
      /\ ~session.application
  BY DEF IInv, StartBus, Sound, Launched, Early, Live
<1>1. /\ r \in Sessions /\ r.waits = "nothing" /\ r.processes = {} /\ r.stage = "private_bus" /\ r.plan = session.plan
      /\ ~r.closed /\ ~r.failed /\ ~r.application /\ r.unwritten = session.unwritten
  BY <1>0 DEF Sessions, Stages, Live
<1>2. Sound(r)
  BY <1>0 DEF Sessions, Sound, Untouched, Emptied, Completed, Launched, Planned, Told, Early
<1>3. Transition(session, "private_bus", bad) = t
  BY <1>0 DEF Transition
<1>10. Leaves(z)
  <2> HIDE DEF t
  <2> QED BY <1>3 DEF StartBus
<1> HIDE DEF r
<1>4. Part(r, t, {}) /\ Same(r, t)
  BY <1>1, <1>2, RecordedPart
<1>5. Starting(t) /\ t.plan = session.plan /\ t.processes = session.processes /\ (session.unwritten => t.unwritten)
      /\ ~t.closed
  BY <1>0, <1>1, <1>4 DEF Starting, Part, Same, Early
<1> HIDE DEF t
<1>6. Onward(u)
  <2>1. CASE t.raised
    BY <1>5, <2>1 DEF Onward, Starting
  <2>2. CASE ~t.raised
    <3> DEFINE y == [t EXCEPT !.timeout = TRUE]
    <3>1. /\ y \in Sessions /\ y.plan = t.plan /\ y.processes = t.processes /\ y.stage = t.stage
          /\ y.application = t.application /\ y.unwritten = t.unwritten
      BY <1>5 DEF Starting, Sessions
    <3>2. Sound(y)
      BY <1>5 DEF Starting, Sessions, Sound, Untouched, Emptied, Completed, Launched, Planned, Told
    <3>3. u = y
      BY <2>2
    <3> HIDE DEF u, y
    <3> QED BY <1>5, <3>1, <3>2, <3>3 DEF Onward, Starting
  <2> QED BY <2>1, <2>2
<1> HIDE DEF u
<1>7. Sequel(x)
  <2>1. "address" \in Awaited(u.plan) \cap (Callbacks \cup Named) /\ "bus" \in Processes \ {"application"}
    BY DEF Awaited, Callbacks, Processes
  <2>2. \A w : /\ w.plan = u.plan /\ u.processes \cup {"bus"} \subseteq w.processes
               /\ w.owned = u.owned /\ w.waits = "address"
               => Gathered(w)
    BY Names DEF Gathered, Has, Callbacks
  <2> QED BY <1>6, <2>1, <2>2, StartSequel
<1>8. "application" \notin x.processes
  BY <1>6, StartPart, <1>7 DEF Onward, Starting, Processes, Awaited, Callbacks
<1> HIDE DEF x
<1>9. /\ v \in Sessions /\ Part(x, v, {})
      /\ ~x.raised => v = x
      /\ x.raised => ~Live(v)
  BY <1>7, GuardedPart DEF Sequel, Part
<1> HIDE DEF v
<1>g. Sound(v) /\ v.raised \in BOOLEAN
  BY <1>9 DEF Part, Sessions
<1>11. z \in Sessions /\ Sound(z) /\ Same(v, z) /\ z.plan = v.plan /\ z.failed = v.failed /\ z.unwritten = v.unwritten
  BY <1>9, <1>g, GonePart
<1> HIDE DEF z
<1>12. Live(z) /\ ~z.unwritten => Gathered(z)
  BY <1>7, <1>9, <1>11 DEF Live, Same, Sequel, Gathered, Has, Before, Part
<1>13. IInv' /\ Same(z, session')
  BY <1>0, <1>10, <1>11, <1>12, LeavesInv
<1> QED BY <1>8, <1>9, <1>11, <1>13 DEF LaunchStep, Same, Part

LEMMA BusConnectedInv == ASSUME IInv, NEW outcome, NEW bad, BusConnected(outcome, bad) PROVE IInv' /\ LaunchStep
<1>1. /\ Arrived \in Sessions /\ Starting(Arrived) /\ Arrived.plan = session.plan /\ ~Arrived.raised
      /\ Arrived.processes = session.processes /\ Arrived.unwritten = session.unwritten
      /\ (~session.unwritten => Gathered(session)) /\ session.waits = "connection" /\ ~Arrived.closed
  BY ArrivedPart DEF BusConnected, Arrives, Live
<1>2. CASE outcome = "wrong"
  <2>1. Leaves(Fail(Arrived, bad))
    BY <1>2 DEF BusConnected
  <2>2. Sound(Arrived) /\ Arrived.stage \notin Early
    BY <1>1 DEF Starting
  <2> QED BY <1>1, <2>1, <2>2, FailInv
<1>3. CASE outcome # "wrong"
  <2> DEFINE r == [Arrived EXCEPT !.connection = "open"]
             t == Transition(r, "graphics", bad)
             u == IF t.raised THEN t ELSE [t EXCEPT !.helper = "open"]
             x == Start(u, "compositor", outcome, "display", bad)
  <2>1. /\ r \in Sessions /\ r.plan = Arrived.plan /\ r.processes = Arrived.processes /\ r.stage = Arrived.stage
        /\ r.unwritten = Arrived.unwritten /\ r.application = Arrived.application /\ r.closed = Arrived.closed
    BY <1>1 DEF Sessions
  <2>2. Sound(r)
    BY <1>1 DEF Sessions, Starting, Sound, Untouched, Emptied, Completed, Launched, Planned, Told
  <2>3. Leaves(Guarded(x, bad))
    BY <1>3 DEF BusConnected
  <2> HIDE DEF r
  <2>4. Part(r, t, {}) /\ Starting(t) /\ t.processes = r.processes /\ t.closed = r.closed
    BY <1>1, <2>1, <2>2, TransitionPart DEF Starting, Stages, Early
  <2> HIDE DEF t
  <2>5. Onward(u)
    <3>1. CASE t.raised
      BY <1>1, <2>1, <2>4, <3>1 DEF Onward, Starting, Part
    <3>2. CASE ~t.raised
      <4> DEFINE y == [t EXCEPT !.helper = "open"]
      <4>1. /\ y \in Sessions /\ y.plan = t.plan /\ y.processes = t.processes /\ y.stage = t.stage
            /\ y.application = t.application /\ y.unwritten = t.unwritten
        BY <2>4 DEF Starting, Sessions
      <4>2. Sound(y)
        BY <1>1, <2>1, <2>4 DEF Starting, Sessions, Sound, Untouched, Emptied, Completed, Launched, Planned, Told
      <4>3. u = y
        BY <3>2
      <4> HIDE DEF u, y
      <4> QED BY <1>1, <2>1, <2>4, <4>1, <4>2, <4>3 DEF Onward, Starting, Part
    <3> QED BY <3>1, <3>2
  <2> HIDE DEF u
  <2>6. Sequel(x)
    <3>1. "display" \in Awaited(u.plan) \cap (Callbacks \cup Named) /\ "compositor" \in Processes \ {"application"}
      BY DEF Awaited, Callbacks, Processes
    <3>2. ~session.unwritten =>
            \A w : /\ w.plan = u.plan /\ u.processes \cup {"compositor"} \subseteq w.processes
                   /\ w.owned = u.owned /\ w.waits = "display"
                   => Gathered(w)
      BY <1>1, <2>5, Names DEF Gathered, Has, Callbacks, Onward
    <3> QED BY <2>5, <3>1, <3>2, StartSequel
  <2> HIDE DEF x
  <2> QED BY <2>3, <2>6, ContinuesInv DEF Continues, BusConnected, Arrives
<1> QED BY <1>2, <1>3

LEMMA LateInv == ASSUME IInv, Late PROVE IInv' /\ LaunchStep
<1>1. /\ session \in Sessions /\ Sound(session) /\ ~Live(session) /\ session.waits # "nothing"
      /\ session.stage \notin Early \cup {"terminating"} /\ ~session.application /\ "application" \notin session.processes
  BY DEF Late, IInv, Sound, Launched
<1>2. /\ Arrived \in Sessions /\ Arrived.closed = session.closed /\ Arrived.failed = session.failed
      /\ Arrived.processes = session.processes
  BY <1>1 DEF Arrived, Sessions, Callbacks
<1>3. Sound(Arrived)
  BY <1>1 DEF Arrived, Sessions, Sound, Untouched, Emptied, Completed, Launched, Planned, Awaited, Callbacks, Told
<1>4. IInv' /\ Same(Arrived, session')
  BY <1>1, <1>2, <1>3, LeavesInv DEF Late, Live
<1> QED BY <1>2, <1>4 DEF LaunchStep, Same

\* Services that fail, and the deadline
LEMMA TroubleInv ==
  ASSUME IInv, NEW bad,
         ServiceFails(bad) \/ GraphicsLost(bad) \/ Timeout(bad) \/ \E p \in Named : NameVanishes(p, bad)
  PROVE  IInv' /\ LaunchStep
<1>0. session \in Sessions /\ Sound(session) /\ ~session.raised
  BY DEF IInv
<1>1. CASE ServiceFails(bad) \/ \E p \in Named : NameVanishes(p, bad)
  <2>1. session.stage \notin Early
    BY <1>0, <1>1 DEF ServiceFails, NameVanishes, Sound, Launched
  <2> QED BY <1>0, <1>1, <2>1, FailInv DEF ServiceFails, NameVanishes
<1>2. CASE GraphicsLost(bad)
  <2>1. session.stage \notin Early
    BY <1>0, <1>2 DEF GraphicsLost, Sound, Launched
  <2>2. Revoked(session) \in Sessions /\ Sound(Revoked(session)) /\ Same(session, Revoked(session)) /\ ~Revoked(session).raised
    BY <1>0, RevokedPart DEF Part
  <2>3. Leaves(Fail(Revoked(session), bad))
    BY <1>2 DEF GraphicsLost
  <2> QED BY <2>1, <2>2, <2>3, FailInv DEF Same
<1>3. CASE Timeout(bad)
  <2> DEFINE t == [session EXCEPT !.timeout = FALSE]
  <2>1. session.stage \notin Early
    BY <1>0, <1>3 DEF Timeout, Sound, Launched
  <2>2. t \in Sessions /\ t.processes = session.processes /\ t.stage = session.stage /\ ~t.raised
    BY <1>0 DEF Sessions
  <2>3. Sound(t)
    BY <1>0 DEF Sessions, Sound, Untouched, Emptied, Completed, Launched, Planned, Told
  <2>4. Leaves(Fail(t, bad))
    BY <1>3 DEF Timeout
  <2> HIDE DEF t
  <2> QED BY <2>1, <2>2, <2>3, <2>4, FailInv
<1> QED BY <1>1, <1>2, <1>3

LEMMA TerminateInv == ASSUME IInv, NEW bad, TerminateApplication(bad) PROVE IInv' /\ LaunchStep
<1> DEFINE r == [session EXCEPT !.stage = "terminating"]
           t == Recorded(r, "terminating", {"terminating"}, bad)
           u == Revoked(t)
           v == [u EXCEPT !.sent["application"] = "term"]
           w == IF u.raised THEN u ELSE v
<1>0. /\ session \in Sessions /\ Sound(session) /\ ~session.closed /\ session.application
      /\ "application" \in session.processes /\ session.waits = "nothing" /\ session.stage \notin Early
  BY DEF IInv, TerminateApplication, Sound, Launched, Early
<1>1. /\ r \in Sessions /\ r.processes = session.processes /\ r.stage = "terminating" /\ r.waits = "nothing"
      /\ ~r.closed /\ r.application
  BY <1>0 DEF Sessions, Stages
<1>2. Sound(r)
  BY <1>0 DEF Sessions, Sound, Untouched, Emptied, Completed, Launched, Planned, Told, Early
<1>3. Leaves(w)
  BY DEF TerminateApplication
<1> HIDE DEF r
<1>4. Part(r, t, {}) /\ Same(r, t)
  BY <1>1, <1>2, RecordedPart
<1> HIDE DEF t
<1>5. Part(t, u, {}) /\ Same(t, u)
  BY <1>4, RevokedPart DEF Part
<1> HIDE DEF u
<1>6. /\ u \in Sessions /\ Sound(u) /\ u.processes = session.processes /\ u.stage = "terminating"
      /\ u.waits = "nothing" /\ ~u.closed /\ u.application
  BY <1>1, <1>4, <1>5 DEF Part, Same
<1>7. /\ v \in Sessions /\ v.processes = u.processes /\ v.stage = u.stage /\ v.waits = u.waits
  BY <1>6 DEF Sessions, Processes
<1>8. Sound(v)
  BY <1>6 DEF Sessions, Sound, Untouched, Emptied, Completed, Launched, Planned, Told, Early, Processes
<1> HIDE DEF v
<1>9. w \in Sessions /\ Sound(w) /\ w.processes = session.processes /\ w.waits = "nothing"
  BY <1>6, <1>7, <1>8
<1> HIDE DEF w
<1>10. Gathered(w)
  BY <1>9, NothingGathered
<1>11. IInv' /\ Same(w, session')
  BY <1>3, <1>9, <1>10, LeavesInv
<1> QED BY <1>9, <1>11 DEF LaunchStep, Same

LEMMA KillInv == ASSUME IInv, KillSupport PROVE IInv' /\ LaunchStep
<1> DEFINE signals == [p \in Processes |-> IF p \in session.processes \ {"application"} THEN "kill" ELSE session.sent[p]]
           t == [session EXCEPT !.kill = FALSE, !.sent = signals]
<1>0. session \in Sessions /\ Sound(session) /\ session.closed
  BY DEF IInv, KillSupport, Sound, Untouched
<1>1. signals \in [Processes -> {"none", "term", "kill"}]
  BY <1>0 DEF Sessions
<1>2. Leaves(t)
  BY DEF KillSupport
<1> HIDE DEF signals
<1>3. t \in Sessions /\ t.processes = session.processes /\ t.closed
  BY <1>0, <1>1 DEF Sessions
<1>4. Sound(t)
  BY <1>0, <1>1 DEF Sessions, Sound, Untouched, Emptied, Completed, Launched, Planned, Told
<1> HIDE DEF t
<1>5. IInv' /\ Same(t, session')
  BY <1>2, <1>3, <1>4, LeavesInv DEF Live
<1> QED BY <1>3, <1>5 DEF LaunchStep, Same

LEMMA DiesInv == ASSUME IInv, NEW p \in Processes, Dies(p) PROVE IInv' /\ LaunchStep
<1>1. (os \in [Processes -> {"none", "running", "dead"}] /\ Known)'
  BY DEF Dies, IInv, Known
<1>2. session' = session
  BY DEF Dies
<1> QED BY <1>1, <1>2 DEF IInv, Live, LaunchStep, Sound, Untouched, Emptied, Completed, Launched, Planned, Told, Gathered, Has, Before

\* The receipt of the application says how it ended, or that of the session that
\* it failed.
LEMMA ReportedPart ==
  ASSUME NEW t \in Sessions, Sound(t), ~t.raised, NEW outcome \in Results, NEW bad
  PROVE  /\ Part(t, Reported(t, outcome, bad), {}) /\ Same(t, Reported(t, outcome, bad))
         /\ Told(Reported(t, outcome, bad))
<1> DEFINE u == Recorded(t, "result", {outcome}, bad)
           x == [u EXCEPT !.raised = FALSE]
           y == Recorded(x, "failed", {"failed"}, bad)
<1>1. /\ Part(t, u, {}) /\ Same(t, u) /\ outcome \in u.log
  BY RecordedPart DEF Results
<1>2. Reported(t, outcome, bad) = IF u.raised THEN y ELSE u
  BY DEF Reported
<1> HIDE DEF u
<1>3. x \in Sessions /\ Part(u, x, {}) /\ Same(u, x) /\ ~x.raised
  BY <1>1, RaisedPart DEF Part
<1> HIDE DEF x
<1>4. Part(x, y, {}) /\ Same(x, y) /\ "failed" \in y.log
  BY <1>3, RecordedPart DEF Part
<1> HIDE DEF y
<1> QED BY <1>1, <1>2, <1>3, <1>4 DEF Part, Same, Told, Results, Live

LEMMA ExitedInv ==
  ASSUME IInv, NEW p \in Processes, NEW bad, NEW outcome, p = "application" => outcome \in Results,
         Exited(p, outcome, bad)
  PROVE  IInv' /\ LaunchStep
<1> DEFINE r == [session EXCEPT !.processes = @ \ {p}]
           t == Recorded(r, "exit", {}, bad)
           u == IF t.raised \/ t.closed THEN t
                ELSE IF p = "application" THEN Close(Reported(t, outcome, bad)) ELSE Fail(t, bad)
           v == IF ~u.raised /\ u.closed /\ u.processes = {} THEN Finish(u) ELSE u
<1>0. /\ session \in Sessions /\ Sound(session) /\ p \in session.processes /\ ~session.raised /\ session.ended = 0
      /\ session.stage \notin Early
      /\ p = "application" => session.waits = "nothing"
  BY DEF IInv, Exited, Running, Sound, Launched
<1>1. /\ r \in Sessions /\ r.processes = session.processes \ {p} /\ r.stage = session.stage /\ r.waits = session.waits
      /\ ~r.raised /\ r.plan = session.plan /\ r.closed = session.closed
  BY <1>0 DEF Sessions
<1>2. Sound(r)
  BY <1>0 DEF Sessions, Sound, Untouched, Emptied, Completed, Launched, Planned, Told
<1>3. session' = [v EXCEPT !.raised = FALSE]
  BY DEF Exited
<1> HIDE DEF r
<1>4. Part(r, t, {}) /\ Same(r, t) /\ (t.raised => t.unwritten)
  BY <1>1, <1>2, RecordedPart
<1> HIDE DEF t
<1>5. u \in Sessions /\ Sound(u) /\ u.processes = t.processes /\ (Live(u) /\ ~u.unwritten => Gathered(u))
  <2>1. CASE t.raised \/ t.closed
    BY <1>4, <2>1 DEF Part, Live
  <2>2. CASE ~(t.raised \/ t.closed) /\ p = "application"
    <3> DEFINE x == Reported(t, outcome, bad)
    <3>1. x \in Sessions /\ Part(t, x, {}) /\ Same(t, x) /\ Told(x)
      BY <1>4, <2>2, ReportedPart DEF Part
    <3>2. u = Close(x)
      BY <2>2
    <3> HIDE DEF x, u
    <3>3. x.stage \notin Early /\ Sound(x) /\ x.waits = "nothing"
      BY <1>0, <1>1, <1>4, <2>2, <3>1 DEF Part, Same
    <3>4. Part(x, u, {}) /\ u.waits = "nothing"
      BY <3>1, <3>2, <3>3, ClosePart
    <3> QED BY <3>1, <3>4, NothingGathered DEF Part
  <2>3. CASE ~(t.raised \/ t.closed) /\ p # "application"
    <3>1. u = Fail(t, bad)
      BY <2>3
    <3> HIDE DEF u
    <3>2. t \in Sessions /\ t.stage \notin Early /\ Sound(t)
      BY <1>0, <1>1, <1>4 DEF Part, Same
    <3>3. /\ Part(t, u, {})
          /\ t.stage # "terminating" => ~Live(u)
          /\ t.stage = "terminating" => u = t
      BY <2>3, <3>1, <3>2, FailPart
    <3>4. t.stage = "terminating" => t.waits = "nothing"
      BY <3>2 DEF Sound, Launched
    <3> QED BY <3>3, <3>4, NothingGathered DEF Part
  <2> QED BY <2>1, <2>2, <2>3
<1> HIDE DEF u
<1>6. v \in Sessions /\ Sound(v) /\ v.processes = u.processes /\ (Live(v) /\ ~v.unwritten => Gathered(v))
  BY <1>5, FinishPart DEF Part, Live
<1> HIDE DEF v
<1>7. /\ session' \in Sessions /\ Part(v, session', {}) /\ Same(v, session') /\ ~session'.raised
      /\ session'.failed = v.failed /\ session'.unwritten = v.unwritten
  BY <1>3, <1>6, RaisedPart DEF Part
<1>8. Live(session') /\ ~session'.unwritten => Gathered(session')
  BY <1>6, <1>7 DEF Part, Same, Live, Gathered, Has, Before
<1>9. session'.processes = session.processes \ {p}
  BY <1>1, <1>4, <1>5, <1>6, <1>7 DEF Same
<1>10. (os \in [Processes -> {"none", "running", "dead"}] /\ Known)'
  BY <1>9 DEF Exited, IInv, Known
<1>11. IInv'
  BY <1>7, <1>8, <1>10 DEF IInv, Part, Sound, Untouched, Emptied, Completed, Launched, Planned, Told, Live, Gathered, Has
<1> QED BY <1>9, <1>11 DEF LaunchStep

----------------------------------------------------------------------------
(* The theorems.                                                            *)

LEMMA InitInv == Init => IInv
<1> SUFFICES ASSUME Init PROVE IInv
  OBVIOUS
<1>1. PICK plan \in Plans : session = 
         [plan |-> plan, stage |-> "main", waits |-> "nothing", closed |-> FALSE, failed |-> FALSE,
          ready |-> FALSE, application |-> FALSE, processes |-> {}, owned |-> {},
          timeout |-> FALSE, kill |-> FALSE, connection |-> "none",
          helper |-> "none", lost |-> FALSE, sharing |-> FALSE,
          sent |-> [p \in Processes |-> "none"], completed |-> TRUE, ended |-> 0,
          log |-> {}, unwritten |-> FALSE, raised |-> FALSE, gone |-> FALSE]
  BY DEF Init
<1>2. session \in Sessions /\ ~session.raised /\ session.waits = "nothing" /\ session.processes = {}
  BY <1>1 DEF Sessions, Stages, Callbacks
<1>3. Sound(session)
  BY <1>1 DEF Sound, Untouched, Emptied, Completed, Launched, Planned, Awaited, Callbacks, Told, Early, Processes
<1>4. Gathered(session)
  BY <1>2, NothingGathered
<1>5. os \in [Processes -> {"none", "running", "dead"}] /\ Known
  BY <1>2 DEF Init, Known
<1> QED BY <1>2, <1>3, <1>4, <1>5 DEF IInv

LEMMA NextInv == IInv /\ [Next]_vars => IInv' /\ [LaunchStep]_vars
<1> SUFFICES ASSUME IInv, [Next]_vars PROVE IInv' /\ [LaunchStep]_vars
  OBVIOUS
<1>1. CASE KillSupport
  BY <1>1, KillInv
<1>2. CASE Late
  BY <1>2, LateInv
<1>3. CASE Unconfigured
  BY <1>3, UnconfiguredInv
<1>4. CASE \E p \in Processes : Dies(p)
  BY <1>4, DiesInv
<1>5. CASE \E p \in Processes : Exits(p)
  BY <1>5, ExitedInv DEF Exits
<1>6. CASE \E bad \in Failing :
             ServiceFails(bad) \/ GraphicsLost(bad) \/ Timeout(bad) \/ \E p \in Named : NameVanishes(p, bad)
  BY <1>6, TroubleInv
<1>7. CASE \E bad \in Failing : \E outcome \in {"fine", "wrong"} : BusAnswers(outcome, bad)
  BY <1>7, SequenceInv
<1>8. CASE \E bad \in Faults({"terminating"}) : TerminateApplication(bad)
  BY <1>8, TerminateInv
<1>9. CASE \E bad \in Faults({"transition", "process", "prepared"}), outcome \in Outcomes :
             \/ Assemble(outcome, bad) \/ StartBus(outcome, bad) \/ BusConnected(outcome, bad)
             \/ DisplayReady(outcome, bad) \/ CaptureAuthorized(outcome, bad) \/ InputActivated(outcome, bad)
             \/ \E p \in Named : NameAppears(p, outcome, bad)
  BY <1>9, AssembleInv, StartBusInv, BusConnectedInv, SequenceInv
<1>10. CASE UNCHANGED vars
  BY <1>10 DEF vars, IInv, Known, Live, Sound, Untouched, Emptied, Completed, Launched, Planned, Told, Gathered, Has, Before
<1> QED BY <1>1, <1>2, <1>3, <1>4, <1>5, <1>6, <1>7, <1>8, <1>9, <1>10 DEF Next

\* Nothing is taken from the application while it runs, a closed session holds
\* nothing, and a session is completed once, after its last process, with a
\* receipt that says how it ended (desktop_session.py, fail, close and finish).
LEMMA InvUndisturbed == IInv => ApplicationUndisturbed
<1> SUFFICES ASSUME IInv PROVE ApplicationUndisturbed
  OBVIOUS
<1>1. TypeOK
  BY DEF IInv, TypeOK, Sessions, Stages, Known
<1> QED BY <1>1 DEF IInv, Sessions, Sound, Untouched, Emptied, Completed, Launched, Told, ApplicationUndisturbed

THEOREM UndisturbedHolds == Spec => []ApplicationUndisturbed
  BY InitInv, NextInv, InvUndisturbed, PTL DEF Spec

\* The application is launched only when bus, compositor, capture, IBus and every
\* portal of the plan are there, IBus and the portals under their names
\* (desktop_session.py, launch_application).
THEOREM LaunchedWholeHolds == Spec => LaunchedWhole
<1>1. IInv /\ [LaunchStep]_vars =>
        [(/\ "application" \in session'.processes \ session.processes
          /\ ~session.unwritten) =>
           /\ Live(session) /\ ~session'.timeout
           /\ {"bus", "compositor", "capture", "ibus"} \cup PortalsOf(session.plan) \subseteq session.processes
           /\ PortalsOf(session.plan) \cup {"ibus"} \subseteq session'.owned]_vars
  BY DEF LaunchStep, Services
<1> QED BY <1>1, InitInv, NextInv, PTL DEF Spec, LaunchedWhole

----------------------------------------------------------------------------
(* Application, the supervisor of the application, over ProcessTable.      *)

TableConstants == Pids # {} /\ MaxStarts \in Nat /\ Sup # Other /\ Sup \notin Pids /\ Other \notin Pids

LEMMA ConstantsGiven == TableConstants
BY PartsAssumption DEF TableConstants

Process ==
  [state : {"free", "running", "zombie"}, id : Nat, parent : Pids \cup {Sup, Other}, own : BOOLEAN]

\* A process has a number of its own; its parent lives, started before it and belongs where
\* it belongs; what is of the application is a descendant of the supervisor, and nothing
\* else is; what nobody of those waits for leaves no zombie.
Lineage(p) ==
  /\ proc[p].state = "free" => proc[p] = App!Free
  /\ proc[p].state # "free" =>
       /\ proc[p].id \in 1..starts
       /\ proc[p].parent \in Pids =>
            /\ App!Alive(proc[p].parent)
            /\ proc[proc[p].parent].own = proc[p].own /\ proc[proc[p].parent].id < proc[p].id
       /\ proc[p].own => proc[p].parent # Other
       /\ ~proc[p].own => proc[p].parent # Sup
  /\ proc[p].state = "zombie" => proc[p].parent # Other

Table == proc \in [Pids -> Process] /\ starts \in Nat /\ \A p \in Pids : Lineage(p)

\* What a step does to a number: its process stays what it was, or it is free, or it
\* names a process that has never been there.
Stays(p) == proc'[p].id = proc[p].id /\ proc'[p].own = proc[p].own
Begins(p) == proc[p] = App!Free /\ proc'[p].id = starts + 1 /\ starts' = starts + 1
Later ==
  /\ starts' \in Nat /\ starts <= starts'
  /\ \A p \in Pids : Stays(p) \/ proc'[p] = App!Free \/ Begins(p)

\* No step but the supervisor's own ends the wait for a child of the supervisor.
Reserves == \A p \in Pids :
  /\ proc[p].state # "free" /\ proc[p].parent = Sup => proc'[p].state # "free" /\ proc'[p].parent = Sup /\ Stays(p)
  /\ proc[p].state = "zombie" /\ proc[p].parent = Sup => proc'[p] = proc[p]
\* No process of the application appears where there is none.
NoneOwn == \A p \in Pids : ~proc[p].own

LEMMA TableStarts ==
  ASSUME TableConstants, Table, NEW p \in Pids, NEW parent \in Pids \cup {Sup, Other}, NEW own \in BOOLEAN,
         App!Started(p, parent, own), parent \in Pids => App!Alive(parent) /\ proc[parent].own = own,
         own => parent # Other, ~own => parent # Sup
  PROVE  Table' /\ Later /\ Reserves /\ (~own /\ NoneOwn => NoneOwn')
<1> DEFINE r == [state |-> "running", id |-> starts + 1, parent |-> parent, own |-> own]
<1>1. /\ proc' = [proc EXCEPT ![p] = r] /\ starts' = starts + 1 /\ starts \in Nat
      /\ proc[p] = App!Free /\ proc[p].state = "free"
  BY DEF App!Started, Table, Lineage
<1>2. proc'[p] = r /\ r \in Process /\ \A q \in Pids : q # p => proc'[q] = proc[q]
  BY <1>1 DEF Table, Process
<1>3. proc' \in [Pids -> Process] /\ starts' \in Nat
  BY <1>1, <1>2 DEF Table
<1>4. ASSUME NEW q \in Pids PROVE Lineage(q)'
  <2>1. CASE q = p
    <3>1. parent \in Pids => parent # p /\ proc[parent].id \in 1..starts
      BY <1>1 DEF App!Alive, Table, Lineage
    <3>2. QED
      BY <2>1, <3>1, <1>1, <1>2 DEF Lineage, App!Alive, TableConstants
  <2>2. CASE q # p
    <3>1. proc[q].state # "free" /\ proc[q].parent \in Pids => proc[q].parent # p
      BY <1>1 DEF Table, Lineage, App!Alive
    <3>2. QED
      BY <2>2, <3>1, <1>1, <1>2 DEF Lineage, App!Alive, Table
  <2>3. QED
    BY <2>1, <2>2
<1>5. Later
  BY <1>1, <1>2 DEF Later, Stays, Begins
<1>6. Reserves /\ (~own /\ NoneOwn => NoneOwn')
  BY <1>1, <1>2 DEF Reserves, Stays, NoneOwn, App!Free
<1>7. QED
  BY <1>3, <1>4, <1>5, <1>6 DEF Table

LEMMA TableEnds ==
  ASSUME TableConstants, Table, NEW p \in Pids, App!Alive(p), proc' = App!Ended(p), UNCHANGED starts
  PROVE  Table' /\ Later /\ Reserves /\ (NoneOwn => NoneOwn')
<1>1. /\ proc[p] \in Process /\ proc[p].state = "running" /\ Lineage(p)
      /\ \A q \in Pids : proc[q] \in Process /\ Lineage(q)
  BY DEF Table, App!Alive
<1>2. proc'[p] = IF proc[p].parent = Other THEN App!Free ELSE [proc[p] EXCEPT !.state = "zombie"]
  BY DEF App!Ended
<1>3. \A q \in Pids : q # p /\ q \in App!ChildrenOf(p) => proc'[q] = App!Orphan(proc[q])
  BY DEF App!Ended
<1>4. \A q \in Pids : q # p /\ q \notin App!ChildrenOf(p) => proc'[q] = proc[q]
  BY DEF App!Ended
<1>5. App!Free \in Process
  BY DEF App!Free, Process
<1>6. /\ proc'[p] \in Process
      /\ proc[p].parent = Other => proc'[p] = App!Free
      /\ proc[p].parent # Other => /\ proc'[p].state = "zombie" /\ proc'[p].id = proc[p].id
                                   /\ proc'[p].parent = proc[p].parent /\ proc'[p].own = proc[p].own
  BY <1>1, <1>2, <1>5 DEF Process
<1>7. ASSUME NEW q \in Pids, q # p, q \in App!ChildrenOf(p)
      PROVE  /\ proc'[q] \in Process
             /\ proc[q].own => /\ proc'[q].state = proc[q].state /\ proc'[q].id = proc[q].id
                               /\ proc'[q].parent = Sup /\ proc'[q].own
             /\ ~proc[q].own /\ proc[q].state = "zombie" => proc'[q] = App!Free
             /\ ~proc[q].own /\ proc[q].state # "zombie" =>
                  /\ proc'[q].state = proc[q].state /\ proc'[q].id = proc[q].id
                  /\ proc'[q].parent = Other /\ ~proc'[q].own
  <2>1. /\ proc'[q] = App!Orphan(proc[q]) /\ proc[q] \in Process /\ App!Free \in Process
        /\ proc[q].own \in BOOLEAN
    BY <1>1, <1>3, <1>5, <1>7 DEF Process
  <2>2. CASE proc[q].own
    BY <2>1, <2>2 DEF App!Orphan, Process
  <2>3. CASE ~proc[q].own /\ proc[q].state = "zombie"
    BY <2>1, <2>3 DEF App!Orphan
  <2>4. CASE ~proc[q].own /\ proc[q].state # "zombie"
    BY <2>1, <2>4 DEF App!Orphan, Process
  <2>5. QED
    BY <2>1, <2>2, <2>3, <2>4
<1>8. proc' \in [Pids -> Process] /\ starts' \in Nat
  <2>1. \A q \in Pids : proc'[q] \in Process
    BY <1>1, <1>4, <1>6, <1>7
  <2>2. DOMAIN proc' = Pids /\ proc' = [q \in Pids |-> proc'[q]]
    BY DEF App!Ended
  <2>3. QED
    BY <2>1, <2>2 DEF Table
<1>9. ASSUME NEW q \in Pids PROVE Lineage(q)'
  <2>1. CASE q = p
    <3>1. proc[p].parent \in Pids => proc[p].parent # p /\ proc[p].parent \notin App!ChildrenOf(p)
      <4>1. SUFFICES ASSUME proc[p].parent \in Pids PROVE proc[p].parent # p /\ proc[p].parent \notin App!ChildrenOf(p)
        OBVIOUS
      <4>2. proc[proc[p].parent].id < proc[p].id /\ proc[p].id \in Nat /\ proc[proc[p].parent].id \in Nat
        BY <1>1, <4>1 DEF Lineage, Process
      <4>3. proc[p].parent \in App!ChildrenOf(p) => proc[p].id < proc[proc[p].parent].id
        BY <1>1, <4>1 DEF App!ChildrenOf, Lineage
      <4>4. QED
        BY <4>2, <4>3
    <3>2. proc[p].parent \in Pids => proc'[proc[p].parent] = proc[proc[p].parent]
      BY <3>1, <1>4
    <3>3. QED
      BY <2>1, <3>2, <1>1, <1>6 DEF Lineage, App!Free, App!Alive
  <2>2. CASE q # p /\ q \in App!ChildrenOf(p)
    <3>1. Lineage(q) /\ proc[q] \in Process /\ proc[q].state # "free" /\ proc[q].id \in 1..starts
      BY <2>2, <1>1 DEF App!ChildrenOf, Lineage
    <3>2. CASE proc[q].own
      BY <2>2, <3>1, <3>2, <1>7 DEF Lineage, TableConstants
    <3>3. CASE ~proc[q].own /\ proc[q].state = "zombie"
      <4>1. proc'[q] = App!Free
        BY <2>2, <3>3, <1>7
      <4>2. QED
        BY <4>1 DEF Lineage, App!Free
    <3>4. CASE ~proc[q].own /\ proc[q].state # "zombie"
      BY <2>2, <3>1, <3>4, <1>7 DEF Lineage, TableConstants
    <3>5. QED
      BY <3>1, <3>2, <3>3, <3>4 DEF Process
  <2>3. CASE q # p /\ q \notin App!ChildrenOf(p)
    <3>1. proc'[q] = proc[q]
      BY <2>3, <1>4
    <3>2. ASSUME proc[q].state # "free", proc[q].parent \in Pids
          PROVE  /\ proc'[proc[q].parent].state = "running" /\ proc'[proc[q].parent].own = proc[q].own
                 /\ proc'[proc[q].parent].id < proc[q].id
      <4> DEFINE r == proc[q].parent
      <4>1. r # p /\ r \in Pids
        BY <2>3, <3>2, <1>1 DEF App!ChildrenOf, Lineage, App!Free
      <4>2. proc[r].state = "running" /\ proc[r].own = proc[q].own /\ proc[r].id < proc[q].id
        BY <1>1, <3>2 DEF Lineage, App!Alive
      <4>3. proc'[r].state = proc[r].state /\ proc'[r].own = proc[r].own /\ proc'[r].id = proc[r].id
        <5>1. CASE r \in App!ChildrenOf(p)
          <6>1. proc[r] \in Process /\ r # p /\ r \in Pids /\ proc[r].state # "zombie"
            BY <4>1, <4>2, <1>1
          <6>2. CASE proc[r].own
            BY <6>1, <6>2, <5>1, <1>7
          <6>3. CASE ~proc[r].own
            <7>1. ~proc'[r].own /\ proc'[r].state = proc[r].state /\ proc'[r].id = proc[r].id /\ proc'[r] \in Process
              BY <6>1, <6>3, <5>1, <1>7
            <7>2. QED
              BY <6>1, <6>3, <7>1 DEF Process
          <6>4. QED
            BY <6>2, <6>3
        <5>2. CASE r \notin App!ChildrenOf(p)
          BY <4>1, <5>2, <1>4
        <5>3. QED
          BY <5>1, <5>2
      <4>4. QED
        BY <4>2, <4>3
    <3>3. QED
      BY <3>1, <3>2, <1>1 DEF Lineage, App!Alive
  <2>4. QED
    BY <2>1, <2>2, <2>3
<1>10. Later
  <2>1. ASSUME NEW q \in Pids PROVE Stays(q) \/ proc'[q] = App!Free
    <3>1. CASE q = p
      BY <3>1, <1>6 DEF Stays
    <3>2. CASE q # p /\ q \in App!ChildrenOf(p)
      BY <3>2, <1>1, <1>7 DEF Stays, Process
    <3>3. CASE q # p /\ q \notin App!ChildrenOf(p)
      BY <3>3, <1>4 DEF Stays
    <3>4. QED
      BY <3>1, <3>2, <3>3
  <2>2. QED
    BY <2>1 DEF Later, Table
<1>11. Reserves /\ (NoneOwn => NoneOwn')
  <2>1. ASSUME NEW q \in Pids PROVE (proc[q].parent = Sup => q \notin App!ChildrenOf(p)) /\ Sup # Other
    BY DEF TableConstants, App!ChildrenOf
  <2>2. Reserves
    BY <2>1, <1>1, <1>4, <1>6 DEF Reserves, Stays
  <2>3. NoneOwn => NoneOwn'
    BY <1>10 DEF Later, Stays, Begins, NoneOwn, App!Free
  <2>4. QED
    BY <2>2, <2>3
<1>12. QED
  BY <1>8, <1>9, <1>10, <1>11 DEF Table

\* A zombie has no children, so that its number can be given back.
LEMMA TableFrees ==
  ASSUME TableConstants, Table, NEW p \in Pids, proc[p].state = "zombie",
         proc' = [proc EXCEPT ![p] = App!Free], UNCHANGED starts
  PROVE  Table' /\ Later /\ (proc[p].parent # Sup => Reserves) /\ (NoneOwn => NoneOwn')
<1>1. proc'[p] = App!Free /\ \A q \in Pids : q # p => proc'[q] = proc[q]
  BY DEF Table
<1>2. App!Free \in Process
  BY DEF App!Free, Process
<1>3. proc' \in [Pids -> Process] /\ starts' \in Nat
  BY <1>2 DEF Table
<1>4. ASSUME NEW q \in Pids PROVE Lineage(q)'
  <2>1. proc[q].state # "free" => proc[q].parent # p
    BY DEF Table, Lineage, App!Alive
  <2>2. QED
    BY <2>1, <1>1 DEF Table, Lineage, App!Alive, App!Free
<1>5. Later
  BY <1>1 DEF Later, Stays, Table
<1>6. proc[p].parent # Sup => Reserves
  BY <1>1 DEF Stays, Reserves
<1>7. NoneOwn => NoneOwn'
  BY <1>1 DEF NoneOwn, App!Free
<1>8. QED
  BY <1>3, <1>4, <1>5, <1>6, <1>7 DEF Table
LEMMA TableStands == ASSUME Table, UNCHANGED <<proc, starts>> PROVE Table' /\ Later /\ Reserves /\ (NoneOwn => NoneOwn')
BY DEF Table, Lineage, App!Alive, Later, Stays, Reserves, NoneOwn

----------------------------------------------------------------------------
(* The passes of terminate_children                                        *)

PassFrame ==
  [of : Pids \cup {Sup}, left : SUBSET Pids, child : Pids \cup {Sup}, id : Nat,
   at : {"next", "open", "checked", "kill"}, astray : BOOLEAN]

\* A process that was opened has started; one that was compared, and whose ancestors still had
\* their numbers, is of the application as long as it has its own.
Framed(f) ==
  /\ f.at # "next" => f.child \in Pids /\ f.id \in 1..starts
  /\ f.at \in {"checked", "kill"} /\ ~f.astray /\ proc[f.child].id = f.id => proc[f.child].own

\* Each frame lists the children of the process that the frame below it is about to strike.
Framing(s) == \A i \in 1..Len(s) :
  /\ Framed(s[i])
  /\ s[i].at = "kill" <=> i > 1
  /\ i = Len(s) => s[i].of = Sup /\ ~s[i].astray
  /\ i < Len(s) => s[i].of = s[i + 1].child /\ (s[i + 1].astray => s[i].astray)

Passes == pass \in [App!threads -> Seq(PassFrame)] /\ \A t \in App!threads : Framing(pass[t])

LEMMA FramedLater == ASSUME Table, Later, NEW f \in PassFrame, Framed(f) PROVE Framed(f)'
<1>1. f.at # "next" => f.child \in Pids /\ f.id \in 1..starts'
  BY DEF Framed, Later, Table
<1>2. ASSUME f.at \in {"checked", "kill"}, ~f.astray, proc'[f.child].id = f.id PROVE proc'[f.child].own
  <2>1. f.child \in Pids /\ f.id \in 1..starts /\ starts \in Nat
    BY <1>2 DEF Framed, Table
  <2>2. Stays(f.child)
    BY <1>2, <2>1 DEF Later, Begins, App!Free
  <2>3. QED
    BY <1>2, <2>2 DEF Framed, Stays
<1>3. QED
  BY <1>1, <1>2 DEF Framed

LEMMA PassesLater == ASSUME Table, Later, Passes, UNCHANGED pass PROVE Passes'
<1>1. ASSUME NEW z \in Seq(PassFrame), Framing(z) PROVE Framing(z)'
  <2>1. ASSUME NEW i \in 1..Len(z) PROVE Framed(z[i])'
    BY <1>1, FramedLater DEF Framing
  <2>2. QED
    BY <1>1, <2>1 DEF Framing
<1>2. ASSUME NEW t \in App!threads PROVE Framing(pass[t])'
  <2>1. PICK z \in Seq(PassFrame) : z = pass[t]
    BY DEF Passes
  <2>2. Framing(z)'
    BY <2>1, <1>1 DEF Passes
  <2>3. QED
    BY <2>1, <2>2
<1>3. QED
  BY <1>2 DEF Passes

LEMMA PassChanges ==
  ASSUME Table, Later, Passes, NEW t \in App!threads, NEW s \in Seq(PassFrame), pass' = [pass EXCEPT ![t] = s],
         \A i \in 1..Len(s) :
           /\ Framed(s[i])' \/ \E j \in 1..Len(pass[t]) : s[i] = pass[t][j]
           /\ s[i].at = "kill" <=> i > 1
           /\ i = Len(s) => s[i].of = Sup /\ ~s[i].astray
           /\ i < Len(s) => s[i].of = s[i + 1].child /\ (s[i + 1].astray => s[i].astray)
  PROVE  Passes'
<1>1. pass'[t] = s /\ \A u \in App!threads : u # t => pass'[u] = pass[u]
  BY DEF Passes
<1>2. ASSUME NEW z \in Seq(PassFrame), NEW j \in 1..Len(z), Framing(z) PROVE Framed(z[j])'
  <2>1. z[j] \in PassFrame /\ Framed(z[j])
    BY <1>2 DEF Framing
  <2>2. QED
    BY <2>1, FramedLater
<1>3. Framing(s)'
  <2>1. ASSUME NEW i \in 1..Len(s) PROVE Framed(s[i])'
    <3>1. PICK z \in Seq(PassFrame) : z = pass[t]
      BY DEF Passes
    <3>2. CASE \E j \in 1..Len(z) : s[i] = z[j]
      BY <3>1, <3>2, <1>2 DEF Passes
    <3>3. QED
      BY <3>1, <3>2
  <2>2. QED
    BY <2>1 DEF Framing
<1>4. ASSUME NEW z \in Seq(PassFrame), Framing(z) PROVE Framing(z)'
  BY <1>2, <1>4 DEF Framing
<1>5. pass' \in [App!threads -> Seq(PassFrame)]
  BY DEF Passes
<1>6. ASSUME NEW u \in App!threads PROVE Framing(pass[u])'
  <2>1. CASE u = t
    BY <1>1, <1>3, <2>1
  <2>2. CASE u # t
    <3>1. PICK z \in Seq(PassFrame) : z = pass[u]
      BY DEF Passes
    <3>2. Framing(z)'
      BY <3>1, <1>4 DEF Passes
    <3>3. QED
      BY <1>1, <2>2, <3>1, <3>2
  <2>3. QED
    BY <2>1, <2>2
<1>7. QED
  BY <1>5, <1>6 DEF Passes

LEMMA TopReplaced ==
  ASSUME NEW S, NEW s \in Seq(S), s # <<>>, NEW f \in S
  PROVE  /\ <<f>> \o Tail(s) \in Seq(S) /\ Len(<<f>> \o Tail(s)) = Len(s) /\ (<<f>> \o Tail(s))[1] = f
         /\ \A i \in 2..Len(s) : (<<f>> \o Tail(s))[i] = s[i]
OBVIOUS

LEMMA TopPushed ==
  ASSUME NEW S, NEW s \in Seq(S), s # <<>>, NEW f \in S, NEW g \in S
  PROVE  /\ <<g, f>> \o Tail(s) \in Seq(S) /\ Len(<<g, f>> \o Tail(s)) = Len(s) + 1
         /\ (<<g, f>> \o Tail(s))[1] = g /\ (<<g, f>> \o Tail(s))[2] = f
         /\ \A i \in 3..(Len(s) + 1) : (<<g, f>> \o Tail(s))[i] = s[i - 1]
OBVIOUS

LEMMA TopTaken ==
  ASSUME NEW S, NEW s \in Seq(S), Len(s) > 1, NEW f \in S
  PROVE  /\ <<f>> \o Tail(Tail(s)) \in Seq(S) /\ Len(<<f>> \o Tail(Tail(s))) = Len(s) - 1
         /\ (<<f>> \o Tail(Tail(s)))[1] = f
         /\ \A i \in 2..(Len(s) - 1) : (<<f>> \o Tail(Tail(s)))[i] = s[i + 1]
<1>0. Tail(s) \in Seq(S)
  OBVIOUS
<1>1. PICK r \in Seq(S) : r = Tail(s)
  BY <1>0
<1>2. Len(r) = Len(s) - 1 /\ r # <<>> /\ \A i \in 1..Len(r) : r[i] = s[i + 1]
  BY <1>1
<1>3. /\ <<f>> \o Tail(r) \in Seq(S) /\ Len(<<f>> \o Tail(r)) = Len(r) /\ (<<f>> \o Tail(r))[1] = f
      /\ \A i \in 2..Len(r) : (<<f>> \o Tail(r))[i] = r[i]
  BY <1>2, TopReplaced
<1>4. QED
  BY <1>1, <1>2, <1>3

\* A frame that takes the place of the top of a pass.
LEMMA PassReplaces ==
  ASSUME Table, Later, Passes, NEW t \in App!threads, pass[t] # <<>>, NEW f \in PassFrame, App!Replace(t, f),
         Framed(f)', f.at # "kill", f.of = App!Top(t).of, App!Top(t).astray => f.astray,
         Len(pass[t]) = 1 => f.astray = App!Top(t).astray
  PROVE  Passes'
<1>0. PICK s \in Seq(PassFrame) : s = pass[t]
  BY DEF Passes
<1> DEFINE r == <<f>> \o Tail(s)
<1>1. Len(s) \in Nat /\ Len(s) > 0 /\ Framing(s)
  BY <1>0 DEF Passes
<1>2. /\ r \in Seq(PassFrame) /\ Len(r) = Len(s) /\ r[1] = f
      /\ \A i \in 2..Len(s) : r[i] = s[i]
  BY <1>0, <1>1, TopReplaced
<1>3. pass' = [pass EXCEPT ![t] = r]
  BY <1>0 DEF App!Replace, Passes
<1> HIDE DEF r
<1>4. ASSUME NEW i \in 1..Len(r)
      PROVE  /\ Framed(r[i])' \/ \E j \in 1..Len(pass[t]) : r[i] = pass[t][j]
             /\ r[i].at = "kill" <=> i > 1
             /\ i = Len(r) => r[i].of = Sup /\ ~r[i].astray
             /\ i < Len(r) => r[i].of = r[i + 1].child /\ (r[i + 1].astray => r[i].astray)
  <2>1. CASE i = 1
    <3>1. r[1] = f /\ s[1] = App!Top(t) /\ 1 \in 1..Len(s)
      BY <1>0, <1>1, <1>2 DEF App!Top
    <3>2. /\ 1 = Len(s) => s[1].of = Sup /\ ~s[1].astray
          /\ 1 < Len(s) => s[1].of = s[2].child /\ (s[2].astray => s[1].astray)
      BY <1>1, <3>1 DEF Framing
    <3>3. 1 < Len(s) => r[2] = s[2]
      BY <1>1, <1>2
    <3>4. QED
      BY <2>1, <3>1, <3>2, <3>3, <1>0, <1>1, <1>2
  <2>2. CASE i > 1
    <3>1. i \in 2..Len(s) /\ i \in 1..Len(s) /\ r[i] = s[i] /\ (i < Len(s) => r[i + 1] = s[i + 1])
      BY <2>2, <1>1, <1>2
    <3>2. /\ s[i].at = "kill" /\ (i = Len(s) => s[i].of = Sup /\ ~s[i].astray)
          /\ i < Len(s) => s[i].of = s[i + 1].child /\ (s[i + 1].astray => s[i].astray)
      BY <2>2, <3>1, <1>1 DEF Framing
    <3>3. QED
      BY <2>2, <3>1, <3>2, <1>0, <1>2
  <2>3. QED
    BY <2>1, <2>2, <1>1, <1>2
<1>5. QED
  BY <1>2, <1>3, <1>4, PassChanges

LEMMA PassBegins ==
  ASSUME Table, Later, Passes, NEW t \in App!threads,
         pass' = [pass EXCEPT ![t] = <<App!Frame(Sup, FALSE)>>]
  PROVE  Passes'
<1>0. PICK f \in PassFrame : f = App!Frame(Sup, FALSE)
  BY DEF App!Frame, App!ChildrenOf, PassFrame
<1>1. f.at = "next" /\ f.of = Sup /\ ~f.astray
  BY <1>0 DEF App!Frame
<1>2. Framed(f)'
  BY <1>1 DEF Framed
<1>3. <<f>> \in Seq(PassFrame)
  OBVIOUS
<1>3a. PICK s \in Seq(PassFrame) : s = <<f>>
  BY <1>3
<1>4. Len(s) = 1 /\ s[1] = f /\ pass' = [pass EXCEPT ![t] = s]
  BY <1>0, <1>3a
<1>5. \A i \in 1..Len(s) :
        /\ Framed(s[i])'
        /\ s[i].at = "kill" <=> i > 1
        /\ s[i].of = Sup /\ ~s[i].astray /\ ~(i < Len(s))
  BY <1>1, <1>2, <1>4
<1>6. QED
  BY <1>4, <1>5, PassChanges

LEMMA PassEnds ==
  ASSUME Table, Later, Passes, NEW t \in App!threads, pass' = [pass EXCEPT ![t] = App!NoFrame]
  PROVE  Passes'
<1>0. <<>> \in Seq(PassFrame)
  OBVIOUS
<1>1. PICK s \in Seq(PassFrame) : s = <<>>
  BY <1>0
<1>2. 1..Len(s) = {} /\ pass' = [pass EXCEPT ![t] = s]
  BY <1>1 DEF App!NoFrame
<1>3. QED
  BY <1>2, PassChanges
LEMMA TopOfPass ==
  ASSUME Passes, NEW t \in App!threads, pass[t] # App!NoFrame
  PROVE  /\ pass[t] \in Seq(PassFrame) /\ Len(pass[t]) \in Nat /\ Len(pass[t]) > 0
         /\ App!Top(t) \in PassFrame /\ Framed(App!Top(t)) /\ App!Top(t).at # "kill"
         /\ Len(pass[t]) = 1 => App!Top(t).of = Sup /\ ~App!Top(t).astray
         /\ Len(pass[t]) > 1 =>
              /\ pass[t][2] \in PassFrame /\ Framed(pass[t][2]) /\ pass[t][2].at = "kill"
              /\ App!Top(t).of = pass[t][2].child /\ (pass[t][2].astray => App!Top(t).astray)
<1>1. pass[t] \in Seq(PassFrame) /\ Len(pass[t]) \in Nat /\ Len(pass[t]) > 0 /\ Framing(pass[t])
  BY DEF Passes, App!NoFrame
<1>2. 1 \in 1..Len(pass[t]) /\ (Len(pass[t]) > 1 => 2 \in 1..Len(pass[t]))
  BY <1>1
<1>3. QED
  BY <1>1, <1>2 DEF Framing, App!Top

\* What a step of a pass does.
PassKept ==
  /\ UNCHANGED starts /\ Table' /\ Later /\ Reserves /\ (NoneOwn => NoneOwn') /\ Passes' /\ ~struck'
  /\ UNCHANGED <<scope, main, stopped, launcher, receipt, waiter, observed, unit, systemd, reply, removed>>

\* The frames that the steps of a pass make of one.
LEMMA FrameSkips ==
  ASSUME NEW e \in PassFrame, NEW c \in Pids
  PROVE  \E f \in PassFrame : f = [e EXCEPT !.left = @ \ {c}] /\ f.of = e.of /\ f.astray = e.astray /\ f.at = e.at
<1>1. [e EXCEPT !.left = @ \ {c}] \in PassFrame
  BY DEF PassFrame
<1>2. e = [of |-> e.of, left |-> e.left, child |-> e.child, id |-> e.id, at |-> e.at, astray |-> e.astray]
  BY DEF PassFrame
<1>3. LET f == [e EXCEPT !.left = @ \ {c}] IN f.of = e.of /\ f.astray = e.astray /\ f.at = e.at
  BY <1>2
<1>4. QED
  BY <1>1, <1>3

LEMMA FrameChecks ==
  ASSUME NEW e \in PassFrame, NEW astray \in BOOLEAN
  PROVE  \E f \in PassFrame : f = [e EXCEPT !.at = "checked", !.astray = astray] /\ f.of = e.of /\ f.child = e.child /\ f.id = e.id /\ f.at = "checked" /\ f.astray = astray
<1>1. [e EXCEPT !.at = "checked", !.astray = astray] \in PassFrame
  BY DEF PassFrame
<1>2. e = [of |-> e.of, left |-> e.left, child |-> e.child, id |-> e.id, at |-> e.at, astray |-> e.astray]
  BY DEF PassFrame
<1>3. LET f == [e EXCEPT !.at = "checked", !.astray = astray] IN f.of = e.of /\ f.child = e.child /\ f.id = e.id /\ f.at = "checked" /\ f.astray = astray
  BY <1>2
<1>4. QED
  BY <1>1, <1>3

LEMMA FrameStrikes ==
  ASSUME NEW e \in PassFrame
  PROVE  \E f \in PassFrame : f = [e EXCEPT !.at = "kill"] /\ f.of = e.of /\ f.child = e.child /\ f.id = e.id /\ f.at = "kill" /\ f.astray = e.astray
<1>1. [e EXCEPT !.at = "kill"] \in PassFrame
  BY DEF PassFrame
<1>2. e = [of |-> e.of, left |-> e.left, child |-> e.child, id |-> e.id, at |-> e.at, astray |-> e.astray]
  BY DEF PassFrame
<1>3. LET f == [e EXCEPT !.at = "kill"] IN f.of = e.of /\ f.child = e.child /\ f.id = e.id /\ f.at = "kill" /\ f.astray = e.astray
  BY <1>2
<1>4. QED
  BY <1>1, <1>3

LEMMA FrameGoesOn ==
  ASSUME NEW e \in PassFrame
  PROVE  \E f \in PassFrame : f = App!Done(e) /\ f.of = e.of /\ f.at = "next" /\ f.astray = e.astray
<1>1. App!Done(e) \in PassFrame
  BY DEF PassFrame, App!Done
<1>2. e = [of |-> e.of, left |-> e.left, child |-> e.child, id |-> e.id, at |-> e.at, astray |-> e.astray]
  BY DEF PassFrame
<1>3. LET f == App!Done(e) IN f.of = e.of /\ f.at = "next" /\ f.astray = e.astray
  BY <1>2 DEF App!Done
<1>4. QED
  BY <1>1, <1>3

LEMMA Opening ==
  ASSUME TableConstants, Table, Passes, ~struck, NEW t \in App!threads, App!Open(t)
  PROVE  PassKept
<1>1. pass[t] # <<>> /\ App!Top(t).at = "next" /\ UNCHANGED <<proc, starts, struck>>
  BY DEF App!Open, App!InPass, App!NoFrame
<1>2. App!Top(t) \in PassFrame /\ Table' /\ Later /\ Reserves /\ (NoneOwn => NoneOwn')
  BY <1>1, TopOfPass, TableStands DEF App!NoFrame
<1>3. PICK c \in App!Top(t).left :
        App!Replace(t, IF proc[c].state = "free" THEN [App!Top(t) EXCEPT !.left = @ \ {c}]
                       ELSE [App!Top(t) EXCEPT !.left = @ \ {c}, !.child = c, !.id = proc[c].id, !.at = "open"])
  BY DEF App!Open
<1>4. c \in Pids /\ Lineage(c) /\ proc[c].id \in Nat
  BY <1>2, <1>3 DEF PassFrame, Table, Process
<1>5a. PICK e \in PassFrame : e = App!Top(t)
  BY <1>2
<1>5. PICK f \in PassFrame :
        /\ f = IF proc[c].state = "free" THEN [App!Top(t) EXCEPT !.left = @ \ {c}]
               ELSE [App!Top(t) EXCEPT !.left = @ \ {c}, !.child = c, !.id = proc[c].id, !.at = "open"]
        /\ f.of = App!Top(t).of /\ f.astray = App!Top(t).astray
        /\ f.at = "next" \/ (f.at = "open" /\ f.child = c /\ f.id = proc[c].id /\ proc[c].state # "free")
  <2>1. CASE proc[c].state = "free"
    <3>1. PICK f \in PassFrame : f = [e EXCEPT !.left = @ \ {c}] /\ f.of = e.of /\ f.astray = e.astray /\ f.at = e.at
      BY <1>4, FrameSkips
    <3>2. QED
      BY <2>1, <3>1, <1>1, <1>5a
  <2>2. CASE proc[c].state # "free"
    <3>1. PICK f \in PassFrame :
            /\ f = [e EXCEPT !.left = @ \ {c}, !.child = c, !.id = proc[c].id, !.at = "open"]
            /\ f.of = e.of /\ f.astray = e.astray /\ f.at = "open" /\ f.child = c /\ f.id = proc[c].id
      <4>1. PICK id \in Nat : id = proc[c].id
        BY <1>4
      <4> DEFINE f == [e EXCEPT !.left = @ \ {c}, !.child = c, !.id = id, !.at = "open"]
      <4>2. f \in PassFrame
        BY <1>4 DEF PassFrame
      <4>3. e = [of |-> e.of, left |-> e.left, child |-> e.child, id |-> e.id, at |-> e.at, astray |-> e.astray]
        BY DEF PassFrame
      <4>4. f.of = e.of /\ f.astray = e.astray /\ f.at = "open" /\ f.child = c /\ f.id = id
        BY <4>3
      <4>5. QED
        BY <4>1, <4>2, <4>4
    <3>2. QED
      BY <2>2, <3>1, <1>1, <1>5a
  <2>3. QED
    BY <2>1, <2>2
<1>6. Framed(f)'
  BY <1>1, <1>4, <1>5 DEF Framed, Lineage
<1>7. Passes'
  BY <1>1, <1>2, <1>3, <1>5, <1>6, PassReplaces
<1>8. QED
  BY <1>1, <1>2, <1>7 DEF App!Open, App!Still, App!control, App!service, PassKept

LEMMA Checking ==
  ASSUME TableConstants, Table, Passes, ~struck, NEW t \in App!threads, App!Check(t)
  PROVE  PassKept
<1>1. pass[t] # <<>> /\ App!Top(t).at = "open" /\ UNCHANGED <<proc, starts, struck>>
  BY DEF App!Check, App!InPass, App!NoFrame
<1>2. Table' /\ Later /\ Reserves /\ (NoneOwn => NoneOwn')
  BY <1>1, TableStands
<1>3. /\ App!Top(t) \in PassFrame /\ App!Top(t).child \in Pids /\ App!Top(t).id \in 1..starts
      /\ Len(pass[t]) \in Nat /\ Len(pass[t]) > 0
      /\ Len(pass[t]) = 1 => App!Top(t).of = Sup /\ ~App!Top(t).astray
      /\ Len(pass[t]) > 1 =>
           /\ Framed(pass[t][2]) /\ pass[t][2].at = "kill"
           /\ App!Top(t).of = pass[t][2].child /\ (pass[t][2].astray => App!Top(t).astray)
  BY <1>1, TopOfPass DEF App!NoFrame, Framed
<1>4. CASE App!Top(t).child \in App!ChildrenOf(App!Top(t).of)
  <2>1. PICK f \in PassFrame :
          /\ f = [App!Top(t) EXCEPT !.at = "checked", !.astray = @ \/ App!Strays(t)]
          /\ f.of = App!Top(t).of /\ f.child = App!Top(t).child /\ f.id = App!Top(t).id /\ f.at = "checked"
          /\ f.astray = (App!Top(t).astray \/ App!Strays(t))
    <3>1. (App!Top(t).astray \/ App!Strays(t)) \in BOOLEAN
      BY <1>3 DEF PassFrame
    <3>2. QED
      BY <3>1, <1>3, FrameChecks
  <2>2. ASSUME ~f.astray PROVE proc[f.child].own
    <3>1. proc[f.child].state # "free" /\ proc[f.child].parent = f.of /\ Lineage(f.child) /\ f.child \in Pids
      BY <1>3, <1>4, <2>1 DEF App!ChildrenOf, Table
    <3>2. CASE Len(pass[t]) = 1
      BY <3>1, <3>2, <1>3, <2>1 DEF Lineage
    <3>3. CASE Len(pass[t]) > 1
      <4>1. proc[f.of].own /\ f.of \in Pids
        BY <3>3, <2>2, <2>1, <1>3 DEF App!Strays, Framed
      <4>2. QED
        BY <4>1, <3>1 DEF Lineage
    <3>4. Len(pass[t]) = 1 \/ Len(pass[t]) > 1
      <4>1. PICK n \in Nat : n = Len(pass[t]) /\ n > 0
        BY <1>3
      <4>2. n > 0
        BY <4>1
      <4>3. n = 1 \/ n > 1
        BY <4>2
      <4>4. QED
        BY <4>1, <4>3
    <3>5. QED
      BY <3>2, <3>3, <3>4
  <2>3. Framed(f)'
    BY <2>1, <2>2, <1>1, <1>3 DEF Framed
  <2>4. Len(pass[t]) = 1 => f.astray = App!Top(t).astray
    BY <2>1, <1>3 DEF App!Strays, PassFrame
  <2>5. App!Replace(t, f) /\ (App!Top(t).astray => f.astray)
    BY <1>4, <2>1 DEF App!Check
  <2>6. f.at # "kill" /\ f.of = App!Top(t).of
    BY <2>1
  <2>7. Passes'
    BY <1>1, <1>2, <2>3, <2>4, <2>5, <2>6, PassReplaces
  <2>8. QED
    BY <1>1, <1>2, <2>7 DEF App!Check, App!Still, App!control, App!service, PassKept
<1>5. CASE App!Top(t).child \notin App!ChildrenOf(App!Top(t).of)
  <2>1. PICK f \in PassFrame :
          f = App!Done(App!Top(t)) /\ f.of = App!Top(t).of /\ f.at = "next" /\ f.astray = App!Top(t).astray
    BY <1>3, FrameGoesOn
  <2>2. Framed(f)'
    BY <2>1 DEF Framed
  <2>3. App!Replace(t, f)
    BY <1>5, <2>1 DEF App!Check
  <2>4. QED
    BY <1>1, <1>2, <2>1, <2>2, <2>3, PassReplaces DEF App!Check, App!Still, App!control, App!service, PassKept
<1>6. QED
  BY <1>4, <1>5

LEMMA Descending ==
  ASSUME TableConstants, Table, Passes, ~struck, NEW t \in App!threads, App!Descend(t)
  PROVE  PassKept
<1>1. pass[t] # <<>> /\ App!Top(t).at = "checked" /\ UNCHANGED <<proc, starts, struck>>
  BY DEF App!Descend, App!InPass, App!NoFrame
<1>2. Table' /\ Later /\ Reserves /\ (NoneOwn => NoneOwn')
  BY <1>1, TableStands
<1>3. /\ App!Top(t) \in PassFrame /\ App!Top(t).child \in Pids /\ Framed(App!Top(t)) /\ Framing(pass[t])
  BY <1>1, TopOfPass DEF App!NoFrame, Framed, Passes
<1>4. PICK s \in Seq(PassFrame) : s = pass[t]
  BY DEF Passes
<1>5. PICK f \in PassFrame :
        /\ f = [App!Top(t) EXCEPT !.at = "kill"] /\ f.at = "kill"
        /\ f.of = s[1].of /\ f.child = s[1].child /\ f.id = s[1].id /\ f.astray = s[1].astray
  <2>1. s[1] \in PassFrame /\ App!Top(t) = s[1]
    BY <1>3, <1>4 DEF App!Top
  <2>2. QED
    BY <1>3, <2>1, FrameStrikes
<1>6. PICK g \in PassFrame :
        /\ g = App!Frame(App!Top(t).child, App!Top(t).astray)
        /\ g.at = "next" /\ g.of = f.child /\ g.astray = f.astray
  <2>1. App!Top(t) = s[1] /\ s[1].astray \in BOOLEAN
    BY <1>3, <1>4 DEF App!Top, PassFrame
  <2>2. App!Frame(App!Top(t).child, App!Top(t).astray) \in PassFrame
    BY <1>3, <1>5, <2>1 DEF PassFrame, App!Frame, App!ChildrenOf
  <2>3. QED
    BY <2>1, <2>2, <1>5 DEF App!Frame
<1>7. Framed(f)' /\ Framed(g)'
  BY <1>1, <1>3, <1>4, <1>5, <1>6 DEF Framed, App!Top
<1> DEFINE r == <<g, f>> \o Tail(s)
<1>8. /\ r \in Seq(PassFrame) /\ Len(r) = Len(s) + 1 /\ r[1] = g /\ r[2] = f
      /\ \A i \in 3..(Len(s) + 1) : r[i] = s[i - 1]
  BY <1>1, <1>4, TopPushed
<1>9. pass' = [pass EXCEPT ![t] = r] /\ Len(s) \in Nat /\ Len(s) > 0 /\ Framing(s)
  BY <1>1, <1>3, <1>4, <1>5, <1>6 DEF App!Descend, Passes
<1> HIDE DEF r
<1>10. ASSUME NEW i \in 1..Len(r)
       PROVE  /\ Framed(r[i])' \/ \E j \in 1..Len(pass[t]) : r[i] = pass[t][j]
              /\ r[i].at = "kill" <=> i > 1
              /\ i = Len(r) => r[i].of = Sup /\ ~r[i].astray
              /\ i < Len(r) => r[i].of = r[i + 1].child /\ (r[i + 1].astray => r[i].astray)
  <2>1. CASE i = 1
    <3>1. r[i] = g /\ i # Len(r) /\ r[i + 1] = f /\ g.at = "next"
      BY <2>1, <1>6, <1>8, <1>9
    <3>2. QED
      BY <2>1, <3>1, <1>6, <1>7
  <2>2. CASE i = 2
    <3>1. /\ 1 = Len(s) => s[1].of = Sup /\ ~s[1].astray
          /\ 1 < Len(s) => s[1].of = s[2].child /\ (s[2].astray => s[1].astray)
      BY <1>9 DEF Framing
    <3>2. 1 < Len(s) => r[3] = s[2]
      BY <1>8, <1>9
    <3>3. r[i] = f /\ f.at = "kill" /\ (i = Len(r) => Len(s) = 1) /\ (i < Len(r) => 1 < Len(s) /\ r[i + 1] = s[2])
      <4>1. Len(r) = Len(s) + 1 /\ r[2] = f /\ f.at = "kill" /\ Len(s) \in Nat
        BY <1>5, <1>8, <1>9
      <4>2. PICK n \in Nat : n = Len(s) /\ n + 1 = Len(r)
        BY <4>1
      <4>2a. (2 = n + 1 => n = 1) /\ (2 < n + 1 => 1 < n)
        OBVIOUS
      <4>3. QED
        BY <2>2, <3>2, <4>1, <4>2, <4>2a
    <3>4. QED
      BY <2>2, <3>1, <3>3, <1>5, <1>7
  <2>3. CASE i > 2
    <3>1. /\ i - 1 \in 1..Len(s) /\ i - 1 > 1 /\ r[i] = s[i - 1] /\ (i < Len(r) => i - 1 < Len(s) /\ r[i + 1] = s[i])
      BY <2>3, <1>8, <1>9
    <3>2. /\ s[i - 1].at = "kill" /\ (i - 1 = Len(s) => s[i - 1].of = Sup /\ ~s[i - 1].astray)
          /\ i - 1 < Len(s) => s[i - 1].of = s[i - 1 + 1].child /\ (s[i - 1 + 1].astray => s[i - 1].astray)
      BY <3>1, <1>9 DEF Framing
    <3>3. i - 1 + 1 = i
      OBVIOUS
    <3>4. QED
      BY <2>3, <3>1, <3>2, <3>3, <1>4, <1>8
  <2>4. QED
    BY <2>1, <2>2, <2>3, <1>8, <1>9
<1>11. Passes'
  BY <1>2, <1>8, <1>9, <1>10, PassChanges
<1>12. QED
  BY <1>1, <1>2, <1>11 DEF App!Descend, App!Still, App!control, App!service, PassKept

LEMMA Returning ==
  ASSUME TableConstants, Table, Passes, ~struck, NEW t \in App!threads, App!Return(t)
  PROVE  PassKept
BY PassEnds, TableStands DEF App!Return, App!Still, App!control, App!service, PassKept

\* Only what was compared is struck, and it is of the application.
LEMMA Killing ==
  ASSUME TableConstants, Table, Passes, ~struck, NEW t \in App!threads, App!Kill(t)
  PROVE  PassKept
<1>1. pass[t] # <<>> /\ Len(pass[t]) > 1 /\ UNCHANGED starts
  BY DEF App!Kill, App!InPass, App!NoFrame
<1>2. PICK s \in Seq(PassFrame) : s = pass[t]
  BY DEF Passes
<1>3. Len(s) \in Nat /\ Len(s) > 1 /\ Framing(s) /\ s[2] \in PassFrame /\ s[2].at = "kill" /\ Framed(s[2]) /\ s[2].child \in Pids
  BY <1>1, <1>2, TopOfPass DEF App!NoFrame, Passes, Framed
<1> DEFINE hit == App!Alive(s[2].child) /\ proc[s[2].child].id = s[2].id
<1>4. /\ proc' = IF hit THEN App!Ended(s[2].child) ELSE proc
      /\ struck' = (struck \/ (hit /\ ~proc[s[2].child].own /\ ~s[2].astray))
      /\ pass' = [pass EXCEPT ![t] = <<App!Done(s[2])>> \o Tail(Tail(s))]
  BY <1>2 DEF App!Kill
<1>5. Table' /\ Later /\ Reserves /\ (NoneOwn => NoneOwn')
  <2>1. CASE hit
    BY <2>1, <1>1, <1>3, <1>4, TableEnds
  <2>2. CASE ~hit
    BY <2>2, <1>1, <1>4, TableStands
  <2>3. QED
    BY <2>1, <2>2
<1>6. ~struck'
  BY <1>3, <1>4 DEF Framed
<1>7. PICK f \in PassFrame : f = App!Done(s[2]) /\ f.of = s[2].of /\ f.at = "next" /\ f.astray = s[2].astray
  BY <1>3, FrameGoesOn
<1> DEFINE r == <<f>> \o Tail(Tail(s))
<1>8. /\ r \in Seq(PassFrame) /\ Len(r) = Len(s) - 1 /\ r[1] = f
      /\ \A i \in 2..(Len(s) - 1) : r[i] = s[i + 1]
  BY <1>3, TopTaken
<1>9. pass' = [pass EXCEPT ![t] = r]
  BY <1>4, <1>7
<1> HIDE DEF r
<1>10. ASSUME NEW i \in 1..Len(r)
       PROVE  /\ Framed(r[i])' \/ \E j \in 1..Len(pass[t]) : r[i] = pass[t][j]
              /\ r[i].at = "kill" <=> i > 1
              /\ i = Len(r) => r[i].of = Sup /\ ~r[i].astray
              /\ i < Len(r) => r[i].of = r[i + 1].child /\ (r[i + 1].astray => r[i].astray)
  <2>1. CASE i = 1
    <3>1. /\ 2 = Len(s) => s[2].of = Sup /\ ~s[2].astray
          /\ 2 < Len(s) => s[2].of = s[3].child /\ (s[3].astray => s[2].astray) /\ r[2] = s[3]
      BY <1>3, <1>8 DEF Framing
    <3>2. Framed(f)'
      BY <1>7 DEF Framed
    <3>3. QED
      BY <2>1, <3>1, <3>2, <1>3, <1>7, <1>8
  <2>2. CASE i > 1
    <3>1. /\ i + 1 \in 1..Len(s) /\ i + 1 > 1 /\ r[i] = s[i + 1]
          /\ i = Len(r) <=> i + 1 = Len(s)
          /\ i < Len(r) => i + 1 < Len(s) /\ r[i + 1] = s[i + 1 + 1]
      BY <2>2, <1>3, <1>8
    <3>2. /\ s[i + 1].at = "kill" /\ (i + 1 = Len(s) => s[i + 1].of = Sup /\ ~s[i + 1].astray)
          /\ i + 1 < Len(s) => s[i + 1].of = s[i + 1 + 1].child /\ (s[i + 1 + 1].astray => s[i + 1].astray)
      BY <3>1, <1>3 DEF Framing
    <3>3. QED
      BY <2>2, <3>1, <3>2, <1>2
  <2>3. QED
    BY <2>1, <2>2, <1>3, <1>8
<1>11. Passes'
  BY <1>5, <1>8, <1>9, <1>10, PassChanges
<1>12. QED
  BY <1>5, <1>6, <1>11 DEF App!Kill, App!Still, App!control, App!service, PassKept

LEMMA PassSteps ==
  ASSUME TableConstants, Table, Passes, ~struck, NEW t \in App!threads, App!PassStep(t)
  PROVE  PassKept
BY Opening, Checking, Descending, Returning, Killing DEF App!PassStep
\* A set of numbers has a least one: of the intervals up to its elements one
\* contains none of the others.
LEMMA Least ==
  ASSUME NEW T, T \subseteq Nat, T # {}
  PROVE  \E x \in T : \A y \in T : x <= y
<1>1. PICK m \in T : TRUE
  OBVIOUS
<1> DEFINE U == {t \in T : t <= m}
           F == {0..t : t \in U}
<1>2. U \subseteq Nat /\ m \in U
  <2>1. m \in Nat /\ m <= m
    BY <1>1
  <2>2. QED
    BY <1>1, <2>1
<1>3. F # {}
  BY <1>2
<1>4. F \subseteq FiniteSubsetsOf(0..m)
  <2>1. ASSUME NEW t \in U PROVE 0..t \in FiniteSubsetsOf(0..m)
    <3>1. t \in Nat /\ t <= m /\ m \in Nat
      BY <1>1, <2>1
    <3>2. IsFiniteSet(0..t) /\ 0..t \subseteq 0..m
      BY <3>1, FS_Interval
    <3>3. QED
      BY <3>2 DEF FiniteSubsetsOf
  <2>2. QED
    BY <2>1
<1>5. IsFiniteSet(0..m)
  BY <1>1, FS_Interval
<1>6. IsWellFoundedOn(StrictSubsetOrdering(0..m), FiniteSubsetsOf(0..m))
  BY <1>5, FS_StrictSubsetOrderingWellFounded
<1>7. \E X \in F : \A Y \in F : ~ (<<Y, X>> \in StrictSubsetOrdering(0..m))
  <2> HIDE DEF F, U
  <2>1. QED
    BY <1>3, <1>4, <1>6, WFMin
<1>8. PICK X \in F : \A Y \in F : ~ (<<Y, X>> \in StrictSubsetOrdering(0..m))
  BY <1>7
<1>9. PICK x \in U : X = 0..x
  BY <1>8
<1>10. ASSUME NEW y \in T PROVE x <= y
  <2>1. x \in Nat /\ y \in Nat /\ m \in Nat /\ x <= m
    BY <1>1, <1>2, <1>9
  <2>2. SUFFICES ASSUME y < x PROVE FALSE
    BY <2>1
  <2>3. y \in U /\ 0..y \in F
    BY <2>1, <2>2
  <2>4. 0..y \subseteq 0..x /\ x \in 0..x /\ x \notin 0..y
    BY <2>1, <2>2
  <2>5. 0..y \subseteq 0..x /\ 0..y # 0..x
    BY <2>4, Zenon
  <2>6. 0..y \in SUBSET (0..m) /\ 0..x \in SUBSET (0..m)
    BY <2>1, <2>2
  <2>7. <<0..y, 0..x>> \in StrictSubsetOrdering(0..m)
    BY <2>5, <2>6 DEF StrictSubsetOrdering
  <2>8. QED
    BY <1>8, <1>9, <2>3, <2>7
<1>11. QED
  BY <1>9, <1>10

\* When no child is left to the supervisor, no process of the application is left: the
\* first to start among them would have no parent.
LEMMA NobodyLeft == ASSUME TableConstants, Table, App!ChildrenOf(Sup) = {} PROVE NoneOwn
<1> DEFINE Own == {p \in Pids : proc[p].own}
           Ids == {proc[p].id : p \in Own}
<1>1. SUFFICES ASSUME Own # {} PROVE FALSE
  BY DEF NoneOwn
<1>2. Ids \subseteq Nat /\ Ids # {}
  BY <1>1 DEF Table, Process
<1>3. PICK m \in Ids : \A n \in Ids : m <= n
  <2> HIDE DEF Ids
  <2>1. QED
    BY <1>2, Least
<1>4. PICK p \in Own : proc[p].id = m
  BY <1>3
<1>5. p \in Pids /\ proc[p].own /\ Lineage(p) /\ proc[p] \in Process
  BY <1>4 DEF Table
<1>6. proc[p].state # "free"
  BY <1>5 DEF Lineage, App!Free
<1>7. proc[p].parent # Sup
  BY <1>5, <1>6 DEF App!ChildrenOf
<1>8. proc[p].parent \in Pids
  BY <1>5, <1>6, <1>7 DEF Lineage, Process
<1>9. proc[proc[p].parent].own /\ proc[proc[p].parent].id < proc[p].id
  BY <1>5, <1>6, <1>8 DEF Lineage
<1>10. proc[proc[p].parent].id \in Ids /\ proc[proc[p].parent].id \in Nat /\ proc[p].id \in Nat
  BY <1>5, <1>8, <1>9 DEF Table, Process
<1>11. proc[p].id <= proc[proc[p].parent].id
  BY <1>3, <1>4, <1>10
<1>12. QED
  BY <1>9, <1>10, <1>11

----------------------------------------------------------------------------
(* The supervisor                                                          *)

OpenStates == {"pending", "accepted", "uncertain"}

SupervisorTypes ==
  /\ scope \in BOOLEAN /\ main \in {"launch", "spawned", "serving", "gone"} /\ launcher \in Pids \cup {Sup}
  /\ receipt \in {"none", "failed", "running", "exited"}
  /\ waiter \in [at : {"none", "before", "wait", "found", "done"}, child : Pids \cup {Sup}]
  /\ unit \in [state : {"none", "retired"} \cup OpenStates, early : BOOLEAN]

\* Before the launcher was started, nothing runs; the wait begins with the running receipt, and
\* the exited receipt follows its end.
Launching ==
  /\ launcher = Sup => main \in {"launch", "gone"} /\ starts = 0 /\ observed = 0 /\ \A p \in Pids : proc[p] = App!Free
  /\ launcher # Sup => main # "launch" /\ starts > 0
  /\ waiter.at = "none" => main # "serving"
  /\ waiter.at # "none" =>
       /\ launcher # Sup /\ main \in {"serving", "gone"}
       /\ main = "serving" => receipt = "running"
       /\ main = "gone" => waiter.at = "done" /\ receipt = "exited"

\* The launcher's number is its own until its status was taken, and then never again; what
\* the wait has found is there until it is reaped; what the wait has ended with is nothing.
Root == /\ proc[launcher].state # "free" /\ proc[launcher].id = 1
        /\ proc[launcher].parent = Sup /\ proc[launcher].own
Waiting ==
  /\ launcher # Sup => (observed = 0 /\ Root) \/ (observed = 1 /\ proc[launcher].id # 1)
  /\ waiter.at = "found" =>
       waiter.child \in Pids /\ proc[waiter.child].state = "zombie" /\ proc[waiter.child].parent = Sup
  /\ waiter.at = "done" => NoneOwn

\* A request is open as long as systemd may act on it, and an open request is of a launcher
\* whose status was not taken.
Requesting ==
  /\ unit.state \in OpenStates => launcher # Sup /\ observed = 0
  /\ unit.state = "none" => systemd \notin {"asked", "job"} /\ reply = "none" /\ ~removed /\ ~unit.early
  /\ systemd \in {"asked", "job"} => unit.state \in OpenStates /\ ~removed /\ ~unit.early /\ reply # "refused"

AppInv == Table /\ Passes /\ ~struck /\ SupervisorTypes /\ Launching /\ Waiting /\ Requesting

LEMMA AppInitially == ASSUME TableConstants, App!Init PROVE AppInv
<1>1. Table
  <2>1. App!Free \in Process
    BY DEF App!Free, Process
  <2>2. QED
    BY <2>1 DEF App!Init, Table, Lineage, App!Free
<1>2. Passes
  <2>1. <<>> \in Seq(PassFrame) /\ Len(<<>>) = 0
    OBVIOUS
  <2>2. pass \in [App!threads -> Seq(PassFrame)] /\ \A t \in App!threads : pass[t] = <<>>
    BY <2>1 DEF App!Init, App!NoFrame
  <2>3. Framing(<<>>)
    BY <2>1 DEF Framing
  <2>4. QED
    BY <2>2, <2>3 DEF Passes
<1>3. QED
  BY <1>1, <1>2 DEF App!Init, App!NothingAsked, App!NoRequest, TableConstants, AppInv, SupervisorTypes, Launching, Waiting,
                    Requesting, OpenStates

\* What the processes do by themselves, or a pass does to them, leaves the supervisor's account right.
LEMMA AccountStands ==
  ASSUME TableConstants, Table, Table', Later, Reserves, NoneOwn => NoneOwn',
         SupervisorTypes, Launching, Waiting, launcher # Sup \/ UNCHANGED starts,
         UNCHANGED <<scope, main, launcher, receipt, waiter, observed, unit>>
  PROVE  SupervisorTypes' /\ Launching' /\ Waiting'
<1>1. SupervisorTypes'
  BY DEF SupervisorTypes
<1>2. Launching'
  <2>1. ASSUME launcher = Sup, NEW p \in Pids PROVE proc'[p] = App!Free
    <3>1. proc[p] = App!Free /\ starts = 0 /\ starts' = 0
      BY <2>1 DEF Launching
    <3>2. proc'[p].id = 0
      BY <3>1 DEF Later, Stays, Begins, App!Free
    <3>3. Lineage(p)'
      BY DEF Table
    <3>4. QED
      BY <3>1, <3>2, <3>3 DEF Lineage
  <2>2. starts > 0 => starts' > 0
    BY DEF Later, Table
  <2>3. QED
    BY <2>1, <2>2 DEF Launching
<1>3. Waiting'
  <2>1. ASSUME launcher # Sup PROVE ((observed = 0 /\ Root) \/ (observed = 1 /\ proc[launcher].id # 1))'
    <3>1. launcher \in Pids /\ starts > 0 /\ starts \in Nat
      BY <2>1 DEF SupervisorTypes, Launching, Table
    <3>2. CASE observed = 0 /\ Root
      BY <3>1, <3>2 DEF Root, Reserves, Stays
    <3>3. CASE observed = 1 /\ proc[launcher].id # 1
      BY <3>1, <3>3 DEF Later, Stays, Begins, App!Free
    <3>4. QED
      BY <2>1, <3>2, <3>3 DEF Waiting
  <2>2. QED
    BY <2>1 DEF Waiting, Reserves
<1>4. QED
  BY <1>1, <1>2, <1>3
\* What a step leaves alone stays right.
LEMMA Unmoved ==
  ASSUME Table, Passes, ~struck, UNCHANGED <<proc, starts, struck>>, UNCHANGED pass
  PROVE  Table' /\ Passes' /\ ~struck'
BY TableStands, PassesLater

LEMMA Launches == ASSUME TableConstants, AppInv, App!Launch PROVE AppInv'
<1>1. launcher = Sup /\ starts = 0 /\ observed = 0 /\ launcher' \in Pids /\ Table /\ Passes /\ ~struck
  <2>1. App!Started(launcher', Sup, TRUE) /\ main = "launch"
    BY DEF App!Launch
  <2>2. launcher = Sup /\ Table /\ Passes
    BY <2>1 DEF AppInv, Launching
  <2>3. QED
    BY <2>2 DEF App!Launch, AppInv, Launching, TableConstants
<1>2. App!Started(launcher', Sup, TRUE) /\ main' = "spawned"
      /\ UNCHANGED <<scope, stopped, receipt, waiter, pass, observed, unit, systemd, reply, removed, struck>>
  BY DEF App!Launch, App!service
<1>3. Table' /\ Later
  BY <1>1, <1>2, TableStarts DEF TableConstants
<1>4. proc'[launcher'] = [state |-> "running", id |-> 1, parent |-> Sup, own |-> TRUE] /\ starts' = 1
  BY <1>1, <1>2 DEF App!Started, Table
<1>5. Passes'
  BY <1>1, <1>2, <1>3, PassesLater
<1>6. waiter.at = "none" /\ unit.state \notin OpenStates
  BY <1>1 DEF AppInv, Launching, Requesting
<1>7. QED
  BY <1>1, <1>2, <1>3, <1>4, <1>5, <1>6
     DEF AppInv, SupervisorTypes, Launching, Waiting, Root, Requesting, TableConstants
LEMMA LaunchEnds == ASSUME TableConstants, AppInv, App!LaunchFails \/ App!Running PROVE AppInv'
<1>1. UNCHANGED <<proc, starts, struck>> /\ UNCHANGED pass /\ UNCHANGED <<observed, launcher, unit, systemd, reply, removed, scope>>
  BY DEF App!LaunchFails, App!Running, App!service
<1>2. Table' /\ Passes' /\ ~struck'
  BY <1>1, Unmoved DEF AppInv
<1>3. CASE App!LaunchFails
  <2>1. waiter.at = "none" /\ waiter' = waiter /\ main' = "gone" /\ receipt' = "failed"
    BY <1>3 DEF App!LaunchFails, AppInv, Launching
  <2>2. QED
    BY <1>1, <1>2, <2>1 DEF AppInv, SupervisorTypes, Launching, Waiting, Root, NoneOwn, Requesting
<1>4. CASE App!Running
  <2>1. waiter' \in [at : {"none", "before", "wait", "found", "done"}, child : Pids \cup {Sup}] /\ waiter'.at = "before"
    BY <1>4 DEF App!Running, AppInv, SupervisorTypes
  <2>2. main = "spawned" /\ main' = "serving" /\ receipt' = "running" /\ launcher # Sup
    BY <1>4 DEF App!Running, AppInv, Launching
  <2>3. QED
    BY <1>1, <1>2, <2>1, <2>2 DEF AppInv, SupervisorTypes, Launching, Waiting, Root, Requesting
<1>5. QED
  BY <1>3, <1>4

LEMMA NoOpenRequestAtEnd == ASSUME TableConstants, AppInv, waiter.at = "done" PROVE ~App!Pinned(launcher) /\ observed = 1
<1>1. launcher \in Pids /\ launcher # Sup
  BY DEF AppInv, Launching, SupervisorTypes
<1>2. ~proc[launcher].own
  BY <1>1 DEF AppInv, Waiting, NoneOwn
<1>3. observed = 1
  BY <1>1, <1>2 DEF AppInv, Waiting, Root
<1>4. QED
  BY <1>3 DEF App!Pinned, AppInv, Requesting, OpenStates

LEMMA WaitEnds == ASSUME TableConstants, AppInv, App!WaitEnded PROVE AppInv'
<1>1. /\ waiter.at = "done" /\ main' = "gone" /\ receipt' = "exited"
      /\ UNCHANGED <<proc, starts, struck>> /\ UNCHANGED pass
      /\ UNCHANGED <<observed, launcher, unit, systemd, reply, removed, scope, waiter>>
  BY NoOpenRequestAtEnd DEF App!WaitEnded, App!service
<1>2. Table' /\ Passes' /\ ~struck'
  BY <1>1, Unmoved DEF AppInv
<1>3. QED
  BY <1>1, <1>2 DEF AppInv, SupervisorTypes, Launching, Waiting, Root, NoneOwn, Requesting

LEMMA PassMoves == ASSUME TableConstants, AppInv, NEW t \in App!threads, App!PassStep(t) PROVE AppInv'
<1>1. PassKept
  BY PassSteps DEF AppInv
<1>2. SupervisorTypes' /\ Launching' /\ Waiting'
  BY <1>1, AccountStands DEF PassKept, AppInv
<1>3. QED
  BY <1>1, <1>2 DEF PassKept, AppInv, Requesting

LEMMA Terminates == ASSUME TableConstants, AppInv, App!Terminate \/ App!BeforeWait PROVE AppInv'
<1>1. UNCHANGED <<proc, starts, struck>> /\ UNCHANGED <<main, launcher, receipt, observed, unit, systemd, reply, removed, scope>>
  BY DEF App!Terminate, App!BeforeWait, App!control, App!service
<1>2. Table' /\ Later /\ ~struck'
  BY <1>1, TableStands DEF AppInv
<1>3. Passes'
  <2>1. CASE App!Terminate
    BY <2>1, <1>2, PassBegins DEF App!Terminate, AppInv, App!threads
  <2>2. CASE App!BeforeWait
    BY <2>2, <1>2, PassBegins, PassesLater DEF App!BeforeWait, AppInv, App!threads
  <2>3. QED
    BY <2>1, <2>2
<1>4. \/ UNCHANGED waiter
      \/ /\ waiter.at = "before" /\ waiter'.at = "wait"
         /\ waiter' \in [at : {"none", "before", "wait", "found", "done"}, child : Pids \cup {Sup}]
  BY DEF App!Terminate, App!BeforeWait, AppInv, SupervisorTypes
<1>5. QED
  BY <1>1, <1>2, <1>3, <1>4 DEF AppInv, SupervisorTypes, Launching, Waiting, Root, NoneOwn, Requesting

LEMMA WaitIds == ASSUME TableConstants, AppInv, App!WaitId PROVE AppInv'
<1>1. /\ waiter.at = "wait"
      /\ UNCHANGED <<proc, starts, struck>> /\ UNCHANGED pass
      /\ UNCHANGED <<main, launcher, receipt, observed, unit, systemd, reply, removed, scope>>
  BY DEF App!WaitId, App!control, App!service
<1>2. Table' /\ Passes' /\ ~struck'
  BY <1>1, Unmoved DEF AppInv
<1>3. CASE \E c \in App!ChildrenOf(Sup) : proc[c].state = "zombie" /\ waiter' = [at |-> "found", child |-> c]
  <2>1. PICK c \in Pids : proc[c].state = "zombie" /\ proc[c].parent = Sup /\ waiter' = [at |-> "found", child |-> c]
    BY <1>3 DEF App!ChildrenOf
  <2>2. QED
    BY <1>1, <1>2, <2>1 DEF AppInv, SupervisorTypes, Launching, Waiting, Root, Requesting
<1>4. CASE App!ChildrenOf(Sup) = {} /\ waiter' = [waiter EXCEPT !.at = "done"]
  <2>1. NoneOwn'
    BY <1>1, <1>4, NobodyLeft DEF AppInv, NoneOwn
  <2>2. waiter' \in [at : {"none", "before", "wait", "found", "done"}, child : Pids \cup {Sup}] /\ waiter'.at = "done"
    BY <1>4 DEF AppInv, SupervisorTypes
  <2>3. main = "serving"
    BY <1>1 DEF AppInv, Launching
  <2>4. QED
    BY <1>1, <1>2, <2>1, <2>2, <2>3 DEF AppInv, SupervisorTypes, Launching, Waiting, Root, Requesting
<1>5. QED
  BY <1>3, <1>4 DEF App!WaitId

LEMMA Reaps == ASSUME TableConstants, AppInv, App!Reap PROVE AppInv'
<1> DEFINE c == waiter.child
<1>1. /\ waiter.at = "found" /\ ~App!Pinned(c) /\ proc' = [proc EXCEPT ![c] = App!Free]
      /\ observed' = IF c = launcher /\ observed = 0 THEN proc[launcher].id ELSE observed
      /\ waiter' = [at |-> "before", child |-> Sup]
      /\ UNCHANGED starts /\ UNCHANGED pass /\ UNCHANGED struck
      /\ UNCHANGED <<main, launcher, receipt, unit, systemd, reply, removed, scope>>
  BY DEF App!Reap, App!control, App!service
<1>2. /\ c \in Pids /\ proc[c].state = "zombie" /\ proc[c].parent = Sup /\ launcher # Sup /\ launcher \in Pids
      /\ Table /\ Passes /\ starts \in Nat /\ starts > 0
  BY <1>1 DEF AppInv, Waiting, Launching, SupervisorTypes, Table
<1>3. Table' /\ Later
  BY <1>1, <1>2, TableFrees
<1>4. Passes'
  BY <1>1, <1>2, <1>3, PassesLater
<1>5. proc'[c] = App!Free /\ \A q \in Pids : q # c => proc'[q] = proc[q]
  BY <1>1, <1>2 DEF Table
<1>6. ((observed = 0 /\ Root) \/ (observed = 1 /\ proc[launcher].id # 1))'
  <2>1. CASE c = launcher
    BY <2>1, <1>1, <1>2, <1>5 DEF AppInv, Waiting, Root, App!Free
  <2>2. CASE c # launcher
    BY <2>2, <1>1, <1>2, <1>5 DEF AppInv, Waiting, Root
  <2>3. QED
    BY <2>1, <2>2
<1>7. unit.state \in OpenStates => c # launcher
  BY <1>1 DEF App!Pinned, OpenStates
<1>8. SupervisorTypes' /\ Launching' /\ Waiting' /\ Requesting'
  BY <1>1, <1>2, <1>6, <1>7 DEF AppInv, SupervisorTypes, Launching, Waiting, Requesting
<1>9. QED
  BY <1>1, <1>3, <1>4, <1>8 DEF AppInv

LEMMA OthersMove == ASSUME TableConstants, AppInv, App!OtherProcesses PROVE AppInv'
<1>1. /\ launcher # Sup /\ App!Processes /\ UNCHANGED <<waiter, pass, observed, struck>>
      /\ UNCHANGED <<main, launcher, receipt, unit, systemd, reply, removed, scope>>
  BY DEF App!OtherProcesses, App!Live, App!control, App!service
<1>2. Table
  BY DEF AppInv
<1>3. PICK p \in Pids : (\E q \in Pids : App!Fork(p, q)) \/ App!Stranger(p) \/ App!Exit(p) \/ App!Wait(p)
  BY <1>1 DEF App!Processes
<1>4. Table' /\ Later /\ Reserves /\ (NoneOwn => NoneOwn')
  <2>1. CASE \E q \in Pids : App!Fork(p, q)
    <3>1. PICK q \in Pids : App!Fork(p, q)
      BY <2>1
    <3>2. App!Alive(p) /\ App!Started(q, p, proc[p].own) /\ proc[p].own \in BOOLEAN /\ p # Other /\ p # Sup
      BY <3>1, <1>2 DEF App!Fork, Table, Process, TableConstants
    <3>3. Table' /\ Later /\ Reserves /\ (~proc[p].own /\ NoneOwn => NoneOwn')
      <4>1. PICK own \in BOOLEAN : own = proc[p].own
        BY <3>2
      <4>2. QED
        BY <1>2, <3>2, <4>1, TableStarts
    <3>4. QED
      BY <3>3 DEF NoneOwn
  <2>2. CASE App!Stranger(p)
    BY <2>2, <1>2, TableStarts DEF App!Stranger, TableConstants
  <2>3. CASE App!Exit(p)
    BY <2>3, <1>2, TableEnds DEF App!Exit
  <2>4. CASE App!Wait(p)
    BY <2>4, <1>2, TableFrees DEF App!Wait, TableConstants
  <2>5. QED
    BY <1>3, <2>1, <2>2, <2>3, <2>4
<1>5. Passes' /\ SupervisorTypes' /\ Launching' /\ Waiting'
  BY <1>1, <1>4, PassesLater, AccountStands DEF AppInv
<1>6. QED
  BY <1>1, <1>4, <1>5 DEF AppInv, Requesting

\* The launcher's request and its answers.
LEMMA RequestMoves ==
  ASSUME TableConstants, AppInv,
         App!Call \/ App!CallLost \/ App!Loop \/ App!Systemd \/ App!SystemdEnds
  PROVE  AppInv'
<1>1. UNCHANGED <<proc, starts, struck>> /\ UNCHANGED <<pass, scope, main, launcher, receipt, waiter, observed>>
  BY DEF App!Call, App!CallLost, App!Loop, App!Completed, App!JobRemoved, App!OwnerChanged, App!Systemd, App!JobEnds,
         App!Answer, App!SystemdEnds, App!Outside, App!control
<1>2. Table' /\ Passes' /\ ~struck' /\ Launching' /\ Waiting'
  BY <1>1, Unmoved DEF AppInv, Launching, Waiting, Root, NoneOwn
<1>3. unit \in [state : {"none", "retired"} \cup OpenStates, early : BOOLEAN] /\ Requesting
  BY DEF AppInv, SupervisorTypes
<1>4. unit' \in [state : {"none", "retired"} \cup OpenStates, early : BOOLEAN] /\ Requesting'
  <2>1. CASE App!Call
    <3>1. launcher # Sup /\ observed = 0
      <4>1. main = "serving" /\ App!Alive(launcher) /\ proc[launcher].id = 1
        BY <2>1 DEF App!Call, App!Looping, App!Pin
      <4>2. QED
        BY <4>1 DEF AppInv, Launching, Waiting
    <3>2. QED
      BY <2>1, <3>1, <1>1, <1>3 DEF App!Call, App!NoRequest, Requesting, OpenStates
  <2>2. CASE App!CallLost
    BY <2>2, <1>1, <1>3 DEF App!CallLost, Requesting, OpenStates
  <2>3. CASE App!Completed
    BY <2>3, <1>1, <1>3 DEF App!Completed, App!Retired, Requesting, OpenStates
  <2>4. CASE App!JobRemoved
    BY <2>4, <1>1, <1>3 DEF App!JobRemoved, App!Retired, Requesting, OpenStates
  <2>5. CASE App!OwnerChanged
    BY <2>5, <1>1, <1>3 DEF App!OwnerChanged, App!Retired, Requesting, OpenStates
  <2>6. CASE App!Systemd
    BY <2>6, <1>1, <1>3 DEF App!Systemd, App!JobEnds, App!Answer, Requesting, OpenStates
  <2>7. CASE App!SystemdEnds
    BY <2>7, <1>1, <1>3 DEF App!SystemdEnds, Requesting, OpenStates
  <2>8. QED
    BY <2>1, <2>2, <2>3, <2>4, <2>5, <2>6, <2>7 DEF App!Loop
<1>5. SupervisorTypes'
  BY <1>1, <1>4 DEF AppInv, SupervisorTypes
<1>6. QED
  BY <1>2, <1>4, <1>5 DEF AppInv

LEMMA AppSteps == ASSUME TableConstants, AppInv, [App!Next]_App!vars PROVE AppInv'
<1>1. CASE UNCHANGED App!vars
  <2>1. /\ UNCHANGED <<proc, starts, struck>> /\ UNCHANGED pass
        /\ UNCHANGED <<scope, main, launcher, receipt, waiter, observed, unit, systemd, reply, removed>>
    BY <1>1 DEF App!vars, App!control, App!service
  <2>2. Table' /\ Passes' /\ ~struck'
    BY <2>1, Unmoved DEF AppInv
  <2>3. QED
    BY <2>1, <2>2 DEF AppInv, SupervisorTypes, Launching, Waiting, Root, NoneOwn, Requesting
<1>2. CASE App!MainThread
  BY <1>2, LaunchEnds, WaitEnds, PassMoves DEF App!MainThread, App!threads
<1>3. CASE App!WaitingThread
  BY <1>3, Terminates, WaitIds, Reaps, PassMoves DEF App!WaitingThread, App!threads
<1>4. QED
  BY <1>1, <1>2, <1>3, Launches, LaunchEnds, Terminates, RequestMoves, OthersMove DEF App!Next

LEMMA AppInvHolds == PartsSpec => []AppInv
<1>1. PartsInit => AppInv
  BY ConstantsGiven, AppInitially DEF PartsInit
<1>2. AppInv /\ [PartsNext]_<<part, vars, appVars, textVars>> => AppInv'
  <2>1. ASSUME AppInv, UNCHANGED appVars PROVE AppInv'
    BY <2>1, ConstantsGiven, AppSteps DEF appVars, App!vars, App!control, App!service
  <2>2. ASSUME AppInv, App!Next PROVE AppInv'
    BY <2>2, ConstantsGiven, AppSteps
  <2>3. QED
    BY <2>1, <2>2 DEF PartsNext
<1>3. QED
  BY <1>1, <1>2, PTL DEF PartsSpec

\* When the wait is over no process of the application is left, the exit code is the
\* launcher's own and no request makes the supervisor fail: for any numbers, however they
\* are used again, and any forks, orphans, passes and answers.
THEOREM ExitedWholeHolds == PartsSpec => []ExitedWhole
<1>1. AppInv => ExitedWhole
  <2>1. SUFFICES ASSUME AppInv, waiter.at = "done"
                 PROVE  (\A p \in Pids : ~proc[p].own) /\ observed = 1 /\ receipt # "failed"
    BY DEF ExitedWhole, App!ExitedWhole
  <2>2. observed = 1
    BY <2>1, ConstantsGiven, NoOpenRequestAtEnd
  <2>3. NoneOwn /\ receipt # "failed"
    BY <2>1 DEF AppInv, Waiting, Launching
  <2>4. QED
    BY <2>2, <2>3 DEF NoneOwn
<1>2. QED
  BY <1>1, AppInvHolds, PTL

\* Only the application's own processes are named to systemd or struck, but for the children
\* of a stranger that took the number of a descendant.
THEOREM StrangersSparedHolds == PartsSpec => []StrangersSpared
<1>1. AppInv => StrangersSpared
  BY DEF AppInv, Requesting, Waiting, Root, StrangersSpared, App!StrangersSpared
<1>2. QED
  BY <1>1, AppInvHolds, PTL

----------------------------------------------------------------------------
(* LoginText, the child that hands the viewer's text to the application.   *)

ChildTypes ==
  /\ request \in 0..MaxPastes /\ text \in 0..MaxPastes
  /\ sent \in 0..MaxPastes /\ handled \in 0..MaxPastes
  /\ timer \in {"none", "deadline", "quiet"} /\ overtaken \in Nat
  /\ answer \in [Text!Pastes -> {"none", "ready", "confirmed", "refused"}]
  /\ writer \in [Writers -> [state : {"free", "writing", "written", "failed"}, text : 0..MaxPastes, request : 0..MaxPastes]]

\* What a reader that asked for the pending paste writes is its text.
TextOfRequest ==
  /\ handled <= sent
  /\ request # 0 => text = request
  /\ \A w \in Writers : writer[w].request # 0 => writer[w].text = writer[w].request

\* A thread that has written its text has read it to its end.
WrittenWhole == \A w \in Writers : writer[w].state = "written" => writer[w].text \in whole

\* Whatever may confirm the pending paste does so rightly.
Answerable == request # 0 /\ answer[request] \notin {"confirmed", "refused"}
ReadOrHurried == Answerable /\ (timer = "quiet" \/ overtaken > 0) => request \in whole \cup hurried

ChildInv == ChildTypes /\ TextOfRequest /\ WrittenWhole /\ ReadOrHurried /\ Text!ConfirmedWasRead

USE DEF Text!Pastes

LEMMA ChildInitially == ASSUME MaxPastes \in Nat, Text!Init PROVE ChildInv
BY DEF Text!Init, ChildInv, ChildTypes, TextOfRequest, WrittenWhole, ReadOrHurried, Answerable,
       Text!ConfirmedWasRead, Text!Free

\* One verdict of the pending paste settles it and leaves nothing pending.
LEMMA Finishing ==
  ASSUME MaxPastes \in Nat, ChildInv, NEW verdict \in {"confirmed", "refused"}, Text!Finish(verdict),
         verdict = "confirmed" => timer = "quiet" \/ overtaken > 0,
         UNCHANGED <<handled, sent>>, text' \in {0, text}, overtaken' \in Nat,
         \A w \in Writers : writer'[w] = Text!Free \/ writer'[w] = writer[w],
         writer' = [w \in Writers |-> writer'[w]],
         UNCHANGED <<whole, hurried>>
  PROVE  ChildInv'
<1>1. writer' \in [Writers -> [state : {"free", "writing", "written", "failed"}, text : 0..MaxPastes, request : 0..MaxPastes]]
  <2>1. \A w \in Writers : writer'[w] \in [state : {"free", "writing", "written", "failed"}, text : 0..MaxPastes, request : 0..MaxPastes]
    BY DEF ChildInv, ChildTypes, Text!Free
  <2>2. QED
    BY <2>1
<1>2. /\ answer' \in [Text!Pastes -> {"none", "ready", "confirmed", "refused"}]
      /\ \A p \in Text!Pastes : answer'[p] = answer[p] \/ (p = request /\ Answerable /\ answer'[p] = verdict)
  BY DEF Text!Finish, Text!Completed, ChildInv, ChildTypes, Answerable
<1>3. ChildTypes'
  BY <1>1, <1>2 DEF Text!Finish, ChildInv, ChildTypes
<1>4. TextOfRequest' /\ WrittenWhole'
  BY DEF Text!Finish, ChildInv, TextOfRequest, WrittenWhole, Text!Free
<1>5. ReadOrHurried' /\ Text!ConfirmedWasRead'
  BY <1>2 DEF Text!Finish, ChildInv, ReadOrHurried, Answerable, Text!ConfirmedWasRead
<1>6. QED
  BY <1>3, <1>4, <1>5 DEF ChildInv

LEMMA Sending == ASSUME MaxPastes \in Nat, ChildInv, Text!Send PROVE ChildInv'
BY DEF Text!Send, ChildInv, ChildTypes, TextOfRequest, WrittenWhole, ReadOrHurried, Answerable,
       Text!ConfirmedWasRead, Text!backend, Text!history

LEMMA Commanding == ASSUME MaxPastes \in Nat, ChildInv, Text!Command PROVE ChildInv'
<1> DEFINE p == handled + 1
<1>1. p \in Text!Pastes /\ p # 0 /\ handled' = p /\ handled' \in 0..MaxPastes /\ handled' <= sent
  BY DEF Text!Command, ChildInv, ChildTypes, TextOfRequest
<1>2. UNCHANGED <<sent, writer, whole>>
  BY DEF Text!Command
<1>3. CASE request # 0 \/ ~current
  BY <1>1, <1>2, <1>3 DEF Text!Command, Text!Completed, Text!backend, ChildInv, ChildTypes, TextOfRequest, WrittenWhole,
       ReadOrHurried, Answerable, Text!ConfirmedWasRead
<1>4. CASE request = 0 /\ Text!Paste(p)
  BY <1>1, <1>2, <1>4 DEF Text!Paste, ChildInv, ChildTypes, TextOfRequest, WrittenWhole,
       ReadOrHurried, Answerable, Text!ConfirmedWasRead
<1>5. CASE request = 0 /\ Text!PasteFails(p)
  BY <1>1, <1>2, <1>5 DEF Text!PasteFails, Text!Completed, ChildInv, ChildTypes, TextOfRequest, WrittenWhole,
       ReadOrHurried, Answerable, Text!ConfirmedWasRead
<1>6. QED
  BY <1>1, <1>3, <1>4, <1>5 DEF Text!Command

LEMMA Transferring == ASSUME MaxPastes \in Nat, ChildInv, NEW w \in Writers, Text!Transfer(w) PROVE ChildInv'
BY DEF Text!Transfer, ChildInv, ChildTypes, TextOfRequest, WrittenWhole, ReadOrHurried, Answerable,
       Text!ConfirmedWasRead, Text!backend, Text!history

LEMMA Writing == ASSUME MaxPastes \in Nat, ChildInv, NEW w \in Writers, Text!Write(w) PROVE ChildInv'
<1>1. PICK result \in {"written", "failed"} :
        /\ writer' = [writer EXCEPT ![w].state = result]
        /\ whole' = IF result = "written" THEN whole \cup {writer[w].text} ELSE whole
  BY DEF Text!Write
<1>2. /\ writer' \in [Writers -> [state : {"free", "writing", "written", "failed"}, text : 0..MaxPastes, request : 0..MaxPastes]]
      /\ writer'[w].state = result
      /\ \A v \in Writers : v # w => writer'[v] = writer[v]
      /\ \A v \in Writers : writer'[v].text = writer[v].text /\ writer'[v].request = writer[v].request
  BY <1>1 DEF ChildInv, ChildTypes
<1>3. whole \subseteq whole' /\ (result = "written" => writer[w].text \in whole')
  BY <1>1
<1>4. UNCHANGED <<sent, handled, answer, request, text, timer, overtaken, hurried>>
  BY DEF Text!Write, Text!backend
<1>5. ChildTypes' /\ TextOfRequest' /\ ReadOrHurried' /\ Text!ConfirmedWasRead'
  BY <1>2, <1>3, <1>4 DEF ChildInv, ChildTypes, TextOfRequest, ReadOrHurried, Answerable, Text!ConfirmedWasRead
<1>6. WrittenWhole'
  BY <1>2, <1>3 DEF ChildInv, WrittenWhole
<1>7. QED
  BY <1>5, <1>6 DEF ChildInv

\* A reader of the pending paste has read its text; the readers of others change nothing.
LEMMA DoneStep == ASSUME MaxPastes \in Nat, ChildInv, NEW w \in Writers, Text!Done(w) PROVE ChildInv'
<1>1. /\ UNCHANGED <<handled, sent, text, overtaken, whole, hurried>>
      /\ writer' = [writer EXCEPT ![w] = Text!Free]
  BY DEF Text!Done, Text!history
<1>2. /\ \A v \in Writers : writer'[v] = Text!Free \/ writer'[v] = writer[v]
      /\ writer' = [v \in Writers |-> writer'[v]]
      /\ text' \in {0, text} /\ overtaken' \in Nat
  BY <1>1 DEF ChildInv, ChildTypes
<1>3. CASE Text!Finish("refused")
  BY <1>1, <1>2, <1>3, Finishing
<1>4. CASE UNCHANGED <<request, timer, answer>>
  BY <1>1, <1>4 DEF ChildInv, ChildTypes, TextOfRequest, WrittenWhole, ReadOrHurried, Answerable,
       Text!ConfirmedWasRead, Text!Free
<1>5. CASE /\ writer[w].request = request /\ writer[w].state = "written"
           /\ timer' = "quiet" /\ UNCHANGED <<request, answer>>
  BY <1>1, <1>5 DEF ChildInv, ChildTypes, TextOfRequest, WrittenWhole, ReadOrHurried, Answerable,
       Text!ConfirmedWasRead, Text!Free
<1>6. QED
  BY <1>3, <1>4, <1>5 DEF Text!Done, Text!Settle

LEMMA ChildSteps == ASSUME MaxPastes \in Nat, ChildInv, [Text!Next]_Text!vars PROVE ChildInv'
<1>0. writer = [w \in Writers |-> writer[w]]
  BY DEF ChildInv, ChildTypes
<1>1. CASE Text!TransferFails
  BY <1>0, <1>1, Finishing DEF Text!TransferFails, ChildInv, ChildTypes, Text!history
<1>2. CASE Text!TimerFires
  BY <1>0, <1>2, Finishing DEF Text!TimerFires, ChildInv, ChildTypes, Text!history
<1>3. CASE Text!OvertakenFires
  BY <1>0, <1>3, Finishing DEF Text!OvertakenFires, ChildInv, ChildTypes, Text!history
<1>4. CASE Text!Close
  BY <1>0, <1>4, Finishing DEF Text!Close, ChildInv, ChildTypes, Text!history
<1>5. CASE Text!SessionChanges \/ Text!Quits \/ UNCHANGED Text!vars
  BY <1>5 DEF Text!SessionChanges, Text!Quits, Text!vars, ChildInv, ChildTypes, TextOfRequest, WrittenWhole,
       ReadOrHurried, Answerable, Text!ConfirmedWasRead, Text!backend, Text!history
<1>6. QED
  BY <1>1, <1>2, <1>3, <1>4, <1>5, Sending, Commanding, Transferring, Writing, DoneStep DEF Text!Next

\* A confirmed paste was read: whatever readers, failures, terminal switches and timers
\* come in between, for any number of pastes and threads.
THEOREM ConfirmedWasReadHolds == PartsSpec => []ConfirmedWasRead
<1>1. PartsInit => ChildInv
  BY PartsAssumption, ChildInitially DEF PartsInit
<1>2. ChildInv /\ [PartsNext]_<<part, vars, appVars, textVars>> => ChildInv'
  <2>1. ASSUME ChildInv, UNCHANGED textVars PROVE ChildInv'
    BY <2>1, PartsAssumption, ChildSteps DEF textVars, Text!vars, Text!backend, Text!history
  <2>2. ASSUME ChildInv, Text!Next PROVE ChildInv'
    BY <2>2, PartsAssumption, ChildSteps
  <2>3. QED
    BY <2>1, <2>2 DEF PartsNext
<1>3. ChildInv => ConfirmedWasRead
  BY DEF ChildInv, ConfirmedWasRead
<1>4. QED
  BY <1>1, <1>2, <1>3, PTL DEF PartsSpec

=============================================================================
