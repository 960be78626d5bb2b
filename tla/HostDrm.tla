------------------------------- MODULE HostDrm -------------------------------
(***************************************************************************)
(* The media worker of the login service (host_desktop_drm.py): the thread *)
(* that asks the exporter for what the display scans out, the thread that  *)
(* asks it for the cursor, the main loop that gives both to DesktopMedia   *)
(* and takes the commands of the login service, and the bounded Writer     *)
(* (host_desktop_wire.py) that carries its answers.                        *)
(*                                                                         *)
(* Each configure starts an epoch of the capture and a generation of the   *)
(* owner: they are counted by the same number.  A picture is the number of *)
(* the change that made it; 0 is none.  The pace of the threads is left    *)
(* out, and what DesktopMedia does with a picture is in HostMedia.         *)
(***************************************************************************)
EXTENDS Naturals, Sequences, FiniteSets

CONSTANTS
    MaxGenerations, \* bound: configure commands
    MaxEvents,      \* bound: changes of the display: pictures, moves of the pointer, darkness
    Capacity        \* messages the Writer holds

ASSUME BoundsAssumption ==
  /\ {MaxGenerations, MaxEvents, Capacity} \subseteq Nat \ {0}

VARIABLES
    screen, \* what is scanned out, the pointer over it, and whether it is lit
    capture,\* the fields of DRMCapture that its threads share
    grab,   \* the capture thread
    point,  \* the cursor thread
    tasks,  \* the idle queue of the main loop
    worker, \* the generation that is open, and whether the worker has failed
    output, \* the Writer
    owner   \* the login service: what it has sent, and what it was told

vars == <<screen, capture, grab, point, tasks, worker, output, owner>>

\* The pointer is hidden or at one of two places, where it looks the same.
Hidden == 0
Places == {1, 2}

Fresh == [epoch |-> 0, enabled |-> FALSE, probing |-> FALSE, reset |-> TRUE, settling |-> FALSE,
          size |-> 0, previous |-> 0, seen |-> {}, shape |-> 0, sample |-> {}, pointer |-> {}]

Shut == [media |-> FALSE, epoch |-> 0, latest |-> 0, size |-> 0, failed |-> FALSE]
Idle == [at |-> "loop", enabled |-> FALSE, probe |-> FALSE, epoch |-> 0, reset |-> FALSE, picture |-> 0, size |-> 0]
Still == [at |-> "loop", epoch |-> 0, pointer |-> Hidden]
Unpainted == [picture |-> 0, pointer |-> Hidden, shaped |-> FALSE]

Say(kind) == [kind |-> kind, epoch |-> 0, reset |-> FALSE]
Of(kind, epoch) == [Say(kind) EXCEPT !.epoch = epoch]

Init ==
  /\ owner \in [generation : {0}, from : {0}, waking : {FALSE}, probing : BOOLEAN, over : {FALSE}, shown : {Unpainted}]
  /\ screen \in [picture : {1}, size : {1}, light : {"lit"}, pointer : {Hidden, 1}, events : {0}, hid : {0}]
  /\ capture = Fresh
  /\ grab = Idle /\ point = Still /\ tasks = IF owner.probing THEN <<Say("probe")>> ELSE <<>>
  /\ worker = Shut
  /\ output = [queue |-> <<>>, closed |-> FALSE]

Running == ~worker.failed /\ ~owner.over

----------------------------------------------------------------------------
(* The display *)

Event == Running /\ screen.events < MaxEvents

Change ==
  /\ Event /\ \E size \in {1, 2} : screen' = [screen EXCEPT !.picture = @ + 1, !.size = size, !.events = @ + 1]
  /\ UNCHANGED <<capture, grab, point, tasks, worker, output, owner>>

Move ==
  /\ Event
  /\ \E p \in ({Hidden} \cup Places) \ {screen.pointer} :
       screen' = [screen EXCEPT !.pointer = p, !.events = @ + 1, !.hid = IF p = Hidden THEN owner.generation ELSE @]
  /\ UNCHANGED <<capture, grab, point, tasks, worker, output, owner>>

\* The display sleeps, or what the exporter has opened is no longer what scans out.
Darken ==
  /\ Event /\ screen.light = "lit"
  /\ \E light \in {"asleep", "lapsed"} : screen' = [screen EXCEPT !.light = light, !.events = @ + 1]
  /\ UNCHANGED <<capture, grab, point, tasks, worker, output, owner>>

Wakes ==
  /\ Running /\ screen.light = "asleep" /\ screen' = [screen EXCEPT !.light = "lit"]
  /\ UNCHANGED <<capture, grab, point, tasks, worker, output, owner>>

----------------------------------------------------------------------------
(* The capture thread *)

\* configure
Configured(c, reset) ==
  [c EXCEPT !.epoch = @ + 1, !.enabled = TRUE, !.reset = @ \/ reset, !.settling = reset,
            !.previous = 0, !.seen = {}, !.shape = 0, !.pointer = {}]

\* settle_until has passed, which matters to a display that is dark.
SettleOver ==
  /\ Running /\ capture.settling /\ screen.light # "lit" /\ capture' = [capture EXCEPT !.settling = FALSE]
  /\ UNCHANGED <<screen, grab, point, tasks, worker, output, owner>>

\* inactive, of either thread
Inactive(epoch) ==
  IF epoch # capture.epoch \/ ~capture.enabled \/ capture.settling THEN UNCHANGED <<capture, tasks>>
  ELSE /\ capture' = [capture EXCEPT !.enabled = FALSE, !.sample = {}, !.pointer = {}]
       /\ tasks' = Append(tasks, Of("suspended", epoch))

Grabs(place) == Running /\ grab.at = place
At(place) == [grab EXCEPT !.at = place]

Snapshot ==
  /\ Grabs("loop") /\ (capture.enabled \/ capture.probing)
  /\ grab' = [Idle EXCEPT !.at = "export", !.enabled = capture.enabled, !.probe = capture.probing,
                          !.epoch = capture.epoch, !.reset = capture.reset]
  /\ UNCHANGED <<screen, capture, point, tasks, worker, output, owner>>

\* What the exporter finds: a reset opens the scanout again.
Opened == IF grab.reset /\ screen.light = "lapsed" THEN "lit" ELSE screen.light

\* A probe of a capture that is not enabled is told the code instead.
Tells == grab.probe /\ ~grab.enabled

\* descriptor.  The reset that was read is cleared first, under a second lock.
Export ==
  /\ Grabs("export") /\ screen' = [screen EXCEPT !.light = Opened] /\ capture' = [capture EXCEPT !.reset = FALSE]
  /\ grab' = IF Opened = "lit" THEN [At("check") EXCEPT !.picture = screen.picture, !.size = screen.size]
             ELSE At("dark")
  /\ UNCHANGED <<point, tasks, worker, output, owner>>

\* Mutant: a probe that finds no picture ends without a word.
AnswerNobody(c) == capture' = [c EXCEPT !.probing = FALSE] /\ UNCHANGED tasks

Answer(c) == capture' = [c EXCEPT !.probing = FALSE] /\ tasks' = Append(tasks, Say("probed"))

ExportFails ==
  /\ Grabs("export")
  /\ LET asked == [capture EXCEPT !.reset = FALSE]
     IN  IF Tells THEN Answer(asked) /\ grab' = Idle
         ELSE tasks' = Append(tasks, Say("failed")) /\ grab' = [Idle EXCEPT !.at = "stopped"] /\ capture' = asked
  /\ UNCHANGED <<screen, point, worker, output, owner>>

\* DISPLAY_INACTIVE
Dark ==
  /\ Grabs("dark") /\ grab' = Idle
  /\ IF capture.settling THEN UNCHANGED <<capture, tasks>>
     ELSE IF grab.enabled THEN Inactive(grab.epoch)
     ELSE Answer(capture)
  /\ UNCHANGED <<screen, point, worker, output, owner>>

Current(epoch) == epoch = capture.epoch

\* A display of another size ends the generation: capture stops until it is told to go on.
Resized == capture.size # 0 /\ grab.size # capture.size

\* One publish is scheduled for whatever is pending when it runs.
Scheduled(queue, kind) == IF \E i \in DOMAIN queue : queue[i].kind = kind THEN queue ELSE Append(queue, Say(kind))

\* The picture of an epoch that is over is dropped.  Else whoever probes is answered, and
\* the picture is copied, compared and queued: a configure meanwhile drops it here or,
\* what comes to the same, when it is published.
Check ==
  /\ Grabs("check") /\ grab' = Idle
  /\ LET answered == IF grab.probe THEN Append(tasks, Say("probed")) ELSE tasks
         asked == [capture EXCEPT !.probing = @ /\ ~grab.probe]
         taken == [epoch |-> grab.epoch, picture |-> grab.picture, size |-> grab.size]
     IN  IF ~Current(grab.epoch) THEN UNCHANGED <<capture, tasks>>
         ELSE IF ~grab.enabled THEN capture' = asked /\ tasks' = answered
         ELSE IF Resized
           THEN /\ tasks' = Append(answered, Of("geometry", grab.epoch))
                /\ capture' = [asked EXCEPT !.previous = 0, !.sample = {}, !.enabled = FALSE, !.size = 0]
         ELSE IF capture.previous = grab.picture
           THEN capture' = [asked EXCEPT !.size = grab.size] /\ tasks' = answered
         ELSE /\ capture' = [asked EXCEPT !.size = grab.size, !.previous = grab.picture, !.sample = {taken}]
              /\ tasks' = Scheduled(answered, "sample")
  /\ UNCHANGED <<screen, point, worker, output, owner>>

----------------------------------------------------------------------------
(* The cursor thread *)

Points(place) == Running /\ point.at = place

\* A pointer that was read before a configure is dropped, and the next one is read.
PointRead ==
  /\ Points("loop") /\ capture.enabled /\ capture.size # 0
  /\ IF screen.light # "lit" THEN UNCHANGED point /\ Inactive(capture.epoch)
     ELSE /\ capture.seen # {screen.pointer} /\ capture' = [capture EXCEPT !.seen = {screen.pointer}]
          /\ point' = [at |-> "queue", epoch |-> capture.epoch, pointer |-> screen.pointer]
          /\ UNCHANGED tasks
  /\ UNCHANGED <<screen, grab, worker, output, owner>>

PointFails ==
  /\ Points("loop") /\ capture.enabled /\ capture.size # 0
  /\ point' = [Still EXCEPT !.at = "stopped"] /\ tasks' = Append(tasks, Say("failed"))
  /\ UNCHANGED <<screen, capture, grab, worker, output, owner>>

\* shape: the epoch is part of it, as each generation starts with the system's cursor.
Shape(epoch) == epoch

\* queue_cursor: a position joins the shape that is still pending, anything else
\* replaces what is.
PointQueue ==
  /\ Points("queue") /\ point' = Still
  /\ LET visible == point.pointer # Hidden
         shaped == visible /\ Shape(point.epoch) # capture.shape
         joins == \E p \in capture.pointer : p.epoch = point.epoch /\ p.shaped
     IN  capture' = [capture EXCEPT !.shape = IF shaped THEN Shape(point.epoch) ELSE @,
                                    !.pointer = {[epoch |-> point.epoch, pointer |-> point.pointer,
                                                  shaped |-> shaped \/ (visible /\ joins)]}]
  /\ tasks' = Scheduled(tasks, "pointer")
  /\ UNCHANGED <<screen, grab, worker, output, owner>>

----------------------------------------------------------------------------
(* The main loop *)

Message(kind) == [kind |-> kind, generation |-> worker.epoch, picture |-> 0, pointer |-> Hidden, shaped |-> FALSE]

\* Writer.send: a queue that is full closes the transport.
Send(queue, message) ==
  IF output.closed THEN tasks' = queue /\ UNCHANGED output
  ELSE IF Len(output.queue) < Capacity
    THEN tasks' = queue /\ output' = [output EXCEPT !.queue = Append(@, message)]
  ELSE tasks' = Append(queue, Say("failed")) /\ output' = [output EXCEPT !.closed = TRUE]

Quiet(queue) == tasks' = queue /\ UNCHANGED output

\* Mutant: any generation that is open takes what is queued.
OpenNow(epoch) == worker.media

Open(epoch) == worker.media /\ epoch = worker.epoch

Heads(kind) == Running /\ tasks # <<>> /\ Head(tasks).kind = kind

\* configure: the generation before is closed first.
Configure ==
  /\ Heads("configure") /\ Quiet(Tail(tasks))
  /\ capture' = Configured(capture, Head(tasks).reset)
  /\ worker' = [worker EXCEPT !.media = TRUE, !.epoch = capture.epoch + 1, !.latest = 0, !.size = 0]
  /\ UNCHANGED <<screen, grab, point, owner>>

Probe ==
  /\ Heads("probe") /\ Quiet(Tail(tasks)) /\ capture' = [capture EXCEPT !.probing = TRUE, !.settling = TRUE]
  /\ UNCHANGED <<screen, grab, point, worker, owner>>

Probed ==
  /\ Heads("probed") /\ Send(Tail(tasks), Message("capabilities"))
  /\ UNCHANGED <<screen, capture, grab, point, worker, owner>>

\* publish, of queue_sample: what is pending may be of an epoch that has ended.  When
\* its frame leaves is told by HostMedia.
Sample ==
  /\ Heads("sample") /\ capture' = [capture EXCEPT !.sample = {}]
  /\ IF \E s \in capture.sample : Open(s.epoch)
       THEN LET s == CHOOSE s \in capture.sample : TRUE
            IN  /\ worker' = [worker EXCEPT !.latest = s.picture, !.size = s.size]
                /\ Send(Tail(tasks), [Message("frame") EXCEPT !.picture = s.picture])
       ELSE Quiet(Tail(tasks)) /\ UNCHANGED worker
  /\ UNCHANGED <<screen, grab, point, owner>>

\* publish, of queue_cursor
Pointer ==
  /\ Heads("pointer") /\ capture' = [capture EXCEPT !.pointer = {}]
  /\ IF \E p \in capture.pointer : Open(p.epoch)
       THEN LET p == CHOOSE p \in capture.pointer : TRUE
            IN  Send(Tail(tasks), [Message("cursor") EXCEPT !.pointer = p.pointer, !.shaped = p.shaped])
       ELSE Quiet(Tail(tasks))
  /\ UNCHANGED <<screen, grab, point, worker, owner>>

Geometry ==
  /\ Heads("geometry")
  /\ IF Open(Head(tasks).epoch)
       THEN Send(Tail(tasks), Message("displays")) /\ worker' = [worker EXCEPT !.media = FALSE]
       ELSE Quiet(Tail(tasks)) /\ UNCHANGED worker
  /\ UNCHANGED <<screen, capture, grab, point, owner>>

Suspended ==
  /\ Heads("suspended")
  /\ IF Open(Head(tasks).epoch) THEN Send(Tail(tasks), Message("inactive")) ELSE Quiet(Tail(tasks))
  /\ UNCHANGED <<screen, capture, grab, point, worker, owner>>

\* failed: the error is the last message, and leaves while the Writer drains; the
\* capture is closed.
Failed ==
  /\ Heads("failed")
  /\ worker' = [Shut EXCEPT !.failed = TRUE, !.epoch = worker.epoch]
  /\ output' = IF output.closed \/ Len(output.queue) = Capacity THEN [output EXCEPT !.closed = TRUE]
               ELSE [output EXCEPT !.queue = Append(@, Message("error"))]
  /\ tasks' = <<>> /\ grab' = Idle /\ point' = Still /\ capture' = [Fresh EXCEPT !.epoch = capture.epoch]
  /\ UNCHANGED <<screen, owner>>

----------------------------------------------------------------------------
(* The login service *)

\* The session ends, and with it the worker.
Gone == [owner EXCEPT !.over = TRUE, !.shown = Unpainted, !.probing = FALSE, !.waking = FALSE]
Leaves == owner' = Gone /\ tasks' = <<>>

\* Nothing of it is looked at again.
Closes ==
  /\ capture' = [Fresh EXCEPT !.epoch = capture.epoch] /\ grab' = Idle /\ point' = Still
  /\ worker' = [Shut EXCEPT !.epoch = worker.epoch] /\ output' = [queue |-> <<>>, closed |-> TRUE]

\* transition, or the reconfiguration of a display that has gone dark: authority is new
\* before the worker hears of it.
Configures(reset, waking) ==
  IF owner.generation < MaxGenerations
    THEN /\ owner' = [owner EXCEPT !.generation = @ + 1, !.from = screen.picture, !.shown = Unpainted, !.waking = waking]
         /\ tasks' = Append(tasks, [Say("configure") EXCEPT !.reset = reset])
    ELSE Leaves

OwnerConfigures ==
  /\ Running /\ owner.generation < MaxGenerations
  /\ \E reset \in BOOLEAN : (owner.generation = 0 => reset) /\ Configures(reset, owner.waking)
  /\ UNCHANGED <<screen, capture, grab, point, worker, output>>

Shown(message) ==
  IF message.kind = "frame" THEN [owner.shown EXCEPT !.picture = message.picture]
  ELSE [owner.shown EXCEPT !.pointer = message.pointer, !.shaped = @ \/ message.shaped]

Receive ==
  /\ ~owner.over /\ output.queue # <<>>
  /\ LET message == Head(output.queue)
         current == message.generation = owner.generation
     IN  \/ /\ message.kind = "capabilities"
            /\ owner' = [owner EXCEPT !.probing = FALSE] /\ UNCHANGED tasks
         \/ /\ message.kind = "error" \/ (message.kind = "inactive" /\ current /\ owner.waking)
            /\ Leaves
         \/ message.kind = "inactive" /\ current /\ ~owner.waking /\ Configures(TRUE, TRUE)
         \/ /\ message.kind = "displays" /\ current
            /\ \E reset \in BOOLEAN : Configures(reset, owner.waking)
         \/ /\ message.kind \in {"frame", "cursor"} /\ current
            /\ owner' = [owner EXCEPT !.shown = Shown(message), !.waking = @ /\ message.kind # "frame"]
            /\ UNCHANGED tasks
         \/ message.kind \notin {"capabilities", "error"} /\ ~current /\ UNCHANGED <<owner, tasks>>
  /\ IF owner'.over THEN Closes
     ELSE output' = [output EXCEPT !.queue = Tail(@)] /\ UNCHANGED <<capture, grab, point, worker>>
  /\ UNCHANGED screen

\* The transport of a worker that is gone ends.
EndOfFile ==
  /\ ~owner.over /\ worker.failed /\ output.queue = <<>> /\ Leaves /\ Closes
  /\ UNCHANGED screen

----------------------------------------------------------------------------
Grab == Snapshot \/ Export \/ Dark \/ Check
Point == PointRead \/ PointQueue
Fails == ExportFails \/ PointFails
Dispatch == Configure \/ Probe \/ Probed \/ Sample \/ Pointer \/ Geometry \/ Suspended \/ Failed

Next ==
  \/ Change \/ Move \/ Darken \/ Wakes \/ SettleOver \/ Grab \/ Point \/ Fails \/ Dispatch
  \/ OwnerConfigures \/ Receive \/ EndOfFile

\* The threads and the main loop run, the deadlines pass, a display that is woken
\* wakes, and the login service reads.
Fairness ==
  /\ WF_vars(Grab) /\ WF_vars(Point) /\ WF_vars(Dispatch) /\ WF_vars(Receive)
  /\ WF_vars(EndOfFile) /\ WF_vars(SettleOver) /\ WF_vars(Wakes)

Spec == Init /\ [][Next]_vars /\ Fairness

----------------------------------------------------------------------------
(* Properties *)

TypeOK ==
  /\ screen.light \in {"lit", "asleep", "lapsed"} /\ capture.epoch \in 0..MaxGenerations
  /\ Cardinality(capture.sample) <= 1 /\ Cardinality(capture.pointer) <= 1
  /\ Len(output.queue) <= Capacity /\ worker.epoch = capture.epoch

\* A generation shows nothing that was scanned out before the login service started it,
\* and one size: no capture, comparison or queued sample of an epoch that ended while
\* it was under way reaches the next, whose seat may be another.
NothingOlder ==
  /\ TypeOK
  /\ owner.shown.picture # 0 => owner.shown.picture >= owner.from
  /\ worker.media /\ worker.latest # 0 => capture.size \in {0, worker.size}

\* What the viewer is shown of the pointer: a visible one needs its shape, which a shape
\* that was hidden before it was published leaves out.
PointerShown ==
  /\ owner.shown.pointer = screen.pointer
  /\ screen.pointer # Hidden => owner.shown.shaped \/ screen.hid = owner.generation

\* What is scanned out last reaches the login service, and so does the pointer with its
\* shape, over epochs that overlap and displays that resize, sleep or are replaced,
\* unless the session ends; and a capability probe is answered.
ScreenArrives ==
  /\ []<>(\/ owner.over \/ owner.generation = 0
          \/ owner.shown.picture = screen.picture /\ PointerShown)
  /\ owner.probing ~> (~owner.probing \/ owner.over)
=============================================================================
