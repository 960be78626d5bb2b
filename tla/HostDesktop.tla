----------------------------- MODULE HostDesktop -----------------------------
(***************************************************************************)
(* The helper for the desktop of the current user (host_desktop_helper.py):*)
(* the login it is bound to, the portal session or X server connection,    *)
(* the authority over its generations, held input, the clipboard, and the  *)
(* media generation it starts and stops.                                   *)
(*                                                                         *)
(* The helper has one main loop; a command, a signal, a timer or the       *)
(* completion of a thread is one step of it.  What comes from elsewhere is *)
(* the environment's: the login is locked or changes hands, the portal     *)
(* answers, closes the session or delays the completion of input, frames   *)
(* arrive, the clipboard is read beside the loop.                          *)
(*                                                                         *)
(* Generations only grow and are compared with the current one alone; a    *)
(* read that is under way carries whether its generation, and its clipboard*)
(* epoch, are still current.                                               *)
(***************************************************************************)
EXTENDS Naturals, FiniteSets

CONSTANTS
    Kinds,       \* the session types this instance meets, a subset of {"wayland", "x11"}
    Logins,      \* graphical logins of the user that may be current
    Displays, Keys, None,
    Reads,       \* clipboard reads at a time: clipboard_reads of the portal
    MaxPending,  \* input events the portal has not completed, 64 in _input
    MaxFrames    \* bound: frames of one generation

VARIABLES
    os,       \* the user's current login; None: there is none, or more than one
    monitors, \* the outputs X11 reports
    desk,     \* HostDesktop, its identity, authority, held input and backend
    down,     \* the keys and buttons that are down in the session on the helper's behalf
    reads,    \* clipboard reads: their threads, or GTK's request
    observer, \* the timer of observe is there
    did       \* history: this step was a turn of the timer, or gave the client clipboard text

vars == <<os, monitors, desk, down, reads, observer, did>>

Locks == {"session_unavailable", "user_switched", "locked"}
Login == [login : Logins, locked : BOOLEAN]
Plain == [what |-> "other", unbroken |-> TRUE, control |-> TRUE]
NoRead == [why |-> "none", epoch |-> FALSE, generation |-> FALSE]

\* What the handlers change, in one record: they call each other.
Whole == [desk |-> desk, down |-> down, reads |-> reads]
Becomes(w) == desk' = w.desk /\ down' = w.down /\ reads' = w.reads

Idle == [conn |-> "none", kind |-> "none", portal |-> "none", devices |-> FALSE, pending |-> 0,
         identity |-> None, seen |-> "nothing", displays |-> {}, display |-> None,
         state |-> "disconnected", mode |-> "view", sent |-> 0, painted |-> 0, media |-> "none",
         held |-> {}, sync |-> FALSE, enabled |-> FALSE, alive |-> TRUE]

Init ==
  /\ os \in Login \cup {None} /\ monitors = Displays
  /\ desk = Idle /\ down = {} /\ reads = [r \in Reads |-> NoRead]
  /\ observer = TRUE /\ did = Plain

\* What HostIdentity observed last of the login it is bound to: its lock, that it
\* is inactive, that another login is current, or nothing.
Observed(d) ==
  IF os = None THEN "nothing"
  ELSE IF os.login # d.identity THEN "another" ELSE IF os.locked THEN "locked" ELSE "ready"

\* HostIdentity.state
State(d) == CASE d.seen \in {"nothing", "inactive"} -> "session_unavailable"
              [] d.seen = "another" -> "user_switched"
              [] OTHER -> d.seen

\* refresh
Refreshed(d) == [d EXCEPT !.seen = Observed(d)]

InControl(d) == d.state = "active" /\ d.mode = "control" /\ d.painted # 0

----------------------------------------------------------------------------
(* Parts of the handlers *)

\* DesktopAuthority.bind and revoke begin a generation.
NewGeneration(w, state, display, mode) ==
  [w EXCEPT !.desk.state = state, !.desk.display = display, !.desk.mode = mode,
            !.desk.sent = 0, !.desk.painted = 0,
            !.reads = [r \in Reads |-> [w.reads[r] EXCEPT !.generation = FALSE]]]
Revoke(w, reason) == NewGeneration(w, reason, w.desk.display, w.desk.mode)

\* PortalSession.close: the session goes with the keys it holds; threads that
\* still read find the session closed and drop what they have.
ClosePortal(w) ==
  [w EXCEPT !.desk.portal = "closed", !.desk.pending = 0, !.down = {}, !.reads = [r \in Reads |-> NoRead]]

\* Mutant: the connection is kept for the next connect.
EndKeepingBackend(w) ==
  LET c == IF w.desk.kind = "wayland" THEN ClosePortal(w) ELSE w
  IN  Revoke([c EXCEPT !.desk = [Idle EXCEPT !.kind = w.desk.kind, !.portal = c.desk.portal]], "disconnected")

\* disconnect, after stop_media.  The authority keeps its display and mode;
\* nothing reads them before the next bind.
End(w) ==
  LET c == IF w.desk.kind = "wayland" THEN ClosePortal(w) ELSE w
  IN  Revoke([c EXCEPT !.desk = Idle], "disconnected")

\* _input_failed, of more events than the window holds: the session is closed
\* and portal_changed disconnects, in the middle of the call that sent them.
Overrun(w) == End([ClosePortal(w) EXCEPT !.desk.held = {}, !.desk.media = "none"])

\* HeldInput.release: the helper forgets what it holds, and sends the releases.
Release(w) ==
  LET n == Cardinality(w.desk.held)
      forgotten == [w EXCEPT !.desk.held = {}]
  IN  CASE w.desk.kind = "x11" -> [forgotten EXCEPT !.down = @ \ w.desk.held]
        [] w.desk.portal = "open" /\ w.desk.pending + n <= MaxPending ->
             [forgotten EXCEPT !.down = @ \ w.desk.held, !.desk.pending = @ + n]
        [] w.desk.portal = "open" /\ w.desk.pending + n > MaxPending -> Overrun(w)
        [] OTHER -> forgotten

\* Mutant: only the clipboard is given up.
ReleaseClipboardOnly(w) ==
  IF w.desk.kind = "none" THEN w
  ELSE [w EXCEPT !.desk.enabled = FALSE, !.reads = [x \in Reads |-> [w.reads[x] EXCEPT !.epoch = FALSE]]]

\* release_input
ReleaseInput(w) ==
  LET r == Release(w)
  IN  IF r.desk.kind = "none" THEN r
      ELSE [r EXCEPT !.desk.enabled = FALSE, !.reads = [x \in Reads |-> [r.reads[x] EXCEPT !.epoch = FALSE]]]

\* The reason is told apart where the code does: a lock or login the helper knows
\* of already, "locking", "DISPLAY_CHANGED"; the others are "suspended".
StopMedia(w) == [ReleaseInput(w) EXCEPT !.desk.media = "none"]
Suspend(w, reason) == Revoke(StopMedia(w), reason)
Disconnect(w) == End(StopMedia(w))

\* clipboard_enabled
Enable(w) == IF w.desk.kind = "none" THEN w ELSE [w EXCEPT !.desk.enabled = InControl(w.desk)]

\* require_active: the login was ready when it was last observed, the media's
\* target is the one the authority means, X11 still has the outputs it had.
Outdated(d) == d.conn = "connected" /\ d.kind = "x11" /\ d.displays # monitors
Admits(d) == State(d) = "ready" /\ d.media # "invalid" /\ ~Outdated(d)

\* require_active, that raises
Refused(w) ==
  IF State(w.desk) # "ready" THEN Suspend(w, State(w.desk))
  ELSE IF w.desk.media = "invalid" THEN Disconnect(w)
  ELSE Suspend([w EXCEPT !.desk.displays = monitors], "DISPLAY_CHANGED")

\* transition.  When release_input overran the window there is no identity left,
\* and when the portal session was closed there is no descriptor left: either
\* raises what no handler expects, after bind and with the media not started.
Transition(w, display, mode, starts) ==
  LET d == w.desk
      b == Enable(NewGeneration(StopMedia(w), "active", display, mode))
  IN  IF d.conn # "connected" \/ display \notin d.displays THEN w
      ELSE IF ~Admits(d) THEN Refused(w)
      ELSE IF mode = "control" /\ d.kind = "wayland" /\ ~d.devices THEN w
      ELSE IF b.desk.identity = None \/ (d.kind = "wayland" /\ d.portal # "open")
        THEN [b EXCEPT !.desk.media = "unstarted"]
      ELSE IF starts THEN [b EXCEPT !.desk.media = "running"]
      ELSE Suspend(b, "suspended")

\* finish_connect: whatever raises there ends the connection again.
Finish(w, mode, starts) ==
  LET c == [w EXCEPT !.desk.conn = "connected"]
      preferred == CHOOSE x \in w.desk.displays : TRUE
  IN  IF ~Admits(w.desk) THEN Disconnect(Refused(w))
      ELSE IF w.desk.displays = {} \/ ~starts THEN Disconnect(c)
      ELSE IF mode = "control" /\ w.desk.kind = "wayland" /\ ~w.desk.devices THEN Disconnect(c)
      ELSE Transition(c, preferred, mode, TRUE)

\* identity_changed
IdentityChanged(w) ==
  LET s == State(w.desk)
  IN  IF s = "ready" \/ w.desk.conn = "none" THEN w
      ELSE IF w.desk.conn = "connecting" THEN Disconnect(w)
      ELSE IF w.desk.state = s THEN w ELSE Suspend(w, s)

\* pointer, button, key and scroll: events submitted to the session; beyond the
\* window it is closed (_input_failed).
Submit(w, n) ==
  IF w.desk.kind = "x11" THEN w
  ELSE IF w.desk.pending + n > MaxPending THEN Overrun(w) ELSE [w EXCEPT !.desk.pending = @ + n]

----------------------------------------------------------------------------
(* The login, the outputs, the portal *)

Quiet == did' = Plain

OsChanges ==
  /\ os' \in (Login \cup {None}) \ {os}
  /\ UNCHANGED <<monitors, desk, down, reads, observer>> /\ Quiet

MonitorsChange ==
  /\ "x11" \in Kinds /\ monitors' \in SUBSET Displays \ {monitors}
  /\ UNCHANGED <<os, desk, down, reads, observer>> /\ Quiet

\* _properties_changed: the signal carries the properties of the login that is
\* bound, whatever record they are put into; without a record it refreshes.
Signal ==
  /\ desk.alive /\ desk.identity # None
  /\ LET seen == CASE desk.seen = "another" -> "another"
                   [] desk.seen = "nothing" \/ (os # None /\ os.login = desk.identity) -> Observed(desk)
                   [] OTHER -> "inactive"
     IN  Becomes(IdentityChanged([Whole EXCEPT !.desk.seen = seen]))
  /\ UNCHANGED <<os, monitors, observer>> /\ Quiet

\* observe, twice a second, late or not two seconds after a lock was asked for.
\* An exception ends the timer.
Observe(starts, late) ==
  /\ observer /\ desk.alive /\ desk.conn # "none"
  /\ LET w == IdentityChanged([Whole EXCEPT !.desk = Refreshed(desk)])
         d == w.desk
         resumed == Transition(w, d.display, d.mode, starts)
         next ==
           IF d.conn # "connected" \/ State(d) # "ready" THEN w
           ELSE IF d.state = "locking" THEN IF late THEN Suspend(w, "suspended") ELSE w
           ELSE IF d.state = "locked"
             THEN IF resumed.desk.state = "active" THEN resumed ELSE Suspend(resumed, "suspended")
           ELSE IF d.state \in {"active", "DISPLAY_CHANGED"} /\ Outdated(d) THEN Refused(w)
           ELSE w
     IN  /\ Becomes(next)
         /\ observer' = ~(d.state = "locked" /\ next.desk.media = "unstarted")
  /\ UNCHANGED <<os, monitors>> /\ did' = [Plain EXCEPT !.what = "observed"]

\* Each action below runs one handler.
Handled(w) == desk.alive /\ Becomes(w) /\ UNCHANGED <<os, monitors, observer>> /\ Quiet

\* portal_displays: what the streams show, which one malformed stream refuses.
Streams == {Displays, {}}

\* The portal answers the start, with no streams where it failed: PortalGrant has
\* the requests.
PortalAnswers(streams, devices, mode, starts) ==
  /\ desk.portal = "starting"
  /\ LET opened == [Whole EXCEPT !.desk.portal = "open", !.desk.devices = devices, !.desk.displays = streams]
     IN  IF streams # {} /\ (mode = "control" => devices)
           THEN Handled(Finish(opened, mode, starts)) ELSE Handled(Disconnect(Whole))

\* portal_changed, of a session that has closed
PermissionChanged(w) == IF w.desk.conn = "connecting" THEN Disconnect(w) ELSE Suspend(w, "suspended")

\* PortalSession._closed: the user, or the portal, ended the session.
SessionClosed ==
  /\ desk.portal \in {"starting", "open"}
  /\ Handled(PermissionChanged(ClosePortal(Whole)))

\* completed: the portal has taken the oldest event, or has not.
InputCompleted(ok) ==
  /\ desk.portal = "open" /\ desk.pending # 0
  /\ LET w == [Whole EXCEPT !.desk.pending = @ - 1]
     IN  IF ok THEN Handled(w) ELSE Handled(Disconnect(ClosePortal(w)))

----------------------------------------------------------------------------
(* The media generation *)

\* pixels: a frame of the current generation goes to the client.
Frame ==
  /\ desk.media = "running" /\ desk.state = "active" /\ desk.sent < MaxFrames
  /\ Handled([Whole EXCEPT !.desk.sent = @ + 1])

\* The capture thread finds another geometry or loses the stream; the main loop
\* hears of it later.
TargetInvalid == desk.media = "running" /\ Handled([Whole EXCEPT !.desk.media = "invalid"])

\* media_failed, of the current generation
MediaFailed ==
  \/ desk.media = "invalid" /\ Handled(Disconnect(Whole))
  \/ desk.media = "running" /\ Handled(Suspend(Whole, "suspended"))

----------------------------------------------------------------------------
(* Commands; one whose generation is not the current one, or whose arguments *)
(* are invalid, changes nothing. *)

\* probe, and the start of a connect, bind the login that is current.
Identified(d) == Refreshed(IF d.identity = None THEN [d EXCEPT !.identity = os.login] ELSE d)

Probe ==
  /\ desk.identity = None => os # None
  /\ Handled([Whole EXCEPT !.desk = Identified(desk)])

\* x11_credentials: the display and cookie are those all processes of the login
\* agree on; nothing is shown where they do not, or the server cannot be opened.
X11Outputs == {monitors, {}}

Connect(kind, mode, starts, outputs) ==
  /\ desk.conn = "none"
  /\ LET unbound == [Whole EXCEPT !.desk.identity = None, !.desk.seen = "nothing"]
         bound == [unbound EXCEPT !.desk = Identified(unbound.desk)]
         w == [bound EXCEPT !.desk.conn = "connecting", !.desk.kind = kind]
     IN  IF os = None THEN Handled(unbound)
         ELSE IF ~Admits(bound.desk) THEN Handled(Refused(bound))
         ELSE IF kind = "wayland" THEN Handled([w EXCEPT !.desk.portal = "starting"])
         ELSE Handled(Finish([w EXCEPT !.desk.displays = outputs], mode, starts))

\* The current generation, and for input the authority to give it
Admitted == InControl(desk)

\* set_mode, configure and select_display
Reconfigure(display, mode, starts) == Handled(Transition(Whole, display, mode, starts))

\* recover_decoder: the capture goes on, in another generation.
Keyframe ==
  IF ~Admits(desk) THEN Handled(Refused(Whole))
  ELSE /\ desk.state = "active" /\ desk.media # "none"
       /\ LET r == ReleaseInput(Whole) IN Handled(NewGeneration(r, "active", r.desk.display, r.desk.mode))

FrameAck(frame) ==
  /\ desk.state = "active" /\ frame \in 1..desk.sent /\ frame >= desk.painted
  /\ Handled(Enable([Whole EXCEPT !.desk.painted = frame]))

\* release_input, the command
ReleaseHeld == desk.conn = "connected" /\ Handled(Release(Whole))

SetSync(enabled) ==
  IF enabled /\ Admitted /\ ~Admits(desk) THEN Handled(Refused(Whole))
  ELSE /\ enabled => Admitted
       /\ Handled(Enable([Whole EXCEPT !.desk.sync = enabled]))

\* An input command that require_active refuses
InputRefused == Admitted /\ ~Admits(desk) /\ Handled(Refused(Whole))

\* HeldInput.key and button: a press is owned before it is sent.  A button
\* moves the pointer first.
Press(key, events) ==
  /\ Admitted /\ Admits(desk)
  /\ LET w == Submit([Whole EXCEPT !.desk.held = @ \cup {key}], events)
     IN  Handled(IF w.desk.kind = "none" THEN w ELSE [w EXCEPT !.down = @ \cup {key}])

Lift(key, events) ==
  /\ Admitted /\ Admits(desk) /\ key \in desk.held
  /\ LET w == Submit(Whole, events)
     IN  Handled(IF w.desk.kind = "none" THEN w
                 ELSE [w EXCEPT !.down = @ \ {key}, !.desk.held = @ \ {key}])

\* Pointer motion, scrolling and, of four events with nothing held, paste
Strokes(events) ==
  /\ Admitted /\ Admits(desk) /\ (events = 4 => desk.held = {})
  /\ Handled(Submit(Whole, events))

\* set_clipboard, or the lock, fails in the session bus.
OsFailed == Admitted /\ Admits(desk) /\ Handled(Suspend(Whole, "suspended"))

\* lock: the screen is asked to lock; that it did is only believed of the login.
Lock ==
  /\ Admitted /\ Admits(desk)
  /\ Handled(Suspend(Whole, "locking"))

\* forget_authorization and probe need nothing more of this state.
DisconnectCommand == Handled(Disconnect(Whole))

\* SIGTERM, the end of the input or a writer that fails
Quit ==
  /\ desk.alive
  /\ LET w == Disconnect(Whole) IN Becomes([w EXCEPT !.desk.alive = FALSE])
  /\ observer' = FALSE /\ UNCHANGED <<os, monitors>> /\ Quiet

----------------------------------------------------------------------------
(* The clipboard *)

\* read_clipboard, of get_clipboard or, with synchronization, of a new selection
StartRead(r, why) ==
  /\ reads[r].why = "none"
  /\ IF why = "get" THEN Admitted /\ Admits(desk) ELSE desk.enabled /\ desk.sync
  /\ desk.kind = "wayland" => desk.enabled /\ desk.portal = "open"
  /\ Handled([Whole EXCEPT !.reads[r] = [why |-> why, epoch |-> TRUE, generation |-> TRUE]])

\* finish of the thread and received of X11: the epoch in which the read began
Delivers(read) == (desk.kind = "wayland" \/ read.why = "sync") => desk.enabled /\ read.epoch

\* The text reaches received or clipboard_changed, and is sent if they accept it.
FinishRead(r) ==
  /\ desk.alive /\ reads[r].why # "none"
  /\ LET read == reads[r]
         sent == /\ Delivers(read)
                 /\ IF read.why = "get" THEN read.generation ELSE desk.sync /\ InControl(desk)
     IN  did' = IF sent THEN [what |-> "text", unbroken |-> read.generation, control |-> InControl(desk)] ELSE Plain
  /\ reads' = [reads EXCEPT ![r] = NoRead]
  /\ UNCHANGED <<os, monitors, desk, down, observer>>

----------------------------------------------------------------------------
Modes == {"view", "control"}
Command ==
  \/ Probe \/ Keyframe \/ ReleaseHeld \/ InputRefused \/ OsFailed \/ Lock \/ DisconnectCommand
  \/ \E mode \in Modes, starts \in BOOLEAN :
       \/ \E kind \in Kinds, outputs \in X11Outputs : Connect(kind, mode, starts, outputs)
       \/ \E display \in Displays : Reconfigure(display, mode, starts)
  \/ \E frame \in 1..MaxFrames : FrameAck(frame)
  \/ \E enabled \in BOOLEAN : SetSync(enabled)
  \/ \E key \in Keys, events \in 1..2 : Press(key, events) \/ Lift(key, events)
  \/ \E events \in {1, 2, 4} : Strokes(events)

Next ==
  \/ OsChanges \/ MonitorsChange \/ Signal \/ SessionClosed \/ Frame \/ TargetInvalid \/ MediaFailed
  \/ \E starts, late \in BOOLEAN : Observe(starts, late)
  \/ \E streams \in Streams, devices, starts \in BOOLEAN, mode \in Modes : PortalAnswers(streams, devices, mode, starts)
  \/ \E ok \in BOOLEAN : InputCompleted(ok)
  \/ Command \/ Quit
  \/ \E r \in Reads : FinishRead(r) \/ \E why \in {"get", "sync"} : StartRead(r, why)

Spec == Init /\ [][Next]_vars

----------------------------------------------------------------------------
(* Properties *)

TypeOK ==
  /\ os \in Login \cup {None} /\ monitors \subseteq Displays
  /\ desk.conn \in {"none", "connecting", "connected"}
  /\ desk.portal \in {"none", "starting", "open", "closed"}
  /\ desk.media \in {"none", "running", "invalid", "unstarted"}
  /\ desk.pending \in 0..MaxPending
  /\ 0 <= desk.painted /\ desk.painted <= desk.sent /\ desk.sent <= MaxFrames
  /\ desk.held \subseteq Keys /\ down \subseteq Keys
  /\ desk.state \in Locks \cup {"disconnected", "active", "locking", "suspended", "DISPLAY_CHANGED"}

\* Whatever is down in the session on the helper's behalf, and whatever the helper
\* believes to hold, belongs to a connected client that controls a generation it
\* has painted, through a session that is open: no lock, mode change, recovered
\* decoder, lost permission, overrun window or disconnect leaves a key behind.
\* A turn of the timer notices a login that is locked, switched or gone: it leaves
\* no authority active and no consent pending for it.  Without a connection there
\* is no session and no capture.  And clipboard text reaches the client only in
\* control of what it has painted, and only of a read during which control never
\* changed.
HeldInSight ==
  /\ TypeOK
  /\ desk.held # {} \/ down # {} =>
       /\ desk.conn = "connected" /\ InControl(desk)
       /\ desk.kind = "wayland" => desk.portal = "open"
  /\ did.what = "observed" =>
       \/ Observed(desk) = "ready" \/ desk.conn = "none"
       \/ desk.conn = "connected" /\ desk.state # "active"
  /\ desk.conn = "none" =>
       desk.kind = "none" /\ desk.portal = "none" /\ desk.media \notin {"running", "invalid"} /\ ~desk.enabled
  /\ did.what = "text" => did.unbroken /\ did.control

=============================================================================
