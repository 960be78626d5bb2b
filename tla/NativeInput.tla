------------------------------ MODULE NativeInput ------------------------------
(***************************************************************************)
(* Ordered input of a native application: the helper's one event loop      *)
(* (desktop_attachment.py, input_order.py, desktop_context.py,             *)
(* input_marker.py, desktop_clipboard.py, desktop_native.py, with          *)
(* takeover in desktop_control.py and desktop_helper.py), the compositor   *)
(* that delivers (probe_shell.c) and the application's input context       *)
(* (gtk_native.c on X11, the text-input protocol on Wayland).  The three   *)
(* are joined by FIFO channels, and by the private bus on the X11 route.   *)
(*                                                                         *)
(* A viewer attaches once and is named by its connection number.  A        *)
(* request is named by its stamp.  A handler of the event loop that ends   *)
(* by draining the queue is followed by its drain steps alone: draining    *)
(* names the viewer whose queue the loop is still in.                      *)
(***************************************************************************)
EXTENDS Integers, Sequences, FiniteSets, SequencesExt

CONSTANTS
    MaxConnections, MaxRequests, MaxScenes,  \* bounds of a run
    MaxLines,       \* in the channel to the compositor before a viewer adds more
    MaxQueue,       \* 256 in the code
    Kinds,          \* of the requests that viewers make
    Events,         \* what else may happen in a run
    Route,          \* how confirmed text is delivered
    SlotCount       \* 1 on X11 (X11_CODE), 32 elsewhere

ASSUME BoundsAssumption ==
  {MaxConnections, MaxRequests, MaxScenes, MaxLines, MaxQueue, SlotCount} \subseteq Nat \ {0}
ASSUME KindsAssumption == Kinds \subseteq {"down", "up", "text", "clip", "close"}
AllEvents == {"release", "select", "capture", "terminate", "expire",
              "scene", "lost", "timeout", "gone", "refuse", "giveup"}
ASSUME EventsAssumption == Events \subseteq AllEvents
ASSUME RouteAssumption == Route \in {"marker", "wayland"}

Connections == 1..MaxConnections
Stamps == 1..MaxRequests
Codes == 0..(SlotCount - 1)

VARIABLES
    connections,   \* attached so far
    attached, controller,
    view,          \* of each connection: painted target, failed, queue, pending
    native,        \* epoch, current target and closed
    ctx, slots,    \* NativeContexts' transaction and its markers
    clip,          \* NativeClipboard's publication
    registered,    \* the application's context is on the bus
    draining,
    comp,          \* the compositor
    app,           \* the application's input context; mark is history
    toComp, toHelper, toApp, toBus,
    req,           \* history: what was asked and how it ended
    doc            \* history: what the application acted on

helperVars == <<connections, attached, controller, view, native, ctx, slots, clip, registered, draining>>
vars == <<helperVars, comp, app, toComp, toHelper, toApp, toBus, req, doc>>

NoView == [ready |-> 0, failed |-> FALSE, queue |-> <<>>, pending |-> 0]
\* stage: what the transaction waits for; request: the text operation in flight
NoText == [op |-> 0, stage |-> "none", code |-> 0, taken |-> FALSE, done |-> FALSE,
           request |-> 0, seq |-> 0, requests |-> 0, next |-> 0]
NoSlot == [used |-> FALSE, text |-> 0, pressed |-> FALSE]
NoRequest == [conn |-> 0, kind |-> "none", gen |-> 0, status |-> "none", replies |-> 0]

Init ==
  /\ connections = 0 /\ attached = {} /\ controller = 0
  /\ view = [c \in Connections |-> NoView]
  /\ native = [epoch |-> 0, target |-> 1, closed |-> FALSE]
  /\ ctx = NoText
  /\ slots = [k \in Codes |-> NoSlot]
  /\ clip = [op |-> 0, seq |-> 0]
  /\ registered = (Route = "marker")
  /\ draining = 0
  /\ comp = [connection |-> 0, scene |-> 1, live |-> TRUE, held |-> 0, mark |-> -1,
             barrier |-> 0, pinged |-> FALSE, lost |-> FALSE]
  /\ app = [state |-> "idle", mark |-> 0, seq |-> 0, text |-> 0, dones |-> {}]
  /\ toComp = <<>> /\ toHelper = <<>> /\ toApp = <<>> /\ toBus = <<>>
  /\ req = [s \in Stamps |-> NoRequest]
  /\ doc = <<>>

----------------------------------------------------------------------------
(* Channels.                                                               *)

\* A line to the compositor; n is a sequence or a marker code, s a request.
Line(to, e, gen, n, s) == [to |-> to, e |-> e, gen |-> gen, n |-> n, s |-> s]
Command(to, n) == Line(to, native.epoch, 0, n, 0)
\* NativeDesktop.submit
Input(to, gen, n, s) == Line(to, native.epoch, gen, n, s)
Sent(lines) == IF native.closed THEN toComp ELSE toComp \o lines
Record(rec, n, ok) == [rec |-> rec, n |-> n, ok |-> ok]
Event(ev, n, s) == [ev |-> ev, n |-> n, s |-> s]
\* wait: the application still waits for the answer
Call(call, n) == [call |-> call, n |-> n, wait |-> call = "take"]

----------------------------------------------------------------------------
(* Requests.                                                               *)

Made == {s \in Stamps : req[s].status # "none"}
NewStamp == Cardinality(Made) + 1
New(c, k, status, replies) ==
  [conn |-> c, kind |-> k, gen |-> IF k = "close" THEN 0 ELSE view[c].ready,
   status |-> status, replies |-> replies]
Open(c) == ToSet(view[c].queue) \cup ({view[c].pending} \ {0})
OpenOf(C) == UNION {Open(c) : c \in C}
GivenUp(status) == IF status = "queued" THEN "refused" ELSE "failed"
\* The requests of C are given up, with a reply unless their viewer has gone.
Answered(C, replied) ==
  [s \in Stamps |->
    IF s \in OpenOf(C)
    THEN [req[s] EXCEPT !.status = GivenUp(@), !.replies = @ + (IF replied THEN 1 ELSE 0)]
    ELSE req[s]]

----------------------------------------------------------------------------
(* Retiring input.  The views of C lose their queue and their pending      *)
(* operation; an adapter whose operation is among them is cancelled.       *)

Emptied(v) == [v EXCEPT !.queue = <<>>, !.pending = 0]
Retired(v) == [Emptied(v) EXCEPT !.ready = 0]
Failed(v) == [Retired(v) EXCEPT !.failed = TRUE]

\* MarkerTransactions.revoke: tombstones keep their slot, never their text.
Revoked(C, m) ==
  IF ctx.op \in OpenOf(C) THEN [k \in Codes |-> [m[k] EXCEPT !.text = 0]] ELSE m
\* NativeDesktop.cancel_text_operation
Cancelling(C) ==
  IF ctx.op \in OpenOf(C) /\ ctx.request # 0 /\ ctx.stage # "text"
  THEN <<Command("cancel", ctx.request)>> ELSE <<>>
Release == <<Command("release", 0)>>

\* NativeContexts.finish and cancel; NativeClipboard.cancel
TextEnded == [NoText EXCEPT !.seq = ctx.seq, !.requests = ctx.requests, !.next = ctx.next]
TextCancelled(C) == IF ctx.op \in OpenOf(C) THEN TextEnded ELSE ctx
ClipCancelled(C) == IF clip.op \in OpenOf(C) THEN [clip EXCEPT !.op = 0] ELSE clip

Revoke(C, V(_), lines, replied) ==
  /\ view' = [c \in Connections |-> IF c \in C THEN V(view[c]) ELSE view[c]]
  /\ ctx' = TextCancelled(C)
  /\ clip' = ClipCancelled(C)
  /\ req' = Answered(C, replied)
  /\ toComp' = Sent(Cancelling(C) \o lines)
  /\ draining' = 0

\* An operation of c ends in an error: its input fails until it attaches again.
Error(c) == Revoke({c}, Failed, Release, TRUE)
Abort(c) == Error(c) /\ slots' = Revoked({c}, slots)

Idle == draining = 0
\* A viewer does not run ahead of the compositor for ever.
Room == Idle /\ Len(toComp) < MaxLines
\* The queue of c is drained next if it has something and nothing is pending.
Drains(c, v) == IF v.queue # <<>> /\ v.pending = 0 THEN c ELSE 0

\* OrderedInput.completed without an error
Succeed(c) ==
  LET v == [view[c] EXCEPT !.pending = 0] IN
  /\ view' = [view EXCEPT ![c] = v]
  /\ req' = [req EXCEPT ![view[c].pending].status = "confirmed",
                        ![view[c].pending].replies = @ + 1]
  /\ draining' = Drains(c, v)

outside == <<comp, app, toHelper, toApp, toBus, doc>>
----------------------------------------------------------------------------
(* Viewers come, take over and go.                                         *)

\* DesktopControl.accept, within the peers it takes
Admits == Room /\ connections < MaxConnections

\* Mutant: takeover moves control and leaves the old controller's input alone.
ConnectBeside ==
  /\ Admits
  /\ connections' = connections + 1
  /\ attached' = attached \cup {connections + 1}
  /\ controller' = connections + 1
  /\ native' = IF attached = {} THEN [native EXCEPT !.epoch = connections + 1] ELSE native
  /\ toComp' = IF attached = {} THEN Sent(<<Line("connection", connections + 1, 0, 0, 0)>>) ELSE toComp
  /\ UNCHANGED <<view, ctx, slots, clip, req, draining, registered, outside>>

\* DesktopApplication.takeover: the viewer that controlled loses its input.
Takeover ==
  /\ Revoke({controller} \cap attached, Retired, Release, TRUE)
  /\ slots' = Revoked({controller} \cap attached, slots)

\* DesktopControl.authenticate: attach, then takeover.  Connection numbers only
\* grow, so bind takes the number as the native epoch when it is the first.
Connect ==
  /\ Admits
  /\ connections' = connections + 1
  /\ attached' = attached \cup {connections + 1}
  /\ controller' = connections + 1
  /\ IF attached = {}
     THEN /\ native' = [native EXCEPT !.epoch = connections + 1]
          /\ toComp' = Sent(<<Line("connection", connections + 1, 0, 0, 0)>>)
          /\ UNCHANGED <<view, ctx, slots, clip, req, draining>>
     ELSE Takeover /\ UNCHANGED native
  /\ UNCHANGED <<registered, outside>>

\* The newest of the viewers that remain controls.
Newest(S) == IF S = {} THEN 0 ELSE CHOOSE c \in S : \A d \in S : d <= c

\* Peer.close and DesktopAttachment.detach; unbind after the last.
Without(c) == attached \ {c}
Leave(c) ==
  LET rest == Without(c)
      last == rest = {} /\ native.epoch # 0 /\ ~native.closed
      away(v) == NoView IN
  /\ attached' = rest
  /\ controller' = IF controller = c THEN Newest(rest) ELSE controller
  /\ Revoke({c}, away, IF last THEN <<Command("detach", 0)>> ELSE <<>>, FALSE)
  /\ slots' = Revoked({c}, slots)
  /\ native' = IF last THEN [native EXCEPT !.epoch = 0] ELSE native

Disconnect(c) ==
  /\ Room /\ c \in attached
  /\ Leave(c)
  /\ UNCHANGED <<connections, registered, outside>>

\* frame_ack of the current target
Paint(c) ==
  /\ Idle /\ c \in attached /\ native.target # 0 /\ view[c].ready # native.target
  /\ view' = [view EXCEPT ![c].ready = native.target]
  /\ UNCHANGED <<connections, attached, controller, native, ctx, slots, clip, registered,
                 draining, toComp, req, outside>>

----------------------------------------------------------------------------
(* Requests of a viewer.                                                   *)

Authorized(c) == controller = c
Controllable(c) == Authorized(c) /\ ~view[c].failed
MatchesTarget(c) == ~view[c].failed /\ view[c].ready # 0 /\ native.target = view[c].ready
Admissible(c, k) == IF k = "close" THEN Authorized(c) /\ ~view[c].failed
                    ELSE Controllable(c) /\ MatchesTarget(c)

\* Peer.read
Asks(c) == Room /\ c \in attached /\ Cardinality(Made) < MaxRequests
unasked == <<connections, registered, outside>>

\* enqueue_input answers a request that is not admissible at once and changes
\* nothing: it is not counted among the requests.
\* OrderedInput.enqueue
Enqueue(c, k) ==
  /\ Asks(c) /\ Admissible(c, k) /\ Len(view[c].queue) < MaxQueue
  /\ LET v == [view[c] EXCEPT !.queue = Append(@, NewStamp)] IN
     /\ view' = [view EXCEPT ![c] = v]
     /\ draining' = Drains(c, v)
  /\ req' = [req EXCEPT ![NewStamp] = New(c, k, "queued", 0)]
  /\ UNCHANGED <<attached, controller, native, ctx, slots, clip, toComp, unasked>>

\* A full queue closes the viewer's connection; the request is lost with it.
Overflow(c, k) ==
  /\ Asks(c) /\ Admissible(c, k) /\ Len(view[c].queue) >= MaxQueue
  /\ Leave(c)
  /\ UNCHANGED unasked

\* NativeDesktop.close_window and select of a window that the helper knows
Closable == ~native.closed /\ native.epoch # 0
Selecting(known) == IF known THEN <<Command("select", 0)>> ELSE <<>>

\* close_window of a viewer whose input has failed is not queued.  The window
\* may be known to the helper or not.
CloseAtOnce(c) ==
  /\ Asks(c) /\ Authorized(c) /\ view[c].failed
  /\ \E known \in BOOLEAN :
       LET sent == known /\ Closable IN
       /\ req' = [req EXCEPT ![NewStamp] = New(c, "close", IF sent THEN "confirmed" ELSE "refused", 1)]
       /\ toComp' = IF sent THEN Sent(<<Command("close", 0)>>) ELSE toComp
  /\ UNCHANGED <<attached, controller, view, native, ctx, slots, clip, draining, unasked>>

\* release_input keeps the painted target, select_window retires it.
ReleaseInput(c) ==
  /\ "release" \in Events
  /\ Room /\ c \in attached /\ Controllable(c) /\ MatchesTarget(c)
  /\ Revoke({c}, Emptied, Release, TRUE)
  /\ slots' = Revoked({c}, slots)
  /\ UNCHANGED <<attached, controller, native, unasked>>

SelectWindow(c) ==
  /\ "select" \in Events
  /\ Room /\ c \in attached /\ Authorized(c)
  /\ \E known \in BOOLEAN :
       Revoke({c}, Retired, Release \o Selecting(known), TRUE)
  /\ slots' = Revoked({c}, slots)
  /\ UNCHANGED <<attached, controller, native, unasked>>

\* A capture of any viewer fails: its input is retired, on the shared epoch.
CaptureFailed(c) ==
  /\ "capture" \in Events
  /\ Room /\ c \in attached /\ native.target # 0
  /\ Revoke({c}, Retired, Release, TRUE)
  /\ slots' = Revoked({c}, slots)
  /\ UNCHANGED <<attached, controller, native, unasked>>

ClipClosed == [clip EXCEPT !.op = 0]
\* NativeDesktop.lost: an open clipboard or text operation fails its viewer,
\* changed() retires all the others.  Nothing more is sent.
Fall(lines, already) ==
  LET broken == {clip.op, IF ctx.request # 0 THEN ctx.op ELSE 0} \ {0}
      hit(c) == c \notin already /\ view[c].pending \in broken
      down == [c \in Connections |->
                IF c \notin attached THEN view[c]
                ELSE IF hit(c) THEN Failed(view[c]) ELSE Retired(view[c])] IN
  /\ native' = [epoch |-> 0, target |-> 0, closed |-> TRUE]
  /\ view' = down
  /\ ctx' = TextCancelled(attached)
  /\ slots' = Revoked(attached, slots)
  /\ clip' = ClipClosed
  /\ req' = Answered(attached, TRUE)
  /\ toComp' = Sent(lines)
  /\ draining' = 0

\* terminate_application: the viewer's input is retired, then lost.
Terminate(c) ==
  /\ "terminate" \in Events
  /\ Room /\ c \in attached /\ Controllable(c) /\ ~native.closed
  /\ Fall(Cancelling({c}) \o Release, {c})
  /\ UNCHANGED <<attached, controller, unasked>>

\* Mutant: the deadline answers the caller and forgets the adapter.
ExpireKept(c) ==
  /\ "expire" \in Events
  /\ Idle /\ view[c].pending # 0
  /\ view' = [view EXCEPT ![c] = Failed(@)]
  /\ req' = Answered({c}, TRUE)
  /\ toComp' = Sent(Release)
  /\ UNCHANGED <<ctx, slots, clip, draining, attached, controller, native, unasked>>

\* Mutant: the deadline is called off when the toolkit takes the text.
ExpireUntaken(c) ==
  /\ "expire" \in Events
  /\ Idle /\ view[c].pending # 0 /\ ctx.stage = "marker" /\ slots[ctx.code].text # 0
  /\ Abort(c)
  /\ UNCHANGED <<attached, controller, native, unasked>>

\* The 30 second delivery deadline of the one pending operation
Expire(c) ==
  /\ "expire" \in Events
  /\ Idle /\ view[c].pending # 0
  /\ Abort(c)
  /\ UNCHANGED <<attached, controller, native, unasked>>

----------------------------------------------------------------------------
(* OrderedInput.drain, one operation a step.                               *)

Turn(c) == draining = c /\ c # 0
Op(c) == view[c].queue[1]
KindOf(c) == req[Op(c)].kind
\* The operation leaves the queue with its reply sent, or becomes pending.
Popped(c) == [view[c] EXCEPT !.queue = Tail(@)]
Replied(c, status) ==
  /\ view' = [view EXCEPT ![c] = Popped(c)]
  /\ req' = [req EXCEPT ![Op(c)].status = status, ![Op(c)].replies = @ + 1]
  /\ draining' = Drains(c, Popped(c))
  /\ UNCHANGED <<ctx, slots, clip>>
Pends(c) ==
  /\ view' = [view EXCEPT ![c] = [Popped(c) EXCEPT !.pending = Op(c)]]
  /\ req' = [req EXCEPT ![Op(c)].status = "issued"]
  /\ draining' = 0
drained == <<attached, controller, native, unasked>>

Admitted(c) == native.target = req[Op(c)].gen /\ view[c].ready = req[Op(c)].gen

DrainClose(c) ==
  /\ Turn(c) /\ KindOf(c) = "close"
  /\ \/ /\ Closable
        /\ Replied(c, "confirmed")
        /\ toComp' = Sent(<<Command("close", 0)>>)
     \/ Abort(c)                     \* the window is not known any more
  /\ UNCHANGED drained

Deliver(c) == Replied(c, "confirmed") /\ toComp' = Sent(<<Input(KindOf(c), native.target, 0, Op(c))>>)

\* A request whose target has gone is refused, whatever its kind; but the scene
\* change that takes the target has emptied the queue before.
DrainKey(c) ==
  /\ Turn(c) /\ KindOf(c) # "close"
  /\ Admitted(c) => KindOf(c) \in {"down", "up"}
  /\ IF Admitted(c)
     THEN Deliver(c)
     ELSE Replied(c, "refused") /\ UNCHANGED toComp
  /\ UNCHANGED drained

\* Mutant: the slot of a cancelled text is free at once.
FreeCodesReused == {k \in Codes : slots[k].text = 0}

\* NativeContexts.context_for, commit; MarkerTransactions.enqueue
FreeCodes == {k \in Codes : ~slots[k].used}
\* Slots are tried from the next one, round.
FirstFree == LET far(k) == (k - ctx.next + SlotCount) % SlotCount IN
             CHOOSE k \in FreeCodes : \A l \in FreeCodes : far(k) <= far(l)

DrainMarker(c) ==
  /\ Turn(c) /\ KindOf(c) = "text" /\ Admitted(c) /\ Route = "marker"
  /\ registered /\ ctx.op = 0 /\ FreeCodes # {}
  /\ LET k == FirstFree IN
     /\ slots' = [slots EXCEPT ![k] = [used |-> TRUE, text |-> Op(c), pressed |-> FALSE]]
     /\ ctx' = [NoText EXCEPT !.op = Op(c), !.stage = "marker", !.code = k,
                  !.seq = ctx.seq + 1, !.requests = ctx.requests, !.next = (k + 1) % SlotCount]
     /\ toComp' = Sent(<<Input("press", native.target, k, Op(c)), Input("lift", native.target, k, 0)>>)
  /\ Pends(c)
  /\ UNCHANGED <<clip, drained>>

\* NativeDesktop.text_operation
TextOperation(stage) == [ctx EXCEPT !.stage = stage, !.request = ctx.requests + 1, !.requests = @ + 1]

DrainWayland(c) ==
  /\ Turn(c) /\ KindOf(c) = "text" /\ Admitted(c) /\ Route = "wayland" /\ ctx.op = 0
  /\ ctx' = [TextOperation("before") EXCEPT !.op = Op(c), !.seq = @ + 1]
  /\ toComp' = Sent(<<Input("barrier", native.target, ctx'.request, 0)>>)
  /\ Pends(c)
  /\ UNCHANGED <<slots, clip, drained>>

\* No context: the focused field is no editor, its owner is not registered,
\* another transaction is pending, or no marker is free.
DrainNoContext(c) ==
  /\ Turn(c) /\ KindOf(c) = "text" /\ Admitted(c)
  /\ Abort(c)
  /\ UNCHANGED drained

DrainClip(c) ==
  /\ Turn(c) /\ KindOf(c) = "clip" /\ Admitted(c)
  /\ IF clip.op # 0 THEN Abort(c)
     ELSE /\ clip' = [op |-> Op(c), seq |-> clip.seq + 1]
          /\ toComp' = Sent(<<Input("clip", native.target, clip'.seq, 0)>>)
          /\ Pends(c)
          /\ UNCHANGED <<ctx, slots>>
  /\ UNCHANGED drained

Drain(c) == DrainClose(c) \/ DrainKey(c) \/ DrainMarker(c) \/ DrainWayland(c)
              \/ DrainNoContext(c) \/ DrainClip(c)

----------------------------------------------------------------------------
(* Records of the compositor (NativeDesktop.observe).                      *)

Holder(op) == CHOOSE c \in Connections : view[c].pending = op
Read(rec) == Idle /\ ~native.closed /\ toHelper # <<>> /\ toHelper[1].rec = rec
heard == <<connections, attached, controller, registered, comp, app, toApp, toBus, doc>>

\* NativeDesktop.changed
Changed ==
  /\ Revoke(attached, Retired, IF attached = {} THEN <<>> ELSE Release, TRUE)
  /\ slots' = Revoked(attached, slots)

ReadScene ==
  /\ Read("scene")
  /\ native' = [native EXCEPT !.target = IF toHelper[1].ok THEN toHelper[1].n ELSE 0]
  /\ Changed
  /\ toHelper' = Tail(toHelper)
  /\ UNCHANGED heard

\* A reply to the text operation in flight; a late one is dropped.
Answers(rec, stages) == Read(rec) /\ ctx.request = toHelper[1].n /\ ctx.stage \in stages

ReadTextReply ==
  /\ Answers("barrier", {"before", "after"}) \/ Answers("text", {"text"})
  /\ LET c == Holder(ctx.op)
         step(stage) == /\ ctx' = TextOperation(stage)
                        /\ toComp' = Sent(<<Input(IF stage = "text" THEN "text" ELSE "barrier",
                                                  native.target, ctx'.request, ctx.op)>>)
                        /\ UNCHANGED <<view, slots, clip, req, draining>> IN
     \/ /\ ~toHelper[1].ok /\ Abort(c)
     \/ /\ toHelper[1].ok /\ ctx.stage = "before" /\ step("text")
     \/ /\ toHelper[1].ok /\ ctx.stage = "text" /\ step("after")
     \/ /\ toHelper[1].ok /\ ctx.stage = "after"
        /\ ctx' = TextEnded
        /\ Succeed(c)
        /\ UNCHANGED <<slots, clip, toComp>>
  /\ toHelper' = Tail(toHelper)
  /\ UNCHANGED <<native, heard>>

\* NativeClipboard.observe
ReadClip ==
  /\ Read("clip") /\ clip.op # 0 /\ toHelper[1].n = clip.seq
  /\ IF toHelper[1].ok
     THEN /\ Succeed(Holder(clip.op))
          /\ clip' = [clip EXCEPT !.op = 0]
          /\ UNCHANGED <<ctx, slots, toComp>>
     ELSE Abort(Holder(clip.op))
  /\ toHelper' = Tail(toHelper)
  /\ UNCHANGED <<native, heard>>

ReadLate ==
  /\ \/ Read("barrier") /\ ~Answers("barrier", {"before", "after"})
     \/ Read("text") /\ ~Answers("text", {"text"})
     \/ Read("clip") /\ ~(clip.op # 0 /\ toHelper[1].n = clip.seq)
  /\ toHelper' = Tail(toHelper)
  /\ UNCHANGED <<view, native, ctx, slots, clip, req, toComp, draining, heard>>

ReadLost ==
  /\ Read("lost")
  /\ Fall(<<>>, {})
  /\ toHelper' = <<>>
  /\ UNCHANGED heard

----------------------------------------------------------------------------
(* Calls of the application on the private bus (NativeContexts).           *)

Called(call) == Idle /\ toBus # <<>> /\ toBus[1].call = call
Handled == toBus' = Tail(toBus)
quiet == <<connections, attached, controller, native, comp, toHelper, toApp, doc>>

\* NativeContexts.valid, with the X11 focus, which only X knows
Valid == ~native.closed /\ registered /\ native.target = req[ctx.op].gen
Waiting(k) == ctx.op # 0 /\ ctx.stage = "marker" /\ ctx.code = k

\* MarkerTransactions.key of a press: it uses up the text
Pressed(k) == [slots EXCEPT ![k].pressed = TRUE, ![k].text = 0]
Fresh(k) == slots[k].used /\ ~slots[k].pressed

\* The application may have stopped waiting for the answer.
Hands(text) == IF ~toBus[1].wait THEN app
               ELSE IF text = 0 THEN [app EXCEPT !.state = "idle", !.mark = 0]
               ELSE [app EXCEPT !.state = "got", !.seq = ctx.seq, !.text = text]

Take ==
  /\ Called("take") /\ Handled
  /\ LET k == toBus[1].n IN
     \/ /\ Waiting(k) /\ Valid /\ Fresh(k)
        /\ slots' = Pressed(k)
        /\ ctx' = [ctx EXCEPT !.taken = TRUE]
        /\ app' = Hands(slots[k].text)
        /\ UNCHANGED <<view, clip, req, toComp, draining, registered>>
     \/ /\ Waiting(k)                \* not valid, or the focus is elsewhere
        /\ Error(Holder(ctx.op))
        /\ slots' = Revoked({Holder(ctx.op)}, IF Fresh(k) THEN Pressed(k) ELSE slots)
        /\ app' = Hands(0)
        /\ UNCHANGED registered
     \/ /\ ~Waiting(k) \/ ~Fresh(k)
        /\ slots' = IF Fresh(k) THEN Pressed(k) ELSE slots
        /\ app' = Hands(0)
        /\ UNCHANGED <<view, ctx, clip, req, toComp, draining, registered>>
  /\ UNCHANGED quiet

\* NativeContexts.complete, given the slots and whether Done has come
Complete(m, done) ==
  IF ctx.op # 0 /\ done /\ ~m[ctx.code].used
  THEN \/ /\ Valid
          /\ Succeed(Holder(ctx.op))
          /\ ctx' = TextEnded
          /\ slots' = m
          /\ UNCHANGED <<clip, toComp>>
       \/ /\ Error(Holder(ctx.op))
          /\ slots' = Revoked({Holder(ctx.op)}, m)
  ELSE /\ slots' = m
       /\ ctx' = IF ctx.op # 0 THEN [ctx EXCEPT !.done = done] ELSE ctx
       /\ UNCHANGED <<view, clip, req, toComp, draining>>

\* The release of a press that was seen frees its slot.
Lifted(k) == IF slots[k].used /\ slots[k].pressed THEN [slots EXCEPT ![k] = NoSlot] ELSE slots
\* Mutant: the release of the marker alone completes the text.
ReleasedAlone ==
  /\ Called("released") /\ Handled
  /\ Complete(Lifted(toBus[1].n), TRUE)
  /\ UNCHANGED <<registered, app, quiet>>

Released ==
  /\ Called("released") /\ Handled
  /\ Complete(Lifted(toBus[1].n), ctx.done)
  /\ UNCHANGED <<registered, app, quiet>>

Ours == ctx.op # 0 /\ ctx.seq = toBus[1].n /\ ctx.taken
Done ==
  /\ Called("done") /\ Handled
  /\ IF ~Ours \/ ctx.done
     THEN UNCHANGED <<view, slots, ctx, clip, req, toComp, draining>>
     ELSE Complete(slots, TRUE) \/ Abort(Holder(ctx.op))
  /\ UNCHANGED <<registered, app, quiet>>

FailedCall ==
  /\ Called("failed") /\ Handled
  /\ IF Ours THEN Abort(Holder(ctx.op))
     ELSE UNCHANGED <<view, slots, ctx, clip, req, toComp, draining>>
  /\ UNCHANGED <<registered, app, quiet>>

\* NativeContexts.unregister, when the bus name disappears
NameLost == Called("gone") /\ Handled
\* MarkerTransactions.remove_owner
Removed == [k \in Codes |-> NoSlot]
Unregister ==
  /\ NameLost
  /\ registered' = FALSE
  /\ IF ctx.op # 0 THEN Error(Holder(ctx.op))
     ELSE UNCHANGED <<view, ctx, clip, req, toComp, draining>>
  /\ slots' = Removed
  /\ UNCHANGED <<app, quiet>>

----------------------------------------------------------------------------
(* The compositor.                                                         *)

inputs == {"down", "up", "press", "lift", "clip", "barrier", "text"}
Rejected(line) ==
  \/ line.e = 0 \/ line.e # comp.connection
  \/ line.to \in inputs /\ (line.gen # comp.scene \/ ~comp.live)

\* release_input: the barrier is cancelled and every held key is lifted.
Lifts == (IF comp.held # 0 THEN <<Event("up", 0, 0)>> ELSE <<>>)
           \o (IF comp.mark # -1 THEN <<Event("lift", comp.mark, 0)>> ELSE <<>>)
BarrierCancelled == IF comp.barrier # 0 THEN <<Record("barrier", comp.barrier, FALSE)>> ELSE <<>>
Empty(k) == [k EXCEPT !.held = 0, !.mark = -1, !.barrier = 0]
Heard(records) == IF comp.lost THEN toHelper ELSE toHelper \o records

Emits(k, events, records) == comp' = k /\ toApp' = toApp \o events /\ toHelper' = Heard(records)

comped == <<helperVars, app, toBus, req, doc>>
Gets(to) == ~comp.lost /\ toComp # <<>> /\ toComp[1].to = to /\ toComp' = Tail(toComp)
Accepts(to) == Gets(to) /\ ~Rejected(toComp[1])

CompConnection ==
  /\ Gets("connection")
  /\ Emits([Empty(comp) EXCEPT !.connection = toComp[1].e], Lifts, BarrierCancelled)
  /\ UNCHANGED comped

CompDetach ==
  /\ Accepts("detach")
  /\ Emits([Empty(comp) EXCEPT !.connection = 0], Lifts, BarrierCancelled)
  /\ UNCHANGED comped

CompRelease ==
  /\ Accepts("release")
  /\ Emits(Empty(comp), Lifts, BarrierCancelled)
  /\ UNCHANGED comped

CompCancel ==
  /\ Gets("cancel")
  /\ Emits(IF comp.barrier = toComp[1].n THEN [comp EXCEPT !.barrier = 0] ELSE comp, <<>>, <<>>)
  /\ UNCHANGED comped

\* A close event to the window; a window that is not mapped is not selected.
CompClose ==
  /\ Accepts("close") \/ Accepts("select")
  /\ Emits(comp, <<>>, <<>>)
  /\ UNCHANGED comped

CompReject ==
  /\ \E to \in inputs \cup {"detach", "release", "select", "close"} : Gets(to)
  /\ Rejected(toComp[1])
  /\ Emits(comp, <<>>, <<>>)
  /\ UNCHANGED comped

CompKey ==
  /\ Accepts("down") \/ Accepts("up")
  /\ LET line == toComp[1] IN
     Emits([comp EXCEPT !.held = IF line.to = "down" THEN line.s ELSE 0],
           <<Event(line.to, 0, line.s)>>, <<>>)
  /\ UNCHANGED comped

CompMarker ==
  /\ Accepts("press") \/ Accepts("lift")
  /\ LET line == toComp[1] IN
     Emits([comp EXCEPT !.mark = IF line.to = "press" THEN line.n ELSE -1],
           <<Event(line.to, line.n, line.s)>>, <<>>)
  /\ UNCHANGED comped

\* clipboard_publish takes the selection or refuses.
CompClip ==
  /\ Accepts("clip")
  /\ \E ok \in BOOLEAN : Emits(comp, <<>>, <<Record("clip", toComp[1].n, ok)>>)
  /\ UNCHANGED comped

\* One barrier, and one ping of the client, at a time
CompBarrier ==
  /\ Accepts("barrier")
  /\ IF comp.barrier = 0 /\ ~comp.pinged
     THEN Emits([comp EXCEPT !.barrier = toComp[1].n, !.pinged = TRUE],
                <<Event("ping", toComp[1].n, 0)>>, <<>>)
     ELSE Emits(comp, <<>>, <<Record("barrier", toComp[1].n, FALSE)>>)
  /\ UNCHANGED comped

\* submit_text to the one enabled context, if there is one
CompText ==
  /\ Accepts("text")
  /\ \E ok \in BOOLEAN :
       Emits(comp, IF ok THEN <<Event("text", 0, toComp[1].s)>> ELSE <<>>,
             <<Record("text", toComp[1].n, ok)>>)
  /\ UNCHANGED comped

\* The focus or the geometry changes, at the application's or a viewer's wish.
NewScene(live) ==
  /\ comp.scene < MaxScenes /\ ~comp.lost
  /\ Emits([Empty(comp) EXCEPT !.scene = @ + 1, !.live = live], Lifts,
           BarrierCancelled \o <<Record("scene", comp.scene + 1, live)>>)

SceneChange == "scene" \in Events /\ (\E live \in BOOLEAN : NewScene(live)) /\ UNCHANGED <<toComp, comped>>
CompSelect == Accepts("select") /\ NewScene(TRUE) /\ UNCHANGED comped

PingTimeout ==
  /\ "timeout" \in Events
  /\ comp.barrier # 0
  /\ Emits([comp EXCEPT !.barrier = 0], <<>>, <<Record("barrier", comp.barrier, FALSE)>>)
  /\ UNCHANGED <<toComp, comped>>

\* control_lost: the helper reads what was written, then the end of the stream.
CompLost ==
  /\ "lost" \in Events
  /\ ~comp.lost
  /\ Emits([Empty(comp) EXCEPT !.connection = 0, !.lost = TRUE], Lifts,
           BarrierCancelled \o <<Record("lost", 0, TRUE)>>)
  /\ toComp' = <<>>
  /\ UNCHANGED comped

CompStep == \/ CompConnection \/ CompDetach \/ CompRelease \/ CompCancel \/ CompClose \/ CompReject
            \/ CompKey \/ CompMarker \/ CompClip \/ CompBarrier \/ CompText \/ SceneChange
            \/ CompSelect \/ PingTimeout \/ CompLost

----------------------------------------------------------------------------
(* The application's input context.                                        *)

apped == <<helperVars, toComp, req>>
AppReads(ev) == app.state = "idle" /\ toApp # <<>> /\ toApp[1].ev = ev /\ toApp' = Tail(toApp)

\* A key that the compositor lifts itself is nobody's request.
AppKey ==
  /\ AppReads("down") \/ AppReads("up")
  /\ doc' = IF toApp[1].s # 0 THEN Append(doc, toApp[1].s) ELSE doc
  /\ UNCHANGED <<app, comp, toHelper, toBus, apped>>

AppText ==
  /\ AppReads("text")
  /\ doc' = Append(doc, toApp[1].s)
  /\ UNCHANGED <<app, comp, toHelper, toBus, apped>>

\* client_pong
AppPing ==
  /\ AppReads("ping")
  /\ comp' = [comp EXCEPT !.pinged = FALSE, !.barrier = 0]
  /\ toHelper' = IF comp.barrier = 0 THEN toHelper
                 ELSE Append(toHelper, Record("barrier", comp.barrier, TRUE))
  /\ UNCHANGED <<app, toBus, doc, apped>>

\* commit_marker: the call to Take blocks the application.
AppPress ==
  /\ AppReads("press")
  /\ app' = [app EXCEPT !.state = "asking", !.mark = toApp[1].s]
  /\ toBus' = Append(toBus, Call("take", toApp[1].n))
  /\ UNCHANGED <<comp, toHelper, doc, apped>>

AppLift ==
  /\ AppReads("lift")
  /\ toBus' = Append(toBus, Call("released", toApp[1].n))
  /\ UNCHANGED <<app, comp, toHelper, doc, apped>>

Back == [app EXCEPT !.state = "idle", !.mark = 0, !.seq = 0, !.text = 0]
AppInsert ==
  /\ app.state = "got"
  /\ doc' = Append(doc, app.text)
  /\ app' = [Back EXCEPT !.dones = @ \cup {app.seq}]
  /\ UNCHANGED <<comp, toHelper, toApp, toBus, apped>>

\* The input context lost its window while it waited.
AppRefuse ==
  /\ "refuse" \in Events
  /\ app.state = "got"
  /\ app' = Back
  /\ toBus' = Append(toBus, Call("failed", app.seq))
  /\ UNCHANGED <<comp, toHelper, toApp, doc, apped>>

\* The 3 second limit of the call
AppGiveUp ==
  /\ "giveup" \in Events
  /\ app.state \in {"asking", "got"}
  /\ app' = Back
  /\ toBus' = [i \in DOMAIN toBus |-> [toBus[i] EXCEPT !.wait = FALSE]]
  /\ UNCHANGED <<comp, toHelper, toApp, doc, apped>>

\* The idle callback after the commit
AppDone ==
  /\ app.state = "idle"
  /\ \E q \in app.dones :
       /\ app' = [app EXCEPT !.dones = @ \ {q}]
       /\ toBus' = Append(toBus, Call("done", q))
  /\ UNCHANGED <<comp, toHelper, toApp, doc, apped>>

\* The application ends; the bus announces it after its calls.
AppGone ==
  /\ "gone" \in Events
  /\ Route = "marker" /\ app.state # "gone"
  /\ app' = [Back EXCEPT !.state = "gone", !.dones = {}]
  /\ toBus' = Append([i \in DOMAIN toBus |-> [toBus[i] EXCEPT !.wait = FALSE]], Call("gone", 0))
  /\ UNCHANGED <<comp, toHelper, toApp, doc, apped>>

AppStep == AppKey \/ AppText \/ AppPing \/ AppPress \/ AppLift \/ AppInsert \/ AppRefuse
             \/ AppGiveUp \/ AppDone \/ AppGone

----------------------------------------------------------------------------
Asking(c) == \E k \in Kinds : Enqueue(c, k) \/ Overflow(c, k)
ViewerStep(c) == Disconnect(c) \/ Paint(c) \/ Asking(c) \/ CloseAtOnce(c) \/ ReleaseInput(c)
                   \/ SelectWindow(c) \/ CaptureFailed(c) \/ Terminate(c)
RecordStep == ReadScene \/ ReadTextReply \/ ReadClip \/ ReadLate \/ ReadLost
BusStep == Take \/ Released \/ Done \/ FailedCall \/ Unregister

Next ==
  \/ Connect \/ RecordStep \/ BusStep \/ CompStep \/ AppStep
  \/ \E c \in Connections : ViewerStep(c) \/ Drain(c) \/ Expire(c)

Spec == Init /\ [][Next]_vars

\* The event loop runs its handlers to the end, and its timers fire.
Fairness == \A c \in Connections : WF_vars(Drain(c)) /\ WF_vars(Expire(c))
LiveSpec == Spec /\ Fairness

----------------------------------------------------------------------------
(* Properties.                                                             *)

\* Every variable has its type, and the scheduler stays within its queue bound.
TypeOK ==
  /\ connections \in 0..MaxConnections /\ attached \subseteq 1..connections
  /\ controller \in attached \cup {0}
  /\ view \in [Connections -> [ready : 0..MaxScenes, failed : BOOLEAN,
                               queue : BoundedSeq(Stamps, MaxQueue), pending : Stamps \cup {0}]]
  /\ native \in [epoch : 0..MaxConnections, target : 0..MaxScenes, closed : BOOLEAN]
  /\ ctx.stage \in {"none", "marker", "before", "text", "after"} /\ ctx.code \in Codes
  /\ slots \in [Codes -> [used : BOOLEAN, text : Stamps \cup {0}, pressed : BOOLEAN]]
  /\ draining \in attached \cup {0}
  /\ app.state \in {"idle", "asking", "got", "gone"}
  /\ req \in [Stamps -> [conn : 0..MaxConnections, kind : {"none", "down", "up", "text", "clip", "close"},
                         gen : 0..MaxScenes, replies : 0..1,
                         status : {"none", "queued", "issued", "confirmed", "failed", "refused"}]]

Contract == INSTANCE InputContract WITH
  Owners <- Connections,
  status <- [s \in Stamps |-> req[s].status],
  owner <- [s \in Stamps |-> req[s].conn],
  kind <- [s \in Stamps |-> req[s].kind]

\* Whatever the application, the compositor and the other viewers do, a request
\* settles once, reaches the application at most once and in order, and is
\* confirmed only after the document has it (OrderedInput, MarkerTransactions).
ImplementsContract == Contract!Spec

\* A request is open exactly while a scheduler has it, and a settled one has its
\* one reply unless its viewer has gone: neither a retired scene nor a takeover
\* leaves a caller without an answer (cancel_input), no late completion answers
\* twice.  An adapter holds a transaction exactly when a scheduler waits for it:
\* an orphan would refuse every later text with INPUT_CONTEXT_UNAVAILABLE.
AnsweredOnce ==
  /\ TypeOK
  /\ \A s \in Stamps :
       /\ req[s].status \in {"queued", "issued"} <=> \E c \in attached : s \in Open(c)
       /\ req[s].status \in {"queued", "issued"} => req[s].replies = 0
       /\ req[s].status \in {"confirmed", "failed", "refused"} /\ req[s].conn \in attached
            => req[s].replies = 1
  /\ {view[c].pending : c \in attached} \ {0} = {ctx.op, clip.op} \ {0}

Releasing == \E i \in DOMAIN toComp : toComp[i].to \in {"release", "detach", "connection", "up"}

\* Only the controller has input on its way, on a target that is current, and a
\* key that a viewer pressed is lifted when control passes to another, in
\* whatever order the press, the takeover and the scene changes arrive.
OnlyControllerInput ==
  /\ comp.held # 0 /\ req[comp.held].conn \in attached /\ ~Releasing
       => req[comp.held].conn = controller
  /\ \A c \in Connections : Open(c) # {} =>
       /\ c = controller /\ ~view[c].failed
       /\ view[c].pending # 0 => req[view[c].pending].gen = native.target

\* A marker hands out the text of the transaction that it was pressed for, to
\* the target that is current, or nothing: never the text of a cancelled one.
MarkerSafe ==
  [][app'.state = "got" /\ app.state # "got" =>
       /\ app'.text = ctx.op /\ ctx.op = app.mark /\ req[ctx.op].status = "issued"
       /\ req[ctx.op].gen = native.target /\ req[ctx.op].conn = controller]_vars

\* "callers never wait indefinitely": whatever the compositor and the
\* application do, a request is answered or its viewer leaves.
NeverWaits ==
  \A s \in Stamps :
    req[s].status \in {"queued", "issued"} ~> req[s].status \in {"confirmed", "failed", "refused"}
================================================================================
