---------------------------- MODULE DesktopFrames ----------------------------
(***************************************************************************)
(* The pictures of a native desktop on their way to its viewers: the one   *)
(* capture of NativeFrames (desktop_capture.py) between two barriers of    *)
(* the compositor, the fan-out of NativeDesktop (desktop_native.py), the   *)
(* DesktopAttachment and Peer of each viewer (desktop_attachment.py,       *)
(* desktop_control.py), and the composition of FloeDesktopFrames           *)
(* (desktop_frames.js).  The probe that takes the picture is the one of    *)
(* qualification/desktop_compatibility/frame_probe.c.                      *)
(*                                                                         *)
(* The helper is one thread, so each callback is one step.  The scene, the *)
(* damage and the answers to barriers come in the order of one channel, so *)
(* the compositor is read when its answer is.  A paint and its receipt are *)
(* one step: nothing of the helper depends on the canvas.  A picture and a *)
(* target are the numbers of the changes that made them; 0 is none.        *)
(***************************************************************************)
EXTENDS Naturals, Sequences, SequencesExt

CONSTANTS
    Viewers,    \* who may look at the desktop
    Negotiating,\* those of them that configure their stream; the others keep whole images, one at a time
    MaxEvents,  \* bound: changes of the scene or its picture, failures, changes of a mode
    MaxAttaches \* bound: attachments

ASSUME ConstantsAssumption == {MaxEvents, MaxAttaches} \subseteq Nat /\ Negotiating \subseteq Viewers

VARIABLES
    scene,  \* what the compositor shows
    base,   \* the picture the probe compares with
    frames, \* NativeFrames and its pending ticket
    view,   \* viewer -> its DesktopAttachment, its Peer and what is on the way to it
    client  \* viewer -> the browser

vars == <<scene, base, frames, view, client>>

\* "png" is an attachment that has not configured its stream; "auto" may lose detail, "data" has a cadence.
Modes == {"png", "auto", "data"}
Gone == [on |-> FALSE, mode |-> "png", ready |-> 0, capture |-> 0, dirty |-> FALSE, lossy |-> FALSE,
         refinement |-> FALSE, cadence |-> FALSE, pending |-> FALSE, lost |-> 0, inbox |-> <<>>, shared |-> FALSE]
Blank == [target |-> 0, synced |-> FALSE, picture |-> 0, exact |-> FALSE, torn |-> FALSE, refused |-> FALSE, asks |-> FALSE]
NoAnswer == [kind |-> "error", base |-> 0, picture |-> 0, exact |-> TRUE]
NoAsk == [fresh |-> FALSE, refine |-> FALSE, mode |-> "png"]

Init ==
  /\ scene \in [target : {1}, picture : {1}, dense : BOOLEAN, events : {0}, attaches : {0}]
  /\ base = 0
  /\ frames = [stage |-> "idle", target |-> 0, cancelled |-> FALSE, ask |-> NoAsk, answer |-> NoAnswer,
               mode |-> "png", reset |-> TRUE, refining |-> FALSE, last |-> 0, closed |-> FALSE]
  /\ view = [v \in Viewers |-> Gone]
  /\ client = [v \in Viewers |-> Blank]

Attached == {v \in Viewers : view[v].on}
Event == scene.events < MaxEvents
Counted == [scene EXCEPT !.events = @ + 1]
\* Dense imagery is what JPEG makes smaller.
Painted(dense) == [Counted EXCEPT !.picture = @ + 1, !.dense = dense]

----------------------------------------------------------------------------
(* The attachment of one viewer: what each method leaves of its record *)

Message(kind, target, answer) == [kind |-> kind, target |-> target, answer |-> answer, live |-> kind = "frame", dropped |-> FALSE]
Tell(w, kind, target) == [w EXCEPT !.inbox = Append(@, Message(kind, target, NoAnswer))]
Frames(inbox) == SelectSeq(inbox, LAMBDA m : m.kind = "frame" /\ ~m.dropped)

\* The length of awaiting: receipts that may still come, and those that never will.
Awaiting(w) == w.lost + Len(SelectSeq(w.inbox, LAMBDA m : m.live))
AtCapacity(w) == Awaiting(w) >= IF w.mode = "png" THEN 1 ELSE 2

\* retire_input
Retired(w) ==
  [w EXCEPT !.ready = 0, !.lost = 0, !.refinement = FALSE, !.cadence = FALSE,
            !.inbox = [i \in DOMAIN @ |-> [@[i] EXCEPT !.live = FALSE]]]

Failed(w) == Tell(Retired(w), "unavailable", 0)

\* pump, with the target of the moment: a capture of a closed NativeFrames fails at once.
Waits(w, target) == ~w.on \/ target = 0 \/ ~w.dirty \/ w.capture # 0 \/ AtCapacity(w) \/ w.pending \/ w.cadence

Pump(w, target) ==
  IF Waits(w, target) THEN w
  ELSE IF frames.closed THEN Failed([w EXCEPT !.dirty = FALSE])
  ELSE [w EXCEPT !.dirty = FALSE, !.capture = target]

Damage(w, target) == Pump([w EXCEPT !.dirty = TRUE], target)

\* schedule_refinement
Scheduled(w, changed) == [w EXCEPT !.refinement = (@ /\ ~changed) \/ w.lossy]

\* Peer.send_frame: one frame on the socket at a time
FrameOut(w, message) == [w EXCEPT !.pending = TRUE, !.inbox = Append(@, message)]

\* captured: a frame goes out, nothing has changed, or another is asked for.
Sent(w, answer) ==
  Scheduled([FrameOut(w, Message("frame", w.capture, answer)) EXCEPT
               !.capture = 0, !.cadence = w.mode = "data", !.lossy = ~answer.exact \/ (@ /\ answer.kind # "full")], TRUE)

\* Mutant: what was asked of the scene before is dropped, and the scene of now not asked for.
CapturedOnce(w, answer) ==
  IF w.capture # scene.target THEN [w EXCEPT !.capture = 0]
  ELSE IF answer.kind = "error" THEN Failed([w EXCEPT !.capture = 0])
  ELSE IF answer.kind = "same" THEN Pump(Scheduled([w EXCEPT !.capture = 0], FALSE), scene.target)
  ELSE Sent(w, answer)

Captured(w, answer) ==
  IF w.capture # scene.target THEN Damage([w EXCEPT !.capture = 0], scene.target)
  ELSE IF answer.kind = "error" THEN Failed([w EXCEPT !.capture = 0])
  ELSE IF answer.kind = "same" THEN Pump(Scheduled([w EXCEPT !.capture = 0], FALSE), scene.target)
  ELSE Sent(w, answer)

\* _start_capture: whoever waits for a capture starts one when none is active.
Waiters(views) == {v \in Viewers : views[v].capture # 0}
Started(f, views) ==
  IF f.stage # "idle" \/ Waiters(views) = {} THEN f
  ELSE [f EXCEPT !.stage = "begin", !.cancelled = FALSE, !.target = views[CHOOSE v \in Waiters(views) : TRUE].capture]

Views(changed) == view' = changed /\ frames' = Started(frames, changed)
View(v, w) == Views([view EXCEPT ![v] = w])

Refine(f, asked) == [f EXCEPT !.refining = @ \/ asked]
Reset(f) == [f EXCEPT !.reset = TRUE]

\* configure
Configured(f, mode) == IF mode = f.mode THEN f ELSE Reset([f EXCEPT !.mode = mode])

----------------------------------------------------------------------------
(* The compositor *)

Draw ==
  /\ Event /\ \E dense \in BOOLEAN : scene' = Painted(dense)
  /\ Views([v \in Viewers |-> Damage(view[v], scene.target)])
  /\ UNCHANGED <<base, client>>

\* A scene record, or the loss of the focus.  scene_changed of each attachment
SceneChanged(w, target) == IF w.on THEN Damage(Tell(Retired(w), "state", target), target) ELSE w

Change ==
  /\ Event
  /\ \E target \in {0, scene.events + 2} \ {scene.target}, dense \in BOOLEAN :
       /\ scene' = [Painted(dense) EXCEPT !.target = target]
       /\ Views([v \in Viewers |-> SceneChanged(view[v], target)])
  /\ UNCHANGED <<base, client>>

----------------------------------------------------------------------------
(* A capture *)

\* finish
Finished(f, failed) ==
  [f EXCEPT !.stage = "idle", !.cancelled = FALSE, !.target = 0, !.ask = NoAsk, !.answer = NoAnswer, !.reset = @ \/ failed]

\* _capture_completed: every viewer that waits gets the answer, then the next capture starts.
Finish(answer) ==
  LET failed == answer.kind = "error"
      done == [v \in Viewers |-> IF view[v].capture = 0 THEN view[v] ELSE Captured(view[v], answer)]
      asked == \E v \in Waiters(view) : view[v].mode # "png" /\ (failed \/ view[v].capture # scene.target) IN
  view' = done /\ frames' = Started(Refine(Finished(frames, failed), asked), done)

Astray == frames.cancelled \/ frames.target # scene.target

\* Mutant: a new target is compared with the picture of the one before.
AskedAlike(f) == [fresh |-> f.reset, refine |-> f.refining, mode |-> f.mode]

\* The answer of the first barrier, and the request to the probe
Asked(f) == [fresh |-> f.reset \/ f.last # f.target, refine |-> f.refining, mode |-> f.mode]

\* query_scene has been answered, after what the compositor sent before.
Queried(stage) == frames.stage = stage

Begin ==
  /\ Queried("begin")
  /\ IF Astray THEN Finish(NoAnswer)
     ELSE /\ frames' = [frames EXCEPT !.stage = "shot", !.ask = Asked(frames), !.reset = FALSE,
                                      !.refining = FALSE, !.last = frames.target]
          /\ UNCHANGED view
  /\ UNCHANGED <<scene, base, client>>

\* encode_frame: what follows the raster before it may still cover the whole of it.
Kinds(ask) ==
  IF ask.fresh \/ ask.refine \/ ask.mode = "png" \/ base = 0 THEN {"full"}
  ELSE IF scene.picture = base THEN {"same"} ELSE {"part", "full"}

Shot ==
  /\ frames.stage = "shot"
  /\ \E kind \in Kinds(frames.ask) :
       frames' = [frames EXCEPT !.stage = "end", !.ask = NoAsk,
                       !.answer = [kind |-> kind, base |-> IF kind = "part" THEN base ELSE 0, picture |-> scene.picture,
                                     exact |-> kind = "same" \/ frames.ask.mode # "auto" \/ frames.ask.refine \/ ~scene.dense]]
  /\ base' = scene.picture
  /\ UNCHANGED <<scene, view, client>>

\* The probe has no picture to give.
NoShot ==
  /\ Event /\ frames.stage = "shot" /\ scene' = Counted
  /\ Finish(NoAnswer)
  /\ UNCHANGED <<base, client>>

\* The answer of the second barrier
End ==
  /\ Queried("end")
  /\ IF Astray THEN Finish(NoAnswer) ELSE Finish(frames.answer)
  /\ UNCHANGED <<scene, base, client>>

\* close: a timeout, or a probe that is gone or out of step.  Who waits for the scene of before asks once more.
Expired(w) ==
  LET left == [w EXCEPT !.capture = 0, !.dirty = @ \/ w.capture # scene.target] IN
  IF w.capture = scene.target \/ ~Waits(left, scene.target)
  THEN Failed([left EXCEPT !.dirty = @ /\ w.capture = scene.target]) ELSE left

Close ==
  /\ Event /\ ~frames.closed /\ scene' = Counted
  /\ view' = [v \in Viewers |-> IF view[v].capture = 0 THEN view[v] ELSE Expired(view[v])]
  /\ frames' = [Finished(frames, TRUE) EXCEPT !.closed = TRUE]
  /\ UNCHANGED <<base, client>>

----------------------------------------------------------------------------
(* The helper and a viewer *)

\* register_attachment binds with the first, which starts from an unconfigured stream.
Joined(f) == IF Attached = {} THEN Configured(f, "png") ELSE f

\* attach
Entered == Damage(Tell([Gone EXCEPT !.on = TRUE], "state", scene.target), scene.target)

\* authenticate: the new viewer attaches, then the controller before it loses its input.
Attach(v) ==
  /\ ~view[v].on /\ scene.attaches < MaxAttaches /\ scene' = [scene EXCEPT !.attaches = @ + 1]
  /\ LET changed == [u \in Viewers |->
                       IF u = v THEN [Entered EXCEPT !.shared = Attached # {}]
                       ELSE IF view[u].on THEN [Retired(view[u]) EXCEPT !.shared = TRUE] ELSE view[u]] IN
     /\ view' = changed
     /\ frames' = Started(Joined(frames), changed)
  /\ client' = [client EXCEPT ![v] = Blank]
  /\ UNCHANGED base

\* unregister_attachment, and unbind after the last
Detached(f) == Reset([f EXCEPT !.cancelled = f.stage # "idle"])

Detach(v) ==
  /\ view[v].on
  /\ view' = [view EXCEPT ![v] = Gone]
  /\ frames' = IF Attached = {v} THEN Detached(frames) ELSE frames
  /\ client' = [client EXCEPT ![v] = Blank]
  /\ UNCHANGED <<scene, base>>

\* configure_stream: the first is the viewer's own, a later one is an event.
Configure(v) ==
  /\ view[v].on /\ v \in Negotiating
  /\ IF view[v].mode = "png" THEN UNCHANGED scene ELSE Event /\ scene' = Counted
  /\ \E mode \in Modes \ {"png", view[v].mode} :
       LET changed == [view EXCEPT ![v] = Damage([@ EXCEPT !.mode = mode, !.cadence = FALSE], scene.target)] IN
       view' = changed /\ frames' = Started(Configured(frames, mode), changed)
  /\ UNCHANGED <<base, client>>

\* A viewer that was refused a picture asks for another.
Refresh(v) ==
  /\ view[v].on /\ client[v].asks
  /\ LET changed == [view EXCEPT ![v] = Damage(@, scene.target)] IN
     view' = changed /\ frames' = Started(Refine(frames, view[v].mode # "png"), changed)
  /\ client' = [client EXCEPT ![v].asks = FALSE]
  /\ UNCHANGED <<scene, base>>

\* The frame has left the socket.
Drained(w) == Pump([w EXCEPT !.pending = FALSE], scene.target)
Writable(v) ==
  /\ view[v].pending
  /\ View(v, Drained(view[v]))
  /\ UNCHANGED <<scene, base, client>>

RefineTimer(v) ==
  /\ view[v].refinement
  /\ LET changed == [view EXCEPT ![v] = Damage([@ EXCEPT !.refinement = FALSE], scene.target)] IN
     view' = changed /\ frames' = Started(Refine(frames, TRUE), changed)
  /\ UNCHANGED <<scene, base, client>>

CadenceTimer(v) ==
  /\ view[v].cadence
  /\ View(v, Pump([view[v] EXCEPT !.cadence = FALSE], scene.target))
  /\ UNCHANGED <<scene, base, client>>

----------------------------------------------------------------------------
(* The browser *)

\* The messages up to the i-th have arrived: a frame that is pending is the last, and has not.
Arrived(w, i) == w.pending => \E j \in DOMAIN w.inbox : j > i /\ w.inbox[j].kind = "frame"

\* invalidate: frames that were still to be decoded are not painted.
Notice(v) ==
  /\ \E i \in DOMAIN view[v].inbox :
       LET m == view[v].inbox[i] IN
       /\ m.kind # "frame" /\ Arrived(view[v], i) /\ \A j \in 1..(i - 1) : view[v].inbox[j].kind = "frame"
       /\ view' = [view EXCEPT ![v].inbox = SubSeq(@, i + 1, Len(@))]
       /\ client' = [client EXCEPT ![v] =
            [@ EXCEPT !.synced = FALSE, !.asks = @ \/ m.kind = "unavailable", !.target = IF m.kind = "state" THEN m.target ELSE @]]
  /\ UNCHANGED <<scene, base, frames>>

\* frame_ack: a receipt that is not for the oldest frame is never admitted.
Receipt(w, m) ==
  IF ~m.live THEN w
  ELSE IF w.lost > 0 THEN [w EXCEPT !.lost = @ + 1]
  ELSE Pump([w EXCEPT !.ready = m.target], scene.target)

Refuses(c, m) == m.dropped \/ (m.answer.kind = "part" /\ ~c.synced)

Drawn(c, a) ==
  [c EXCEPT !.synced = TRUE, !.picture = a.picture, !.exact = a.exact /\ (a.kind = "full" \/ @),
            !.torn = a.kind # "full" /\ (@ \/ c.picture # a.base)]

Paint(v) ==
  LET w == view[v] m == Head(w.inbox) rest == [w EXCEPT !.inbox = Tail(@)] c == client[v] IN
  /\ w.inbox # <<>> /\ m.kind = "frame" /\ Arrived(w, 1)
  /\ ~Refuses(c, m)
  /\ client' = [client EXCEPT ![v] = Drawn(c, m.answer)]
  /\ View(v, Receipt(rest, m))
  /\ UNCHANGED <<scene, base>>

\* onError: the packets that have arrived are dropped with the one that is refused.
Refuse(v) ==
  LET w == view[v] m == Head(w.inbox) IN
  /\ w.inbox # <<>> /\ m.kind = "frame" /\ Arrived(w, 1)
  /\ Refuses(client[v], m)
  /\ \E also \in BOOLEAN :
       view' = [view EXCEPT ![v].lost = @ + (IF m.live THEN 1 ELSE 0),
                            ![v].inbox = [i \in 1..(Len(@) - 1) |-> [@[i + 1] EXCEPT !.dropped = @ \/ (also /\ i = 1 /\ Arrived(w, 2))]]]
  /\ client' = [client EXCEPT ![v] = [@ EXCEPT !.synced = FALSE, !.refused = TRUE, !.asks = TRUE]]
  /\ UNCHANGED <<scene, base, frames>>

\* receive: a third packet is more than the browser holds.
Overrun(v) ==
  /\ \E i \in DOMAIN view[v].inbox :
       /\ view[v].inbox[i].kind = "frame" /\ ~view[v].inbox[i].dropped /\ Arrived(view[v], i)
       /\ LET held == SubSeq(view[v].inbox, 1, i) IN Len(Frames(held)) = 3 /\ \A j \in 1..i : held[j].kind = "frame"
       /\ view' = [view EXCEPT ![v].inbox[i].dropped = TRUE]
  /\ UNCHANGED <<scene, base, frames, client>>

Next ==
  \/ Draw \/ Change
  \/ Begin \/ Shot \/ NoShot \/ End \/ Close
  \/ \E v \in Viewers :
       \/ Attach(v) \/ Detach(v) \/ Configure(v) \/ Refresh(v)
       \/ Writable(v) \/ RefineTimer(v) \/ CadenceTimer(v)
       \/ Notice(v) \/ Paint(v) \/ Refuse(v) \/ Overrun(v)

\* The compositor answers, the probe takes its picture, sockets drain, timers fire, and a browser reads what it gets.
Fairness ==
  /\ WF_vars(Begin) /\ WF_vars(Shot) /\ WF_vars(End)
  /\ \A v \in Viewers :
       /\ WF_vars(Refresh(v)) /\ WF_vars(Writable(v)) /\ WF_vars(RefineTimer(v)) /\ WF_vars(CadenceTimer(v))
       /\ WF_vars(Notice(v)) /\ WF_vars(Paint(v))

Spec == Init /\ [][Next]_vars /\ Fairness

----------------------------------------------------------------------------

\* A viewer that has been the only one since it attached never gets a partial frame
\* whose reference it does not have, so what it composes is one picture of the desktop; and the
\* target a viewer may send input to (ready) is the one on the screen and on its canvas.
PicturesWhole ==
  \A v \in Viewers :
    /\ ~view[v].shared => ~client[v].torn /\ ~client[v].refused
    /\ view[v].ready # 0 => view[v].ready = scene.target /\ client[v].picture # 0

Shows(v) ==
  /\ client[v].picture = scene.picture /\ client[v].exact /\ client[v].target = scene.target
  /\ ~client[v].torn

\* When the desktop comes to rest, such a viewer comes to show it, without the loss of an
\* encoding: through a change of scene or mode, a capture that fails, and an attachment made
\* while a capture of the one before is being drained.
ViewerSettles ==
  \A v \in Viewers : []<>(~view[v].on \/ view[v].shared \/ scene.target = 0 \/ frames.closed \/ Shows(v))
==============================================================================
