--------------------------- MODULE LoginAttachment ---------------------------
(***************************************************************************)
(* One attachment to the physical desktop, as the login service serves it  *)
(* (login_service_linux.go): the dispatch loop with its authority, the     *)
(* virtual keyboard, the text transfers that run beside the loop, the      *)
(* capture worker, and the end of the attachment.  The other attachments   *)
(* of the service are an environment that competes for control, the seat   *)
(* one that changes at any time.                                           *)
(*                                                                         *)
(* The loop's goroutine gives the others a chance between two steps of pc; *)
(* at "select" it waits for the first of its channels.  Generations only   *)
(* grow and are only compared with the authority's, so an item carries     *)
(* whether its generation is the current one.                              *)
(***************************************************************************)
EXTENDS Integers, Sequences, FiniteSets

CONSTANTS
    Active, Locked,   \* seat states with an open session; greeters and locked sessions
    None,
    Window,           \* frames on their way to the viewer, HostDesktopPicture.FrameCapacity
    MaxFrames,        \* bound: frames of one generation
    Transfers,        \* bound: the goroutines of text transfers that live together
    MaxCommands,      \* bound: commands queued, the one handled and the reader's included
    MaxMessages       \* bound: messages of the capture worker in flight

Seats == Active \cup Locked
Chord == {"ControlLeft", "KeyV"}
Keys == Chord \cup {"key"}   \* key: the one the viewer presses

ASSUME SeatsAssumption == Active \cap Locked = {} /\ None \notin Seats \cup Transfers /\ None \notin {"me", "other"}
ASSUME BoundsAssumption ==
  /\ Window \in Nat \ {0} /\ MaxFrames \in Nat \ {0}
  /\ MaxCommands \in Nat \ {0} /\ MaxMessages \in Nat \ {0}

VARIABLES
    seat,         \* the state of the physical seat; None: it cannot be read
    controller,   \* loginServer.controller: None, this attachment or another one
    life,         \* the lifetime context; done: and the goroutine that waits for it has run
    pc,           \* where the loop stands
    auth,         \* loginAuthority
    link,         \* connected, waking; refused: a frame was not accepted
    held,         \* loginUInput.heldKeys
    commands, releases,   \* from the reader; the command that is handled is still first
    asked,        \* the seat and mode that a connect is about to enter
    stroke,       \* the key of the paste chord that is next; 0: none
    text,         \* textPending, textWorker, textResults and the transfers' goroutines
    media, messages   \* the capture worker and what it has sent

channels == <<commands, releases, messages>>
loop == <<pc, asked, stroke, auth, link, held>>
vars == <<seat, controller, life, loop, channels, text, media>>

StateOf(s) == IF s \in Active THEN "active" ELSE IF s \in Locked THEN "locked" ELSE "unavailable"

\* What is in a channel belongs to a retired generation.
Retired(queue) == [i \in DOMAIN queue |-> [queue[i] EXCEPT !.current = FALSE]]

NoPending == [transfer |-> None, current |-> FALSE, controlHeld |-> FALSE]
\* An authority that has just entered a generation
NewAuthority(s, mode) == [mode |-> mode, seat |-> s, frame |-> 0, offered |-> {}, painted |-> 0]
NewMedia == [on |-> TRUE, sequence |-> 0, acknowledged |-> 0]

Init ==
  /\ seat \in Seats \cup {None}
  /\ controller \in {None, "other"} /\ life = "open"
  /\ pc = "select" /\ asked = [seat |-> None, mode |-> "view"] /\ stroke = 0
  /\ auth = NewAuthority(None, "view")
  /\ link = [connected |-> FALSE, waking |-> FALSE, refused |-> FALSE]
  /\ held = {} /\ commands = <<>> /\ releases = <<>> /\ messages = <<>>
  /\ text = [pending |-> NoPending, worker |-> FALSE, results |-> <<>>,
             stage |-> [t \in Transfers |-> "none"]]
  /\ media = [NewMedia EXCEPT !.on = FALSE]

----------------------------------------------------------------------------
(* Parts of the handlers *)

\* The channels as a transition leaves them: what is in them belongs to a
\* retired generation.
Requeued(c, r, m) ==
  /\ commands' = Retired(c) /\ releases' = Retired(r) /\ messages' = Retired(m)

\* Mutant: the keys are not released.
TransitionHolding(s, mode) ==
  /\ auth' = NewAuthority(s, mode)
  /\ held' = held
  /\ \E warmed \in BOOLEAN :
       text' = [text EXCEPT !.pending = NoPending,
                            !.worker = warmed /\ StateOf(s) = "active" /\ mode = "control"]
  /\ media' = NewMedia

\* transition: the authority's, then the pending text and its child are given
\* up, a new child is started in advance if it can be, and the capture worker is
\* configured.  Its commands wait in a pipe; their delay only withholds credit.
Transition(s, mode) ==
  /\ auth' = NewAuthority(s, mode)
  /\ held' = {}
  /\ \E warmed \in BOOLEAN :
       text' = [text EXCEPT !.pending = NoPending,
                            !.worker = warmed /\ StateOf(s) = "active" /\ mode = "control"]
  /\ media' = NewMedia

\* loginUInput.inputPhysical: a key counts as held before its press is written,
\* and until its release has been; the loop returns when a write fails.
Physical(key, pressed, next) ==
  \/ /\ held' = IF pressed THEN held \cup {key} ELSE held \ {key}
     /\ pc' = next
  \/ /\ held' = IF pressed THEN held \cup {key} ELSE held
     /\ pc' = "return"

\* claim(conn, "view")
Unclaimed == IF controller = "me" THEN None ELSE controller

\* loginAuthority.input, of unlock_input in a locked session with the frame
\* that was painted last, of input in an open one
Admitted == auth.mode = "control" /\ auth.painted # 0 /\ auth.seat # None

----------------------------------------------------------------------------
(* The viewer, the other attachments, the seat *)

\* What a command asks for is chosen when it is handled.
Sends ==
  /\ life = "open" /\ pc # "gone" /\ Len(commands) < MaxCommands
  /\ commands' = Append(commands, [current |-> TRUE])
  /\ UNCHANGED <<seat, controller, life, loop, releases, text, media, messages>>

\* A release overtakes the commands in the channel, not the one the reader is
\* trying to put there.
SendsRelease ==
  /\ life = "open" /\ pc # "gone" /\ Len(commands) < MaxCommands /\ releases = <<>>
  /\ releases' = <<[current |-> TRUE]>>
  /\ UNCHANGED <<seat, controller, life, loop, commands, text, media, messages>>

\* The connection ends: the reader, the media writer or the service cancels.
Closes ==
  /\ life = "open" /\ life' = "closed"
  /\ UNCHANGED <<seat, controller, loop, channels, text, media>>

SeatChanges ==
  /\ seat' \in (Seats \cup {None}) \ {seat}
  /\ UNCHANGED <<controller, life, loop, channels, text, media>>

OthersClaim ==
  /\ \/ controller = None /\ controller' = "other"
     \/ controller = "other" /\ controller' = None
  /\ UNCHANGED <<seat, life, loop, channels, text, media>>

\* The goroutine that waits for the end of the lifetime
Revoke ==
  /\ life = "closed" /\ life' = "done"
  /\ held' = {} /\ controller' = Unclaimed
  /\ UNCHANGED <<seat, pc, asked, stroke, auth, link, channels, text, media>>

----------------------------------------------------------------------------
(* Text transfers and the capture worker *)

\* loginTextWorker.paste: the child has taken the selection.
Prepares(t) ==
  /\ text.stage[t] = "selecting" /\ text.results = <<>>
  /\ text' = [text EXCEPT !.stage[t] = "prepared",
                          !.results = <<[transfer |-> t, prepared |-> TRUE, ok |-> TRUE]>>]
  /\ UNCHANGED <<seat, controller, life, loop, channels, media>>

\* It returns: the selection was transferred, or the child failed, was closed
\* or did not answer in time.
Completes(t) ==
  /\ text.stage[t] \in {"selecting", "prepared"} /\ text.results = <<>>
  /\ \E ok \in BOOLEAN :
       /\ ok => text.stage[t] = "prepared"
       /\ text' = [text EXCEPT !.stage[t] = "done",
                               !.results = <<[transfer |-> t, prepared |-> FALSE, ok |-> ok]>>]
  /\ UNCHANGED <<seat, controller, life, loop, channels, media>>

Emit(kind, frame) ==
  /\ pc # "gone" /\ media.on /\ Len(messages) < MaxMessages
  /\ messages' = Append(messages, [kind |-> kind, frame |-> frame, current |-> TRUE])
  /\ UNCHANGED <<seat, controller, life, loop, commands, releases, text>>

\* DesktopMedia.produce and its refinement: a frame needs a credit.
Captures ==
  /\ media.sequence - media.acknowledged < Window /\ media.sequence < MaxFrames
  /\ Emit("frame", media.sequence + 1)
  /\ media' = [media EXCEPT !.sequence = @ + 1]

\* The output is asleep, or has another size: capture pauses.
Suspends ==
  /\ \/ Emit("inactive", 0)
     \/ Emit("displays", 0)
  /\ media' = [media EXCEPT !.on = FALSE]

----------------------------------------------------------------------------
(* The loop: releases and text results *)

TakeRelease ==
  /\ pc = "select" /\ releases # <<>>
  /\ \/ /\ releases[1].current /\ text.pending.transfer # None
        /\ Transition(auth.seat, auth.mode) /\ Requeued(commands, <<>>, messages)
     \/ /\ releases[1].current /\ text.pending.transfer = None
        /\ held' = {} /\ releases' = <<>>
        /\ UNCHANGED <<auth, commands, messages, text, media>>
     \/ /\ ~releases[1].current /\ releases' = <<>>
        /\ UNCHANGED <<auth, held, commands, messages, text, media>>
  /\ UNCHANGED <<seat, controller, life, pc, asked, stroke, link>>

\* Mutant: the transfer is over when its selection is prepared.
ReceivedOnce(r) == [text EXCEPT !.results = <<>>, !.stage[r.transfer] = "none"]

\* The goroutine of a transfer ends with its last result.
Received(r) ==
  [text EXCEPT !.results = <<>>, !.stage[r.transfer] = IF r.prepared THEN @ ELSE "none"]

OfPending(r) == r.transfer = text.pending.transfer /\ text.pending.current

\* Only into the seat that was painted, and with no key down, the chord begins.
Prepared(r) ==
  /\ \/ /\ seat # None /\ seat = auth.seat /\ seat \in Active /\ auth.mode = "control" /\ held = {}
        /\ pc' = "check" /\ stroke' = 1
        /\ text' = Received(r)
     \/ /\ ~(seat # None /\ seat = auth.seat /\ seat \in Active /\ auth.mode = "control" /\ held = {})
        /\ text' = [Received(r) EXCEPT !.worker = FALSE]
        /\ UNCHANGED <<pc, stroke>>
  /\ UNCHANGED held

\* The modifier of the chord is lifted before the text counts as settled.
Settled(r) ==
  /\ IF text.pending.controlHeld THEN Physical("ControlLeft", FALSE, "select")
     ELSE UNCHANGED <<held, pc>>
  /\ text' = IF pc' = "return" THEN Received(r)
             ELSE [Received(r) EXCEPT !.pending = NoPending, !.worker = @ /\ r.ok]
  /\ UNCHANGED stroke

TakeResult ==
  /\ pc = "select" /\ text.results # <<>>
  /\ LET r == text.results[1] IN
     \/ OfPending(r) /\ r.prepared /\ Prepared(r)
     \/ OfPending(r) /\ ~r.prepared /\ Settled(r)
     \/ ~OfPending(r) /\ text' = Received(r) /\ UNCHANGED <<pc, stroke, held>>
  /\ UNCHANGED <<seat, controller, life, asked, auth, link, channels, media>>

\* The seat is read before each key of the chord ...
Check ==
  /\ pc = "check"
  /\ \/ /\ seat # None /\ seat = auth.seat
        /\ pc' = "stroke" /\ UNCHANGED <<stroke, held, text>>
     \/ /\ seat = None \/ seat # auth.seat
        /\ pc' = "select" /\ stroke' = 0
        /\ held' = {} /\ text' = [text EXCEPT !.worker = FALSE]
  /\ UNCHANGED <<seat, controller, life, asked, auth, link, channels, media>>

\* ... and the modifier stays down until the transfer has settled.
Stroke ==
  /\ pc = "stroke"
  /\ LET next == IF stroke = 3 THEN "select" ELSE "check" IN
     CASE stroke = 1 -> Physical("ControlLeft", TRUE, next)
       [] stroke = 2 -> Physical("KeyV", TRUE, next)
       [] stroke = 3 -> Physical("KeyV", FALSE, next)
  /\ stroke' = IF pc' = "check" THEN stroke + 1 ELSE 0
  /\ text' = [text EXCEPT !.pending.controlHeld = @ \/ pc' # "return"]
  /\ UNCHANGED <<seat, controller, life, asked, auth, link, channels, media>>

----------------------------------------------------------------------------
(* The loop: commands *)

\* Mutant: commands are taken while a text is pending.
CommandAnyway == pc = "select" /\ commands # <<>>

\* Commands are taken while no text is pending.
Command == pc = "select" /\ commands # <<>> /\ text.pending.transfer = None

\* A command that names a generation names the current one.
Valid == Command /\ Head(commands).current

\* Nothing but an answer: the command is refused, of a retired generation, or
\* one that is not modelled.
Answered ==
  /\ Command
  /\ commands' = Tail(commands)
  /\ UNCHANGED <<seat, controller, life, loop, releases, text, media, messages>>

\* loginServer.claim, when it succeeds
Claim(mode) ==
  IF mode = "view" THEN controller' = Unclaimed
  ELSE controller # "other" /\ controller' = "me"

\* connect; set_mode is the same with a generation, and configure, keyframe
\* and select_display enter the mode that there is already.
Connect(mode) ==
  /\ Command /\ seat # None /\ Claim(mode)
  /\ pc' = "enter" /\ asked' = [seat |-> seat, mode |-> mode]
  /\ UNCHANGED <<seat, life, stroke, auth, link, held, channels, text, media>>

\* Behind the claim others can claim in turn before the transition.
Enter ==
  /\ pc = "enter"
  /\ Transition(asked.seat, asked.mode) /\ Requeued(Tail(commands), releases, messages)
  /\ link' = [link EXCEPT !.connected = TRUE]
  /\ pc' = "select" /\ asked' = [seat |-> None, mode |-> "view"]
  /\ UNCHANGED <<seat, controller, life, stroke>>

\* Mutant: a painted frame stays in the window.
AcknowledgeOnly(frame) == [auth EXCEPT !.painted = frame]

\* loginAuthority.acknowledge
Acknowledge(frame) ==
  [auth EXCEPT !.painted = frame, !.offered = {f \in @ : f > frame}]

FrameAck(frame) ==
  /\ Valid /\ frame \in auth.offered /\ frame >= auth.painted
  /\ auth' = Acknowledge(frame)
  /\ media' = [media EXCEPT !.acknowledged = frame]
  /\ commands' = Tail(commands)
  /\ UNCHANGED <<seat, controller, life, pc, asked, stroke, link, held, releases, text, messages>>

\* input and unlock_input, before the key or the text
InputLost ==
  /\ Valid /\ (life # "open" \/ seat = None)
  /\ held' = IF life = "open" THEN {} ELSE held
  /\ pc' = "return"
  /\ UNCHANGED <<seat, controller, life, asked, stroke, auth, link, channels, text, media>>

InputElsewhere ==
  /\ Valid /\ life = "open" /\ seat # None /\ seat # auth.seat
  /\ Transition(seat, auth.mode) /\ Requeued(Tail(commands), releases, messages)
  /\ UNCHANGED <<seat, controller, life, pc, asked, stroke, link>>

InputHere == Valid /\ life = "open" /\ seat # None /\ seat = auth.seat /\ Admitted

Key ==
  /\ InputHere /\ pc' = "press"
  /\ UNCHANGED <<seat, controller, life, asked, stroke, auth, link, held, channels, text, media>>

Text ==
  /\ InputHere /\ seat \in Active /\ held = {}
  /\ commands' = Tail(commands)
  /\ \E t \in Transfers :
       /\ text.stage[t] = "none"
       /\ text' = [text EXCEPT !.pending = [transfer |-> t, current |-> TRUE, controlHeld |-> FALSE],
                               !.worker = TRUE, !.stage[t] = "selecting"]
  /\ UNCHANGED <<seat, controller, life, loop, releases, media, messages>>

\* The seat was read; the lifetime may end and the seat change before the key.
Press ==
  /\ pc = "press"
  /\ \E pressed \in BOOLEAN : Physical("key", pressed, "select")
  /\ commands' = Tail(commands)
  /\ UNCHANGED <<seat, controller, life, asked, stroke, auth, link, releases, text, media, messages>>

UnlockCancel ==
  /\ Valid /\ auth.seat \in Locked
  /\ Transition(auth.seat, auth.mode) /\ Requeued(Tail(commands), releases, messages)
  /\ UNCHANGED <<seat, controller, life, pc, asked, stroke, link>>

Disconnect ==
  /\ Command /\ pc' = "return"
  /\ UNCHANGED <<seat, controller, life, asked, stroke, auth, link, held, channels, text, media>>

TakeCommand ==
  \/ Answered \/ UnlockCancel \/ Disconnect
  \/ \E mode \in {"view", "control"} : Connect(mode)
  \/ \E frame \in 1..MaxFrames : FrameAck(frame)
  \/ InputLost \/ InputElsewhere \/ Key \/ Text

----------------------------------------------------------------------------
(* The loop: the seat, the capture worker, the end *)

\* The ticker and the signals of logind
WatchSeat ==
  /\ pc = "select" /\ link.connected /\ seat # auth.seat
  /\ \/ /\ seat = None /\ pc' = "return"
        /\ UNCHANGED <<auth, held, text, media, channels>>
     \/ /\ seat # None
        /\ Transition(seat, auth.mode) /\ Requeued(commands, releases, messages)
        /\ UNCHANGED pc
  /\ UNCHANGED <<seat, controller, life, asked, stroke, link>>

Message(kind) == pc = "select" /\ messages # <<>> /\ Head(messages).kind = kind

\* DISPLAY_INACTIVE: the keys are released whatever it is about.  The output is
\* woken once, under a new generation; the text in progress is left as it is.
Inactive ==
  /\ Message("inactive")
  /\ held' = {}
  /\ \/ /\ ~Head(messages).current /\ messages' = Tail(messages)
        /\ UNCHANGED <<pc, auth, link, commands, releases, text, media>>
     \/ /\ Head(messages).current /\ (link.waking \/ seat = None)
        /\ pc' = "return"
        /\ UNCHANGED <<auth, link, channels, text, media>>
     \/ /\ Head(messages).current /\ ~link.waking /\ seat # None
        /\ auth' = NewAuthority(seat, auth.mode)
        /\ text' = [text EXCEPT !.pending.current = FALSE]
        /\ Requeued(commands, releases, Tail(messages))
        /\ media' = NewMedia
        /\ link' = [link EXCEPT !.waking = TRUE]
        /\ pc' \in {"select", "return"}
  /\ UNCHANGED <<seat, controller, life, asked, stroke>>

\* The output has another size.
Displays ==
  /\ Message("displays")
  /\ \/ /\ ~Head(messages).current /\ messages' = Tail(messages)
        /\ UNCHANGED <<pc, auth, held, commands, releases, text, media>>
     \/ /\ Head(messages).current /\ seat = None /\ pc' = "return"
        /\ UNCHANGED <<auth, held, channels, text, media>>
     \/ /\ Head(messages).current /\ seat # None
        /\ Transition(seat, auth.mode) /\ Requeued(commands, releases, Tail(messages))
        /\ UNCHANGED pc
  /\ UNCHANGED <<seat, controller, life, asked, stroke, link>>

\* loginAuthority.acceptFrame
Accepts(frame) == frame = auth.frame + 1 /\ Cardinality(auth.offered) < Window /\ auth.seat # None

Frame ==
  /\ Message("frame")
  /\ \/ /\ ~Head(messages).current /\ messages' = Tail(messages)
        /\ UNCHANGED <<pc, auth, link, held, commands, releases, text, media>>
     \/ /\ Head(messages).current /\ seat = None /\ pc' = "return"
        /\ UNCHANGED <<auth, link, held, channels, text, media>>
     \/ /\ Head(messages).current /\ seat # None /\ seat # auth.seat
        /\ Transition(seat, auth.mode) /\ Requeued(commands, releases, Tail(messages))
        /\ link' = [link EXCEPT !.waking = FALSE]
        /\ UNCHANGED pc
     \/ /\ Head(messages).current /\ seat # None /\ seat = auth.seat
        /\ LET frame == Head(messages).frame IN
           /\ auth' = IF Accepts(frame)
                      THEN [auth EXCEPT !.frame = frame, !.offered = @ \cup {frame}] ELSE auth
           /\ pc' = IF Accepts(frame) THEN "select" ELSE "return"
           /\ link' = [link EXCEPT !.waking = FALSE, !.refused = ~Accepts(frame)]
        /\ messages' = Tail(messages)
        /\ UNCHANGED <<held, commands, releases, text, media>>
  /\ UNCHANGED <<seat, controller, life, asked, stroke>>

TakeMessage == Inactive \/ Displays \/ Frame

\* The lifetime is over.
Leave ==
  /\ pc = "select" /\ life # "open" /\ pc' = "return"
  /\ UNCHANGED <<seat, controller, life, asked, stroke, auth, link, held, channels, text, media>>

\* The capture worker, the bus or the peer is gone; a queue is full; a reply
\* cannot be written.
Fails ==
  /\ pc = "select" /\ pc' = "return"
  /\ UNCHANGED <<seat, controller, life, asked, stroke, auth, link, held, channels, text, media>>

\* The deferred calls of attachment and serve
End ==
  /\ pc = "return" /\ pc' = "gone"
  /\ held' = {} /\ controller' = Unclaimed /\ life' = "done"
  /\ text' = [text EXCEPT !.pending = NoPending, !.worker = FALSE, !.results = <<>>,
                          !.stage = [t \in Transfers |-> "none"]]
  /\ commands' = <<>> /\ releases' = <<>> /\ messages' = <<>>
  /\ media' = [NewMedia EXCEPT !.on = FALSE]
  /\ auth' = NewAuthority(None, "view")
  /\ link' = [connected |-> FALSE, waking |-> FALSE, refused |-> link.refused]
  /\ UNCHANGED <<seat, asked, stroke>>

Loop ==
  \/ TakeRelease \/ TakeResult \/ TakeCommand \/ WatchSeat \/ TakeMessage
  \/ Enter \/ Press \/ Check \/ Stroke
  \/ Leave \/ Fails \/ End

Beside ==
  \/ Sends \/ SendsRelease \/ Closes \/ SeatChanges \/ OthersClaim \/ Revoke
  \/ \E t \in Transfers : Prepares(t) \/ Completes(t)
  \/ Captures \/ Suspends

Next == Loop \/ Beside

Spec == Init /\ [][Next]_vars

----------------------------------------------------------------------------
(* Properties *)

TypeOK ==
  /\ seat \in Seats \cup {None} /\ controller \in {None, "me", "other"}
  /\ life \in {"open", "closed", "done"}
  /\ pc \in {"select", "enter", "press", "check", "stroke", "return", "gone"}
  /\ asked \in [seat : Seats \cup {None}, mode : {"view", "control"}] /\ stroke \in 0..3
  /\ auth \in [mode : {"view", "control"}, seat : Seats \cup {None}, frame : 0..MaxFrames,
               offered : SUBSET (1..MaxFrames), painted : 0..MaxFrames]
  /\ link \in [connected : BOOLEAN, waking : BOOLEAN, refused : BOOLEAN]
  /\ held \subseteq Keys
  /\ \A i \in DOMAIN commands : commands[i] \in [current : BOOLEAN]
  /\ Len(commands) <= MaxCommands /\ Len(releases) <= 1 /\ Len(messages) <= MaxMessages
  /\ text.pending \in [transfer : Transfers \cup {None}, current : BOOLEAN, controlHeld : BOOLEAN]
  /\ text.worker \in BOOLEAN /\ Len(text.results) <= 1
  /\ text.stage \in [Transfers -> {"none", "selecting", "prepared", "done"}]
  /\ media \in [on : BOOLEAN, sequence : 0..MaxFrames, acknowledged : 0..MaxFrames]

\* A key is down only in control, under a generation of which the viewer has
\* painted a frame: every change releases what its predecessor held.  While the
\* attachment lives, its control mode and its held keys mean that it is the one
\* controller of the service, except between a claim and its transition.
HeldInControl ==
  /\ TypeOK
  /\ held # {} => auth.mode = "control" /\ auth.painted # 0
  /\ life = "open" /\ pc # "enter" /\ (auth.mode = "control" \/ held # {}) => controller = "me"

\* The chord of a text is down only for the text that is pending under this
\* generation, and no key of the viewer is down together with it or pressed while
\* the text is on the way; when a text has settled, in whatever way, no key is
\* left down.
ChordAlone == held \cap Chord # {} => text.pending.transfer # None /\ text.pending.current /\ "key" \notin held
TextAlone ==
  /\ []ChordAlone
  /\ [][text.pending.transfer # None => "key" \notin held' \ held]_vars
  /\ [][text.pending.transfer # None /\ text'.pending.transfer = None => held' = {}]_vars

\* Nothing of the attachment's own making ends or stalls it: the loop never
\* refuses a frame of the generation it asked for, for the capture worker's credit
\* is the authority's window; and while it runs, the text that is pending under
\* the current generation has a goroutine that will still report.
NothingStalls ==
  /\ ~link.refused
  /\ text.pending.transfer # None /\ text.pending.current /\ pc # "return"
       => CASE text.stage[text.pending.transfer] = "done" ->
                 /\ Len(text.results) = 1
                 /\ text.results[1].transfer = text.pending.transfer /\ ~text.results[1].prepared
            [] OTHER -> text.stage[text.pending.transfer] # "none"

=============================================================================
