------------------------------ MODULE HostMedia ------------------------------
(***************************************************************************)
(* The media generation of the user's own desktop: the capture thread that *)
(* compares what the monitor shows with what it captured last              *)
(* (host_desktop_pipewire.py, host_desktop_xcapture.py), DesktopMedia with *)
(* its encoder, frame credits and lossless refinement                      *)
(* (host_desktop_media.py), and the client that acknowledges what it       *)
(* paints.                                                                 *)
(*                                                                         *)
(* A picture is the number of the change that made it; 0 is none.  The     *)
(* sequence numbers of DesktopMedia are the pictures they stand for: only  *)
(* a picture that differs from the last one is counted.  Capture threads,  *)
(* the encoder and the refinement threads run beside the main loop, whose  *)
(* idle queue is tasks.                                                    *)
(***************************************************************************)
EXTENDS Naturals, Sequences, FiniteSets

CONSTANTS
    Sources,        \* captures this instance meets, a subset of {"pipewire", "x11", "gst"}
    MaxPictures,    \* bound: pictures on the monitor
    MaxGenerations, \* bound: generations of the decoder
    MaxCursors,     \* bound: shapes of the cursor
    Window,         \* frame_window: frames sent and not acknowledged
    Buffers         \* pictures the pool holds while the next one is captured

ASSUME BoundsAssumption ==
  /\ Sources \subseteq {"pipewire", "x11", "gst"}
  /\ {MaxPictures, MaxGenerations, Window, Buffers} \subseteq Nat \ {0} /\ MaxCursors \in Nat

VARIABLES
    monitor, \* the picture and the cursor it shows
    capture, \* the capture thread: what it retains, and its stream
    media,   \* DesktopMedia
    coding,  \* pictures in the encoder, of which generation
    refiners,\* refinement threads
    tasks,   \* the idle queue
    client   \* the last frame of the current generation, what was shown and how

vars == <<monitor, capture, media, coding, refiners, tasks, client>>

Fresh == [generation |-> 1, encoded |-> 0, refined |-> 0, issued |-> 0, acked |-> 0, submitted |-> <<>>,
          busy |-> FALSE, scheduled |-> FALSE, refining |-> FALSE]

NoFrame == [frame |-> 0, before |-> 0, picture |-> 0, submitted |-> 0, exact |-> FALSE, cursor |-> 0]

Idle(kind) == [kind |-> kind, previous |-> 0, follows |-> FALSE, produced |-> 0, broken |-> FALSE]

Init ==
  /\ monitor = [picture |-> 1, cursor |-> 0]
  /\ capture \in {Idle(kind) : kind \in Sources}
  /\ media = [closed |-> FALSE, valid |-> TRUE, latest |-> 0, settled |-> FALSE,
              cursor |-> 0, pointing |-> FALSE, g |-> Fresh]
  /\ coding = <<>> /\ refiners = {} /\ tasks = <<>> /\ client = NoFrame

Pending(g) == g.issued - g.acked

\* _schedule_produce
Schedule(m) == [m EXCEPT !.g.scheduled = ~m.closed]

\* _fail.  The owner closes the generation at the first failure it hears of: one that
\* is queued already stands for the next.
Failing(queue, generation) ==
  LET failed == [kind |-> "failed", generation |-> generation, picture |-> 0]
  IN  IF \E i \in DOMAIN queue : queue[i] = failed THEN queue ELSE Append(queue, failed)

----------------------------------------------------------------------------
(* The monitor and the input *)

Capturing == ~media.closed /\ ~capture.broken

\* What the monitor shows matters as long as it is captured.
Change ==
  /\ Capturing /\ monitor.picture < MaxPictures /\ monitor' = [monitor EXCEPT !.picture = @ + 1]
  /\ UNCHANGED <<capture, media, coding, refiners, tasks, client>>

\* interacted
Interact ==
  /\ ~media.closed /\ media' = [media EXCEPT !.settled = FALSE]
  /\ UNCHANGED <<monitor, capture, coding, refiners, tasks, client>>

\* _settled: 150 ms without a change and a second without input have passed.
Settle ==
  /\ media.latest # 0 /\ media' = [media EXCEPT !.settled = TRUE]
  /\ UNCHANGED <<monitor, capture, coding, refiners, tasks, client>>

----------------------------------------------------------------------------
(* The capture thread *)

\* _changed
Changed(picture) == media' = Schedule([media EXCEPT !.latest = picture, !.settled = FALSE])

\* Pictures whose buffers are leased.  The baseline may be a second buffer of the
\* latest picture, for which Buffers leaves room.
Leased == ({capture.previous, media.latest} \cup {coding[i].picture : i \in DOMAIN coding}
            \cup {r.picture : r \in refiners}) \ {0}

\* FramePool.capture waits for a buffer: nothing is dropped.
Room == monitor.picture \in Leased \/ Cardinality(Leased) < Buffers

\* The kinds of PipeWire buffers: the damage is what changed since the last buffer
\* with pixels, and none is said where metadata is missing or out of bounds; the
\* header counts buffers, leaves some out, or is absent.
Frames == [pixels : BOOLEAN, damage : {"unsaid", "none", "some"}, header : {"next", "gap", "absent"}]
Truthful(frame) ==
  /\ frame.pixels /\ frame.damage = "none" => monitor.picture = capture.produced
  /\ ~frame.pixels => frame.damage = "unsaid"

Continuous(frame) == capture.follows /\ frame.header = "next"

\* Mutant: the baseline is taken up again after a gap without seeing the pixels.
FollowsAnyway(frame) == frame.header # "absent"

\* previous_sequence after a buffer: without pixels a gap remains one.
Follows(frame) == frame.header # "absent" /\ (frame.pixels \/ Continuous(frame))

\* _buffer: the copy, and the comparison, are left out only where the damage is
\* relative to the picture that is retained.
Buffer(frame) ==
  /\ Capturing /\ capture.kind = "pipewire" /\ Truthful(frame)
  /\ LET trusted == capture.previous # 0 /\ Continuous(frame)
         unchanged == ~frame.pixels \/ (trusted /\ frame.damage = "none")
         seen == IF unchanged THEN capture.previous ELSE monitor.picture
     IN  /\ unchanged \/ Room
         /\ capture' = [capture EXCEPT !.previous = seen, !.follows = Follows(frame),
                                       !.produced = IF frame.pixels THEN monitor.picture ELSE @]
         /\ IF seen # capture.previous THEN Changed(seen) ELSE UNCHANGED media
  /\ UNCHANGED <<monitor, coding, refiners, tasks, client>>

\* A buffer is corrupted, or the stream drops it: its pixels are not looked at.
Lost ==
  /\ Capturing /\ capture.kind = "pipewire"
  /\ capture' = [capture EXCEPT !.follows = FALSE, !.produced = monitor.picture]
  /\ UNCHANGED <<monitor, media, coding, refiners, tasks, client>>

\* equal_pixels
Differs(prior) == prior # monitor.picture

\* What a read of the X server's picture answers: all of it, at once.
Read == Changed(monitor.picture) /\ capture' = [capture EXCEPT !.previous = monitor.picture]

\* The thread of X11Capture compares with what it read last.
Sample ==
  /\ Capturing /\ capture.kind = "x11" /\ Differs(capture.previous) /\ Read
  /\ UNCHANGED <<monitor, coding, refiners, tasks, client>>

\* _captured compares with what DesktopMedia took last.
Captured ==
  /\ Capturing /\ capture.kind = "gst" /\ Differs(media.latest)
  /\ Changed(monitor.picture) /\ UNCHANGED <<monitor, capture, coding, refiners, tasks, client>>

\* The stream is lost, its format changed or its layout is not supported; for the
\* first two the target is no longer the one input was meant for.
CaptureFails(valid) ==
  /\ Capturing
  /\ capture' = [Idle(capture.kind) EXCEPT !.broken = TRUE] /\ media' = [media EXCEPT !.valid = @ /\ valid]
  /\ tasks' = Failing(tasks, media.g.generation)
  /\ UNCHANGED <<monitor, coding, refiners, client>>

\* The metadata of a buffer, or the X server, says that the cursor is another one.
NextShape == monitor.cursor + 1

\* _cursor_changed: a shape, published by the one source that is scheduled.
CursorShape ==
  /\ Capturing /\ monitor.cursor < MaxCursors
  /\ monitor' = [monitor EXCEPT !.cursor = NextShape] /\ media' = [media EXCEPT !.cursor = NextShape, !.pointing = TRUE]
  /\ UNCHANGED <<capture, coding, refiners, tasks, client>>

PublishCursor ==
  /\ media.pointing /\ ~media.closed
  /\ media' = [media EXCEPT !.pointing = FALSE] /\ client' = [client EXCEPT !.cursor = media.cursor]
  /\ UNCHANGED <<monitor, capture, coding, refiners, tasks>>

----------------------------------------------------------------------------
(* The encoder *)

\* produce has nothing to do, or has to wait for an acknowledgement or for the encoder.
Waits(g) == media.latest = 0 \/ g.busy \/ media.latest = g.encoded \/ Pending(g) >= Window

\* The encoder of a generation is set up for its first picture, which may fail, as the
\* push of any picture may: its frame is then gone.
Outcomes == {"pushed", "no encoder", "refused"}

\* produce
Produce(outcome) ==
  /\ media.g.scheduled
  /\ LET g == [media.g EXCEPT !.scheduled = FALSE]
         submitted == [g EXCEPT !.issued = @ + 1, !.busy = TRUE, !.encoded = media.latest,
                                !.submitted = Append(@, [frame |-> g.issued + 1, picture |-> media.latest])]
     IN  /\ media' = [media EXCEPT !.g = IF Waits(g) \/ outcome = "no encoder" THEN g ELSE submitted]
         /\ coding' = IF Waits(g) \/ outcome # "pushed" THEN coding
                      ELSE Append(coding, [generation |-> g.generation, picture |-> media.latest])
         /\ tasks' = IF Waits(g) \/ outcome = "pushed" THEN tasks ELSE Failing(tasks, g.generation)
  /\ UNCHANGED <<monitor, capture, refiners, client>>

\* A worker that does not answer in time, or answers for another picture, fails.
Answers == {"encoded", "failed"}

\* _encoded: the output waits in the idle queue.
Output(coded) == [kind |-> "encoded", generation |-> coded.generation, picture |-> coded.picture]

\* _native_sample
Encode(answer) ==
  /\ coding # <<>> /\ ~media.closed
  /\ coding' = Tail(coding)
  /\ tasks' = IF answer = "encoded" THEN Append(tasks, Output(Head(coding))) ELSE Failing(tasks, media.g.generation)
  /\ UNCHANGED <<monitor, capture, media, refiners, client>>

\* emit, pixels and sent: what a frame must be is asked of it below.
Shows(frame, picture, submitted, exact) ==
  client' = [client EXCEPT !.frame = frame, !.before = client.frame, !.picture = picture,
                           !.submitted = submitted, !.exact = exact]

\* Mutant: a recovered encoder is trusted to have no output left.
StaleNever(task) == media.closed

Stale(task) == media.closed \/ task.generation # media.g.generation

\* publish, of _encoded.  An output nobody waits for, or without its parameter sets, is
\* a failure.
PublishEncoded(task, valid) ==
  IF Stale(task) THEN UNCHANGED <<media, client>> /\ tasks' = Tail(tasks)
  ELSE IF media.g.submitted = <<>> \/ ~valid
         THEN UNCHANGED <<media, client>> /\ tasks' = Failing(Tail(tasks), media.g.generation)
  ELSE LET first == Head(media.g.submitted)
       IN  /\ Shows(first.frame, task.picture, first.picture, FALSE)
           /\ media' = Schedule([media EXCEPT !.g.submitted = Tail(@), !.g.busy = FALSE])
           /\ tasks' = Tail(tasks)

----------------------------------------------------------------------------
(* Refinement: the settled picture once more, lossless *)

\* _tick
Tick ==
  /\ ~media.closed /\ media.latest # 0 /\ media.settled
  /\ Pending(media.g) = 0 /\ ~media.g.refining /\ media.g.refined # media.latest
  /\ media' = [media EXCEPT !.g.refining = TRUE]
  /\ refiners' = refiners \cup {[generation |-> media.g.generation, picture |-> media.latest]}
  /\ UNCHANGED <<monitor, capture, coding, tasks, client>>

\* refine, in its thread
Refine(r, ok) ==
  /\ r \in refiners /\ refiners' = refiners \ {r}
  /\ tasks' = Append(tasks, [kind |-> IF ok THEN "refined" ELSE "unrefined",
                             generation |-> r.generation, picture |-> r.picture])
  /\ UNCHANGED <<monitor, capture, media, coding, client>>

\* publish, of refine: what changed in the meantime is refined later.  A frame that is
\* scheduled goes first: idle tasks run in order, and the pace of the encoder, at most
\* 67 ms, is over before a picture has settled.
PublishRefined(task) ==
  /\ ~media.g.scheduled
  /\ LET g == [media.g EXCEPT !.refining = FALSE]
         current == media.latest = task.picture /\ Pending(g) = 0 /\ media.settled
     IN  IF Stale(task) THEN UNCHANGED <<media, client>>
         ELSE IF ~current THEN media' = [media EXCEPT !.g = g] /\ UNCHANGED client
         ELSE /\ media' = [media EXCEPT !.g = [g EXCEPT !.refined = task.picture, !.issued = @ + 1]]
              /\ Shows(g.issued + 1, task.picture, task.picture, TRUE)
  /\ tasks' = Tail(tasks)

Unrefined(task) ==
  /\ tasks' = IF Stale(task) THEN Tail(tasks) ELSE Failing(Tail(tasks), media.g.generation)
  /\ UNCHANGED <<media, client>>

----------------------------------------------------------------------------
(* The owner *)

\* close: the capture thread is joined and the pipelines are stopped.  Of a closed
\* generation nothing but its number is looked at again.
Closed(m) == [m EXCEPT !.closed = TRUE, !.valid = TRUE, !.latest = 0, !.settled = FALSE, !.pointing = FALSE,
                       !.g = [Fresh EXCEPT !.generation = m.g.generation]]
Closes ==
  /\ media' = Closed(media) /\ coding' = <<>> /\ client' = NoFrame
  /\ capture' = Idle(capture.kind)

Close == ~media.closed /\ Closes /\ UNCHANGED <<monitor, refiners, tasks>>

\* media_failed, of the generation that is current
OwnerHears(task) ==
  /\ IF Stale(task) THEN UNCHANGED <<media, coding, capture, client>> ELSE Closes
  /\ tasks' = Tail(tasks)

Task ==
  /\ tasks # <<>>
  /\ LET task == Head(tasks)
     IN  \/ task.kind = "encoded" /\ (\E valid \in BOOLEAN : PublishEncoded(task, valid)) /\ UNCHANGED <<coding, capture>>
         \/ task.kind = "refined" /\ PublishRefined(task) /\ UNCHANGED <<coding, capture>>
         \/ task.kind = "unrefined" /\ Unrefined(task) /\ UNCHANGED <<coding, capture>>
         \/ task.kind = "failed" /\ OwnerHears(task)
  /\ UNCHANGED <<monitor, refiners>>

\* acknowledge, of a frame of this generation that was sent
Acknowledge(frame) ==
  /\ ~media.closed /\ frame \in media.g.acked + 1 .. client.frame
  /\ media' = Schedule([media EXCEPT !.g.acked = frame])
  /\ UNCHANGED <<monitor, capture, coding, refiners, tasks, client>>

\* Mutant: the refinement of the generation before is still waited for.
RecoveredRefining(m) ==
  Schedule([m EXCEPT !.g = [Fresh EXCEPT !.generation = m.g.generation + 1, !.refining = m.g.refining],
                     !.pointing = m.cursor # 0])

\* What recover leaves of a generation
Recovered(m) ==
  Schedule([m EXCEPT !.g = [Fresh EXCEPT !.generation = m.g.generation + 1], !.pointing = m.cursor # 0])

\* recover, of a target that is still the same: only the encoder is replaced, and
\* what is queued keeps its generation.
Recover ==
  /\ ~media.closed /\ media.valid /\ media.g.generation < MaxGenerations
  /\ media' = Recovered(media) /\ coding' = <<>> /\ client' = NoFrame
  /\ UNCHANGED <<monitor, capture, refiners, tasks>>

----------------------------------------------------------------------------
\* Fairness asks for no more than buffers with pixels, whatever else is missing.
Intact(frame) == frame.pixels /\ Buffer(frame)

Next ==
  \/ Change \/ Interact \/ Settle \/ Lost \/ Sample \/ Captured \/ CursorShape \/ PublishCursor \/ Tick \/ Task \/ Close \/ Recover
  \/ \E frame \in Frames : Buffer(frame)
  \/ \E valid \in BOOLEAN : CaptureFails(valid)
  \/ \E outcome \in Outcomes : Produce(outcome)
  \/ \E answer \in Answers : Encode(answer)
  \/ \E r \in refiners, ok \in BOOLEAN : Refine(r, ok)
  \/ \E frame \in 1..client.frame : Acknowledge(frame)

\* The compositor goes on to produce buffers that arrive, or the server answers; the
\* encoder, the threads and the main loop run; the client acknowledges its frames, and
\* the user pauses.
Fairness ==
  /\ WF_vars(Sample \/ Captured \/ \E frame \in Frames : Intact(frame))
  /\ WF_vars(\E outcome \in Outcomes : Produce(outcome))
  /\ WF_vars(\E answer \in Answers : Encode(answer)) /\ WF_vars(Task) /\ WF_vars(PublishCursor)
  /\ WF_vars(\E r \in refiners, ok \in BOOLEAN : Refine(r, ok)) /\ WF_vars(Tick) /\ WF_vars(Settle)
  /\ WF_vars(Acknowledge(client.frame)) /\ <>[][~Interact]_vars

Spec == Init /\ [][Next]_vars /\ Fairness

----------------------------------------------------------------------------
(* Properties *)

TypeOK ==
  /\ monitor.picture \in 1..MaxPictures /\ monitor.cursor \in 0..MaxCursors
  /\ capture.previous \in 0..MaxPictures /\ capture.follows \in BOOLEAN
  /\ media.latest \in 0..monitor.picture /\ media.g.generation \in 1..MaxGenerations
  /\ media.g.acked <= media.g.issued

\* Frames of a generation are shown in order, within the window, and each is the
\* picture that was submitted as that frame, in that generation: no output of an
\* encoder that recover replaced, and no late refinement, takes the place of another.
\* Damage is believed only relative to the picture retained: while buffers follow
\* each other the baseline is the last one produced, over losses, corruption and
\* buffers that carry a cursor alone.
FramesInOrder ==
  /\ TypeOK
  /\ client.frame # 0 => client.frame > client.before /\ client.picture = client.submitted
  /\ media.g.acked <= client.frame /\ client.frame <= media.g.issued
  /\ Pending(media.g) <= Window /\ (~media.closed => Len(coding) <= 1)
  /\ capture.follows /\ ~media.closed => capture.previous = capture.produced

\* Once the monitor no longer changes, what it shows reaches the client, at last
\* without loss, and so does the cursor, unless the generation has ended or its capture
\* has failed: over a full window, a busy encoder and a decoder that is recovered.
PictureArrives ==
  []<>(\/ media.closed \/ capture.broken
       \/ client.picture = monitor.picture /\ client.exact /\ client.cursor = media.cursor)
=============================================================================
