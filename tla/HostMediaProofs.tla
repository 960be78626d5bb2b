--------------------------- MODULE HostMediaProofs ---------------------------
(***************************************************************************)
(* Proofs about HostMedia, for any sources, bounds, window and buffers.    *)
(*                                                                         *)
(* FramesInOrder is not inductive: that a shown picture is the one that    *)
(* was submitted as its frame needs that the encoder, and the idle queue,  *)
(* hold nothing else of the generation (Answering), that nothing queued is *)
(* of a generation to come, which recover begins (Known), and how the      *)
(* frame that is on its way follows the one that the client has (Numbers). *)
(* Books says so; Same and Queues say what most steps leave of it alone.   *)
(***************************************************************************)
EXTENDS HostMedia, SequenceTheorems, TLAPS

\* What the records hold
Pictures == 0..MaxPictures
Generations == 1..MaxGenerations
Monitors == [picture : 1..MaxPictures, cursor : 0..MaxCursors]
Captures == [kind : Sources, previous : Pictures, follows : BOOLEAN, produced : Pictures, broken : BOOLEAN]
Sent == [frame : Nat, picture : Pictures]
Gens == [generation : Generations, encoded : Pictures, refined : Pictures, issued : Nat, acked : Nat,
         submitted : Seq(Sent), busy : BOOLEAN, scheduled : BOOLEAN, refining : BOOLEAN]
Medias == [closed : BOOLEAN, valid : BOOLEAN, latest : Pictures, settled : BOOLEAN,
           cursor : 0..MaxCursors, pointing : BOOLEAN, g : Gens]
Coded == [generation : Generations, picture : Pictures]
Queued == [kind : {"encoded", "refined", "unrefined", "failed"}, generation : Generations, picture : Pictures]
Clients == [frame : Nat, before : Nat, picture : Pictures, submitted : Pictures, exact : BOOLEAN,
            cursor : 0..MaxCursors]

Ranges == /\ monitor \in Monitors /\ capture \in Captures /\ media \in Medias
          /\ coding \in Seq(Coded) /\ refiners \subseteq Coded /\ tasks \in Seq(Queued) /\ client \in Clients
          /\ media.latest <= monitor.picture

\* The one picture that was submitted and not shown yet is the last frame issued;
\* without one the client has what was issued.
Numbers(g, frame) ==
  /\ Len(g.submitted) <= 1 /\ (g.busy <=> g.submitted # <<>>)
  /\ g.submitted = <<>> => frame = g.issued
  /\ g.submitted # <<>> => g.submitted[1].frame = g.issued /\ g.issued = frame + 1
  /\ g.acked <= frame /\ g.issued - g.acked <= Window

\* An output of the generation g that waits in the idle queue
Mine(task, g) == task.kind = "encoded" /\ task.generation = g.generation

\* What the encoder has, or has answered, is the picture that was submitted.
Answering(g, codes, queue) ==
  /\ \A i \in 1..Len(codes) : /\ i = 1 /\ codes[i].generation = g.generation
                              /\ g.submitted # <<>> /\ codes[i].picture = g.submitted[1].picture
  /\ \A i \in 1..Len(queue) : Mine(queue[i], g) =>
       codes = <<>> /\ g.submitted # <<>> /\ queue[i].picture = g.submitted[1].picture
  /\ \A i, j \in 1..Len(queue) : Mine(queue[i], g) /\ Mine(queue[j], g) => i = j

\* Nothing is of a generation to come.
Known(g, queue, threads) ==
  /\ \A i \in 1..Len(queue) : queue[i].generation <= g.generation
  /\ \A r \in threads : r.generation <= g.generation

Shown == client.frame # 0 => client.frame > client.before /\ client.picture = client.submitted
Ended == media.closed => ~media.g.scheduled /\ media.latest = 0 /\ coding = <<>>
Retained == /\ capture.kind # "pipewire" => ~capture.follows
            /\ capture.follows => capture.previous = capture.produced

Books == /\ Numbers(media.g, client.frame) /\ Known(media.g, tasks, refiners)
         /\ ~media.closed => Answering(media.g, coding, tasks)
         /\ Shown /\ Ended /\ Retained
IInv == Ranges /\ Books

----------------------------------------------------------------------------
(* The constants, the queue and the records *)

\* The bounds, and what is in them
LEMMA Bounds ==
  /\ MaxPictures \in Nat \ {0} /\ MaxGenerations \in Nat \ {0} /\ Window \in Nat \ {0} /\ MaxCursors \in Nat
  /\ Sources \subseteq {"pipewire", "x11", "gst"}
  /\ 0 \in Pictures /\ 1 \in Pictures /\ 1 \in 1..MaxPictures /\ 1 \in Generations /\ 0 \in 0..MaxCursors
BY BoundsAssumption DEF Pictures, Generations

\* A generation begins without frames.
LEMMA FreshOK ==
  ASSUME NEW n \in Generations
  PROVE  /\ [Fresh EXCEPT !.generation = n] \in Gens /\ [Fresh EXCEPT !.generation = n].generation = n
         /\ [Fresh EXCEPT !.generation = n].issued = 0 /\ [Fresh EXCEPT !.generation = n].acked = 0
         /\ [Fresh EXCEPT !.generation = n].submitted = <<>> /\ ~[Fresh EXCEPT !.generation = n].busy
         /\ ~[Fresh EXCEPT !.generation = n].scheduled
         /\ Fresh \in Gens /\ Fresh.generation = 1 /\ Fresh.issued = 0 /\ Fresh.acked = 0
         /\ Fresh.submitted = <<>> /\ ~Fresh.busy /\ ~Fresh.scheduled
<1>1. <<>> \in Seq(Sent) /\ 0 \in Nat
  BY EmptySeq
<1>2. QED
  BY <1>1, Bounds DEF Fresh, Gens

\* The capture as it starts
LEMMA IdleOK ==
  ASSUME NEW kind \in Sources
  PROVE  /\ Idle(kind) \in Captures /\ [Idle(kind) EXCEPT !.broken = TRUE] \in Captures
         /\ Idle(kind).previous = Idle(kind).produced /\ ~Idle(kind).follows
         /\ ~[Idle(kind) EXCEPT !.broken = TRUE].follows
BY Bounds DEF Idle, Captures

\* No frame is known to the client as it starts.
LEMMA NoFrameOK == NoFrame \in Clients /\ NoFrame.frame = 0
BY Bounds DEF NoFrame, Clients

\* What a first and a last task do to the queue
LEMMA TailFacts ==
  ASSUME NEW S, NEW queue \in Seq(S), queue # <<>>
  PROVE  /\ Tail(queue) \in Seq(S) /\ Head(queue) \in S /\ Head(queue) = queue[1] /\ 1 \in 1..Len(queue)
         /\ Len(queue) \in Nat /\ Len(Tail(queue)) = Len(queue) - 1
         /\ \A i \in 1..Len(Tail(queue)) : i + 1 \in 1..Len(queue) /\ Tail(queue)[i] = queue[i + 1]
<1>1. Len(queue) \in Nat /\ Len(queue) # 0
  BY LenProperties, EmptySeq
<1>2. Tail(queue) \in Seq(S) /\ Head(queue) \in S /\ Head(queue) = queue[1] /\ Len(Tail(queue)) = Len(queue) - 1
      /\ \A i \in 1..Len(Tail(queue)) : Tail(queue)[i] = queue[i + 1]
  BY <1>1, HeadTailProperties
<1>3. QED
  BY <1>1, <1>2

\* and what one more does.
LEMMA AppendFacts ==
  ASSUME NEW S, NEW queue \in Seq(S), NEW t \in S
  PROVE  /\ Append(queue, t) \in Seq(S) /\ Append(queue, t) # <<>> /\ Len(queue) \in Nat
         /\ Len(Append(queue, t)) = Len(queue) + 1 /\ Append(queue, t)[Len(queue) + 1] = t
         /\ \A i \in 1..Len(queue) : Append(queue, t)[i] = queue[i]
         /\ \A i \in 1..Len(Append(queue, t)) : i \in 1..Len(queue) \/ i = Len(queue) + 1
BY AppendProperties, LenProperties, EmptySeq

\* A queue without a first task keeps its books,
LEMMA TailKeeps ==
  ASSUME NEW g, NEW codes, NEW queue \in Seq(Queued), queue # <<>>, NEW threads
  PROVE  /\ Answering(g, codes, queue) => Answering(g, codes, Tail(queue))
         /\ Known(g, queue, threads) => Known(g, Tail(queue), threads)
<1> \A i \in 1..Len(Tail(queue)) : i + 1 \in 1..Len(queue) /\ Tail(queue)[i] = queue[i + 1] /\ i \in Nat
  BY TailFacts
<1>1. ASSUME Answering(g, codes, queue) PROVE Answering(g, codes, Tail(queue))
  <2>1. ASSUME NEW i \in 1..Len(Tail(queue)), NEW j \in 1..Len(Tail(queue)),
               Mine(Tail(queue)[i], g), Mine(Tail(queue)[j], g)
        PROVE  i = j
    <3>1. i + 1 = j + 1
      BY <1>1, <2>1 DEF Answering
    <3>2. QED
      BY <3>1
  <2>2. QED
    BY <1>1, <2>1 DEF Answering
<1>2. QED
  BY <1>1 DEF Known

\* with one more task that is no output,
LEMMA AppendKeeps ==
  ASSUME NEW g, NEW codes, NEW queue \in Seq(Queued), NEW t \in Queued, t.kind # "encoded", NEW threads
  PROVE  /\ Answering(g, codes, queue) => Answering(g, codes, Append(queue, t))
         /\ Known(g, queue, threads) /\ t.generation <= g.generation => Known(g, Append(queue, t), threads)
<1> ~Mine(t, g)
  BY DEF Mine
<1>1. QED
  BY AppendFacts DEF Answering, Known

\* and with a failure.
LEMMA FailingKeeps ==
  ASSUME NEW g \in Gens, NEW codes, NEW queue \in Seq(Queued), NEW threads
  PROVE  /\ Failing(queue, g.generation) \in Seq(Queued)
         /\ Answering(g, codes, queue) => Answering(g, codes, Failing(queue, g.generation))
         /\ Known(g, queue, threads) => Known(g, Failing(queue, g.generation), threads)
<1>1. PICK t : t = [kind |-> "failed", generation |-> g.generation, picture |-> 0]
  OBVIOUS
<1>2. t \in Queued /\ t.kind # "encoded" /\ t.generation <= g.generation
  BY <1>1, Bounds DEF Queued, Gens, Generations
<1>3. Failing(queue, g.generation) = queue \/ Failing(queue, g.generation) = Append(queue, t)
  BY <1>1, Zenon DEF Failing
<1>4. Append(queue, t) \in Seq(Queued)
  BY <1>2, AppendFacts
<1>5. QED
  BY <1>2, <1>3, <1>4, AppendKeeps

----------------------------------------------------------------------------
(* Steps that leave the books alone *)

\* What a step need not touch: the generation, and its frames
Same(m) == /\ m.closed = media.closed /\ m.g.generation = media.g.generation
           /\ m.g.issued = media.g.issued /\ m.g.acked = media.g.acked
           /\ m.g.submitted = media.g.submitted /\ m.g.busy = media.g.busy
SameFrame == /\ client'.frame = client.frame /\ client'.before = client.before
             /\ client'.picture = client.picture /\ client'.submitted = client.submitted
Queues == Known(media.g, tasks', refiners') /\ (~media.closed => Answering(media.g, coding', tasks'))

\* Then the books are kept.
LEMMA SameKeeps ==
  ASSUME IInv, Same(media'), SameFrame, Queues, Ended', Retained'
  PROVE  Books'
<1>1. Numbers(media'.g, client'.frame)
  BY DEF IInv, Books, Numbers, Same, SameFrame
<1>2. Known(media'.g, tasks', refiners')
  BY DEF Queues, Known, Same
<1>3. ~media'.closed => Answering(media'.g, coding', tasks')
  BY DEF Queues, Answering, Mine, Same
<1>4. Shown'
  BY DEF IInv, Books, Shown, SameFrame
<1>5. QED
  BY <1>1, <1>2, <1>3, <1>4 DEF Books

\* The queues are as they were.
LEMMA QueuesStill ==
  ASSUME IInv, UNCHANGED <<coding, tasks, refiners>>
  PROVE  Queues
BY DEF IInv, Books, Queues

\* What DesktopMedia holds
LEMMA MediaFields ==
  ASSUME NEW m \in Medias
  PROVE  /\ m.closed \in BOOLEAN /\ m.valid \in BOOLEAN /\ m.latest \in Pictures /\ m.settled \in BOOLEAN
         /\ m.cursor \in 0..MaxCursors /\ m.pointing \in BOOLEAN /\ m.g \in Gens
         /\ m.g.generation \in Generations /\ m.g.issued \in Nat /\ m.g.acked \in Nat
         /\ m.g.submitted \in Seq(Sent) /\ m.g.busy \in BOOLEAN /\ m.g.scheduled \in BOOLEAN
BY DEF Medias, Gens

\* A change of what is latest, of what has settled, of the cursor or of the target
LEMMA LatestFields ==
  ASSUME NEW m \in Medias, NEW p \in Pictures
  PROVE  /\ [m EXCEPT !.latest = p, !.settled = FALSE] \in Medias
         /\ [m EXCEPT !.latest = p, !.settled = FALSE].g = m.g
         /\ [m EXCEPT !.latest = p, !.settled = FALSE].closed = m.closed
         /\ [m EXCEPT !.latest = p, !.settled = FALSE].latest = p
BY DEF Medias

\* leaves the rest as it was.
LEMMA PlainFields ==
  ASSUME NEW m \in Medias, NEW m2,
         \/ \E b \in BOOLEAN : m2 = [m EXCEPT !.settled = b] \/ m2 = [m EXCEPT !.valid = b]
         \/ m2 = [m EXCEPT !.pointing = FALSE]
         \/ \E n \in 0..MaxCursors : m2 = [m EXCEPT !.cursor = n, !.pointing = TRUE]
  PROVE  m2 \in Medias /\ m2.g = m.g /\ m2.closed = m.closed /\ m2.latest = m.latest
<1>1. ASSUME NEW b \in BOOLEAN, m2 = [m EXCEPT !.settled = b] \/ m2 = [m EXCEPT !.valid = b]
      PROVE  m2 \in Medias /\ m2.g = m.g /\ m2.closed = m.closed /\ m2.latest = m.latest
  BY <1>1 DEF Medias
<1>2. CASE m2 = [m EXCEPT !.pointing = FALSE]
  BY <1>2 DEF Medias
<1>3. ASSUME NEW n \in 0..MaxCursors, m2 = [m EXCEPT !.cursor = n, !.pointing = TRUE]
      PROVE  m2 \in Medias /\ m2.g = m.g /\ m2.closed = m.closed /\ m2.latest = m.latest
  BY <1>3 DEF Medias
<1>4. QED
  BY <1>1, <1>2, <1>3

\* Another state of the generation
LEMMA GenFields ==
  ASSUME NEW m \in Medias, NEW g \in Gens
  PROVE  /\ [m EXCEPT !.g = g] \in Medias /\ [m EXCEPT !.g = g].g = g
         /\ [m EXCEPT !.g = g].closed = m.closed /\ [m EXCEPT !.g = g].latest = m.latest
BY DEF Medias

\* A frame is scheduled, unless the generation is closed.
LEMMA ScheduleFacts ==
  ASSUME NEW m \in Medias
  PROVE  /\ Schedule(m) \in Medias /\ Schedule(m).closed = m.closed /\ Schedule(m).latest = m.latest
         /\ Schedule(m).g = [m.g EXCEPT !.scheduled = ~m.closed]
         /\ Schedule(m).g.generation = m.g.generation /\ Schedule(m).g.issued = m.g.issued
         /\ Schedule(m).g.acked = m.g.acked /\ Schedule(m).g.submitted = m.g.submitted
         /\ Schedule(m).g.busy = m.g.busy /\ Schedule(m).g.scheduled = ~m.closed
<1>1. PICK g : g = [m.g EXCEPT !.scheduled = ~m.closed]
  OBVIOUS
<1>2. /\ g \in Gens /\ g.generation = m.g.generation /\ g.issued = m.g.issued /\ g.acked = m.g.acked
      /\ g.submitted = m.g.submitted /\ g.busy = m.g.busy /\ g.scheduled = ~m.closed
  BY <1>1, MediaFields DEF Gens
<1>3. Schedule(m) = [m EXCEPT !.g = g]
  BY <1>1, MediaFields DEF Schedule, Medias
<1>4. /\ Schedule(m) \in Medias /\ Schedule(m).g = g /\ Schedule(m).closed = m.closed
      /\ Schedule(m).latest = m.latest
  BY <1>2, <1>3, GenFields
<1>5. QED
  BY <1>1, <1>2, <1>4

\* A picture that changed is scheduled: the frames are as they were.
LEMMA ChangedFacts ==
  ASSUME IInv, NEW p \in Pictures, p <= monitor.picture, Changed(p), ~media.closed
  PROVE  media' \in Medias /\ Same(media') /\ media'.latest <= monitor.picture /\ ~media'.closed
<1>1. PICK m \in Medias : m = [media EXCEPT !.latest = p, !.settled = FALSE] /\ m.g = media.g
                          /\ m.closed = media.closed /\ m.latest = p
  BY LatestFields DEF IInv, Ranges
<1>2. media' = Schedule(m)
  BY <1>1 DEF Changed
<1>3. media' \in Medias /\ media'.latest = p /\ ~media'.closed /\ Same(media')
  <2>1. /\ Schedule(m) \in Medias /\ Schedule(m).closed = m.closed /\ Schedule(m).latest = m.latest
        /\ Schedule(m).g.generation = m.g.generation /\ Schedule(m).g.issued = m.g.issued
        /\ Schedule(m).g.acked = m.g.acked /\ Schedule(m).g.submitted = m.g.submitted
        /\ Schedule(m).g.busy = m.g.busy
    BY ScheduleFacts
  <2>2. QED
    BY <1>1, <1>2, <2>1 DEF Same
<1>4. QED
  BY <1>3

----------------------------------------------------------------------------
(* The monitor and the capture *)

\* Pictures of a buffer, of the server and of the sample
LEMMA PictureSteps ==
  ASSUME IInv, (\E frame \in Frames : Buffer(frame)) \/ Lost \/ Sample \/ Captured
  PROVE  IInv'
<1>a. /\ monitor.picture \in Pictures /\ capture \in Captures /\ media \in Medias
      /\ capture.previous \in Pictures /\ capture.kind \in Sources
  BY DEF IInv, Ranges, Monitors, Captures, Pictures
<1>b. ~media.closed /\ UNCHANGED <<monitor, coding, refiners, tasks, client>>
  BY DEF Buffer, Lost, Sample, Captured, Capturing
<1>0. /\ monitor.picture \in Pictures /\ capture \in Captures /\ media \in Medias /\ ~media.closed
      /\ capture.previous \in Pictures /\ capture.kind \in Sources
      /\ UNCHANGED <<monitor, coding, refiners, tasks, client>>
  BY <1>a, <1>b
<1>1. media' \in Medias /\ Same(media') /\ media'.latest <= monitor.picture /\ ~media'.closed
  <2>1. CASE UNCHANGED media
    BY <1>0, <2>1 DEF Same, IInv, Ranges
  <2>2. CASE Changed(monitor.picture)
    <3>1. PICK p \in Pictures : p = monitor.picture /\ p <= monitor.picture
      BY <1>0 DEF Pictures
    <3>2. QED
      BY <1>0, <2>2, <3>1, ChangedFacts
  <2>3. UNCHANGED media \/ Changed(monitor.picture)
    <3>1. ASSUME NEW frame \in Frames, Buffer(frame) PROVE UNCHANGED media \/ Changed(monitor.picture)
      BY <3>1, Zenon DEF Buffer
    <3>2. QED
      BY <3>1 DEF Lost, Sample, Read, Captured
  <2>4. QED
    BY <2>1, <2>2, <2>3
<1>2. capture' \in Captures /\ Retained'
  <2>1. ASSUME NEW frame \in Frames, Buffer(frame) PROVE capture' \in Captures /\ Retained'
    <3>1. PICK unchanged \in BOOLEAN, seen \in Pictures :
            /\ unchanged = (~frame.pixels \/ (capture.previous # 0 /\ Continuous(frame) /\ frame.damage = "none"))
            /\ seen = IF unchanged THEN capture.previous ELSE monitor.picture
            /\ capture' = [capture EXCEPT !.previous = seen, !.follows = Follows(frame),
                                          !.produced = IF frame.pixels THEN monitor.picture ELSE @]
      BY <1>0, <2>1 DEF Buffer
    <3>2. PICK follows \in BOOLEAN, produced \in Pictures :
            /\ follows = Follows(frame) /\ produced = IF frame.pixels THEN monitor.picture ELSE capture.produced
      BY <1>0 DEF Captures, Follows
    <3>3. capture' = [capture EXCEPT !.previous = seen, !.follows = follows, !.produced = produced]
      BY <3>1, <3>2
    <3>4. /\ capture' \in Captures /\ capture'.previous = seen /\ capture'.follows = follows
          /\ capture'.produced = produced /\ capture'.kind = capture.kind
      BY <1>0, <3>3 DEF Captures
    <3>5. capture.kind = "pipewire" /\ Truthful(frame) /\ frame.pixels \in BOOLEAN
      BY <2>1 DEF Buffer, Frames
    <3>6. follows => seen = produced
      BY <3>1, <3>2, <3>5 DEF Follows, Continuous, Truthful, IInv, Books, Retained
    <3>7. QED
      BY <3>4, <3>5, <3>6 DEF Retained
  <2>2. CASE Lost
    BY <1>0, <2>2 DEF Lost, Captures, Retained
  <2>3. CASE Sample
    <3>1. capture' = [capture EXCEPT !.previous = monitor.picture] /\ capture.kind = "x11"
      BY <2>3 DEF Sample, Read
    <3>2. QED
      BY <1>0, <3>1 DEF Captures, Retained, IInv, Books
  <2>4. CASE Captured
    BY <1>0, <2>4 DEF Captured, Retained, IInv, Books
  <2>5. QED
    BY <2>1, <2>2, <2>3, <2>4
<1>3. Books'
  <2>1. SameFrame /\ Queues /\ Ended'
    BY <1>0, <1>1, QueuesStill DEF SameFrame, Ended
  <2>2. QED
    BY <1>1, <1>2, <2>1, SameKeeps
<1>4. QED
  BY <1>0, <1>1, <1>2, <1>3 DEF IInv, Ranges

\* The monitor changes, the user or the cursor moves, and time passes.
LEMMA MonitorSteps ==
  ASSUME IInv, Change \/ Interact \/ Settle \/ CursorShape \/ PublishCursor
  PROVE  IInv'
<1>0. /\ monitor \in Monitors /\ media \in Medias /\ client \in Clients
      /\ UNCHANGED <<capture, coding, refiners, tasks>>
  BY DEF IInv, Ranges, Change, Interact, Settle, CursorShape, PublishCursor
<1>1. monitor' \in Monitors /\ monitor'.picture >= monitor.picture
  <2>1. CASE Change
    BY <1>0, <2>1, Bounds DEF Change, Monitors
  <2>2. CASE CursorShape
    BY <1>0, <2>2, Bounds DEF CursorShape, Monitors, NextShape
  <2>3. CASE Interact \/ Settle \/ PublishCursor
    BY <1>0, <2>3 DEF Interact, Settle, PublishCursor, Monitors
  <2>4. QED
    BY <2>1, <2>2, <2>3
<1>2. media' \in Medias /\ media'.g = media.g /\ media'.closed = media.closed /\ media'.latest = media.latest
  <2>1. CASE Change
    BY <1>0, <2>1 DEF Change
  <2>2. CASE Interact \/ Settle
    <3>1. \E b \in BOOLEAN : media' = [media EXCEPT !.settled = b]
      BY <2>2 DEF Interact, Settle
    <3>2. QED
      BY <1>0, <3>1, PlainFields
  <2>3. CASE CursorShape
    <3>1. PICK n \in 0..MaxCursors : n = NextShape
      BY <1>0, <2>3, Bounds DEF CursorShape, NextShape, Monitors
    <3>2. QED
      BY <1>0, <2>3, <3>1, PlainFields DEF CursorShape
  <2>4. CASE PublishCursor
    BY <1>0, <2>4, PlainFields DEF PublishCursor
  <2>5. QED
    BY <2>1, <2>2, <2>3, <2>4
<1>3. client' \in Clients /\ SameFrame
  <2>1. CASE PublishCursor
    <3>1. PICK n \in 0..MaxCursors : n = media.cursor
      BY <1>0, MediaFields
    <3>2. client' = [client EXCEPT !.cursor = n]
      BY <2>1, <3>1 DEF PublishCursor
    <3>3. QED
      BY <1>0, <3>2 DEF Clients, SameFrame
  <2>2. CASE ~PublishCursor
    BY <1>0, <2>2 DEF Change, Interact, Settle, CursorShape, SameFrame
  <2>3. QED
    BY <2>1, <2>2
<1>4. Same(media') /\ Queues /\ Ended' /\ Retained'
  BY <1>0, <1>2, QueuesStill DEF Same, Ended, Retained, IInv, Books
<1>5. media'.latest <= monitor'.picture
  BY <1>0, <1>1, <1>2, MediaFields DEF IInv, Ranges, Pictures, Monitors
<1>6. Books'
  BY <1>3, <1>4, SameKeeps
<1>7. QED
  BY <1>0, <1>1, <1>2, <1>3, <1>5, <1>6 DEF IInv, Ranges

\* The capture fails.
LEMMA CaptureFailsStep ==
  ASSUME IInv, NEW valid \in BOOLEAN, CaptureFails(valid)
  PROVE  IInv'
<1>0. capture \in Captures /\ capture.kind \in Sources /\ media \in Medias /\ tasks \in Seq(Queued)
      /\ UNCHANGED <<monitor, coding, refiners, client>>
  BY DEF IInv, Ranges, Captures, CaptureFails
<1>1. capture' \in Captures /\ Retained'
  <2>1. PICK kind \in Sources : kind = capture.kind
    BY <1>0
  <2>2. capture' = [Idle(kind) EXCEPT !.broken = TRUE]
    BY <2>1 DEF CaptureFails
  <2>3. QED
    BY <2>2, IdleOK DEF Retained
<1>2. media' \in Medias /\ media'.g = media.g /\ media'.closed = media.closed /\ media'.latest = media.latest
  <2>1. PICK b \in BOOLEAN : b = (media.valid /\ valid)
    OBVIOUS
  <2>2. media' = [media EXCEPT !.valid = b]
    BY <2>1 DEF CaptureFails
  <2>3. QED
    BY <1>0, <2>2, PlainFields
<1>3. PICK g \in Gens : g = media.g
  BY <1>0, MediaFields
<1>4. tasks' \in Seq(Queued) /\ Queues
  BY <1>0, <1>3, FailingKeeps DEF CaptureFails, Queues, IInv, Books
<1>5. Same(media') /\ SameFrame /\ Ended'
  BY <1>0, <1>2 DEF Same, SameFrame, Ended, IInv, Books
<1>6. Books'
  BY <1>1, <1>4, <1>5, SameKeeps
<1>7. QED
  BY <1>0, <1>1, <1>2, <1>4, <1>6 DEF IInv, Ranges

----------------------------------------------------------------------------
(* The encoder *)

\* A picture is submitted, unless there is nothing to do or no encoder.
LEMMA ProduceStep ==
  ASSUME IInv, NEW outcome \in Outcomes, Produce(outcome)
  PROVE  IInv'
<1>0. /\ media \in Medias /\ media.g \in Gens /\ tasks \in Seq(Queued) /\ coding \in Seq(Coded)
      /\ media.latest \in Pictures /\ media.g.scheduled /\ ~media.closed
      /\ UNCHANGED <<monitor, capture, refiners, client>>
  BY MediaFields DEF IInv, Ranges, Produce, Books, Ended
<1> DEFINE g == [media.g EXCEPT !.scheduled = FALSE]
<1> DEFINE frame == [frame |-> g.issued + 1, picture |-> media.latest]
<1> DEFINE submitted == [g EXCEPT !.issued = @ + 1, !.busy = TRUE, !.encoded = media.latest,
                                  !.submitted = Append(@, frame)]
<1>1. /\ g \in Gens /\ g.generation = media.g.generation /\ g.issued = media.g.issued /\ g.acked = media.g.acked
      /\ g.submitted = media.g.submitted /\ g.busy = media.g.busy
  BY <1>0 DEF Gens
<1>2. frame \in Sent /\ frame.frame = g.issued + 1 /\ frame.picture = media.latest
  BY <1>0, <1>1 DEF Gens, Sent
<1>3. /\ media' = [media EXCEPT !.g = IF Waits(g) \/ outcome = "no encoder" THEN g ELSE submitted]
      /\ coding' = IF Waits(g) \/ outcome # "pushed" THEN coding
                   ELSE Append(coding, [generation |-> g.generation, picture |-> media.latest])
      /\ tasks' = IF Waits(g) \/ outcome = "pushed" THEN tasks ELSE Failing(tasks, g.generation)
  BY DEF Produce
<1> HIDE DEF g, frame, submitted
<1>4. tasks' \in Seq(Queued) /\ Known(g, tasks', refiners')
      /\ \A codes : Answering(g, codes, tasks) => Answering(g, codes, tasks')
  <2>1. Known(g, tasks, refiners)
    BY <1>1 DEF Known, IInv, Books
  <2>2. tasks' = tasks \/ tasks' = Failing(tasks, g.generation)
    BY <1>3
  <2>3. QED
    BY <1>0, <1>1, <2>1, <2>2, FailingKeeps
<1>5. Answering(g, coding, tasks)
  BY <1>0, <1>1 DEF IInv, Books, Answering, Mine
<1>6. CASE Waits(g) \/ outcome = "no encoder"
  <2>1. media' = [media EXCEPT !.g = g] /\ coding' = coding
    BY <1>3, <1>6
  <2>2. media' \in Medias /\ media'.g = g /\ media'.closed = media.closed /\ media'.latest = media.latest
    BY <1>0, <1>1, <2>1, GenFields
  <2>3. Same(media') /\ SameFrame /\ Retained' /\ Ended'
    BY <1>0, <1>1, <2>2 DEF Same, SameFrame, Retained, Ended, IInv, Books
  <2>4. Queues
    BY <1>1, <1>4, <1>5, <2>1 DEF Queues, Known, Answering, Mine
  <2>5. Books'
    BY <2>3, <2>4, SameKeeps
  <2>6. QED
    BY <1>0, <1>4, <2>1, <2>2, <2>5 DEF IInv, Ranges
<1>7. CASE ~(Waits(g) \/ outcome = "no encoder")
  <2>1. media' = [media EXCEPT !.g = submitted]
    BY <1>3, <1>7
  <2>2. ~g.busy /\ g.submitted = <<>> /\ g.issued - g.acked < Window /\ client.frame = g.issued /\ coding = <<>>
    <3>1. ~g.busy /\ g.issued - g.acked < Window
      <4>1. ~g.busy /\ ~(Pending(g) >= Window)
        BY <1>7, Zenon DEF Waits
      <4>2. g.issued \in Nat /\ g.acked \in Nat
        BY <1>1 DEF Gens
      <4>3. QED
        BY <4>1, <4>2, Bounds DEF Pending
    <3>2. g.submitted = <<>> /\ client.frame = g.issued
      BY <1>1, <3>1 DEF IInv, Books, Numbers
    <3>3. \A i \in 1..Len(coding) : FALSE
      BY <1>5, <3>2 DEF Answering
    <3>4. coding = <<>>
      BY <1>0, <3>3, LenProperties, EmptySeq
    <3>5. QED
      BY <3>1, <3>2, <3>4
  <2>3. /\ Append(g.submitted, frame) \in Seq(Sent) /\ Append(g.submitted, frame) # <<>>
        /\ Len(Append(g.submitted, frame)) = 1 /\ Append(g.submitted, frame)[1] = frame
    BY <1>2, <2>2
  <2>4. /\ submitted \in Gens /\ submitted.generation = g.generation /\ submitted.issued = g.issued + 1
        /\ submitted.acked = g.acked /\ submitted.submitted = Append(g.submitted, frame) /\ submitted.busy
    <3>1. PICK q \in Seq(Sent) : q = Append(g.submitted, frame)
      BY <2>3
    <3>2. PICK n \in Nat : n = g.issued + 1
      BY <1>1 DEF Gens
    <3>3. submitted = [g EXCEPT !.issued = n, !.busy = TRUE, !.encoded = media.latest, !.submitted = q]
      BY <1>1, <3>1, <3>2 DEF submitted, Gens
    <3>4. QED
      BY <1>0, <1>1, <3>1, <3>2, <3>3 DEF Gens
  <2>5. media' \in Medias /\ media'.g = submitted /\ media'.closed = media.closed /\ media'.latest = media.latest
    BY <1>0, <2>1, <2>4, GenFields
  <2>6. Numbers(media'.g, client'.frame)
    <3>1. client.frame = g.issued /\ g.acked <= client.frame /\ g.issued \in Nat /\ g.acked \in Nat
      BY <1>1, <2>2 DEF Numbers, Gens, IInv, Books
    <3>2. submitted.submitted # <<>> /\ Len(submitted.submitted) = 1 /\ submitted.submitted[1].frame = submitted.issued
          /\ submitted.issued = client'.frame + 1
      BY <1>0, <1>2, <2>3, <2>4, <3>1
    <3>3. submitted.acked <= client'.frame /\ submitted.issued - submitted.acked <= Window
      BY <1>0, <2>2, <2>4, <3>1, Bounds
    <3>4. QED
      BY <2>4, <2>5, <3>2, <3>3 DEF Numbers
  <2>7. Known(media'.g, tasks', refiners')
    BY <1>4, <2>4, <2>5 DEF Known
  <2>8. \A i \in 1..Len(tasks) : ~Mine(tasks[i], g)
    BY <1>5, <2>2 DEF Answering
  <2>9. coding' \in Seq(Coded) /\ Answering(media'.g, coding', tasks')
    <3>1. PICK c \in Coded : c = [generation |-> g.generation, picture |-> media.latest]
      BY <1>0, <1>1 DEF Coded, Gens
    <3>2. CASE outcome = "pushed"
      <4>1. coding' = <<c>> /\ tasks' = tasks
        BY <1>3, <1>7, <2>2, <3>1, <3>2
      <4>2. \A i \in 1..Len(tasks') : ~Mine(tasks'[i], submitted)
        BY <2>4, <2>8, <4>1 DEF Mine
      <4>3. Answering(submitted, coding', tasks')
        BY <1>2, <2>3, <2>4, <3>1, <4>1, <4>2 DEF Answering
      <4>4. QED
        BY <2>5, <4>1, <4>3
    <3>3. CASE outcome # "pushed"
      <4>1. coding' = <<>>
        BY <1>3, <1>7, <2>2, <3>3
      <4>2. \A i \in 1..Len(tasks) : ~Mine(tasks[i], submitted)
        BY <2>4, <2>8 DEF Mine
      <4>3. Answering(submitted, <<>>, tasks)
        BY <4>2, EmptySeq DEF Answering
      <4>4. tasks' = Failing(tasks, submitted.generation)
        BY <1>3, <1>7, <2>4, <3>3
      <4>5. QED
        BY <1>0, <2>4, <2>5, <4>1, <4>3, <4>4, FailingKeeps, EmptySeq
    <3>4. QED
      BY <3>2, <3>3
  <2>10. Shown' /\ Ended' /\ Retained'
    BY <1>0, <2>5 DEF IInv, Books, Shown, Ended, Retained
  <2>11. Books'
    BY <2>6, <2>7, <2>9, <2>10 DEF Books
  <2>12. QED
    BY <1>0, <1>4, <2>5, <2>9, <2>11 DEF IInv, Ranges
<1>8. QED
  BY <1>6, <1>7

\* The encoder answers: its output waits in the queue.
LEMMA EncodeStep ==
  ASSUME IInv, NEW answer \in Answers, Encode(answer)
  PROVE  IInv'
<1>0. /\ media \in Medias /\ media.g \in Gens /\ tasks \in Seq(Queued) /\ coding \in Seq(Coded)
      /\ coding # <<>> /\ ~media.closed /\ coding' = Tail(coding)
      /\ UNCHANGED <<monitor, capture, media, refiners, client>>
  BY MediaFields DEF IInv, Ranges, Encode
<1>1. Answering(media.g, coding, tasks) /\ Known(media.g, tasks, refiners)
  BY <1>0 DEF IInv, Books
<1>2. /\ Tail(coding) \in Seq(Coded) /\ Head(coding) \in Coded /\ Head(coding) = coding[1] /\ 1 \in 1..Len(coding)
      /\ Len(Tail(coding)) = Len(coding) - 1 /\ Len(coding) \in Nat
  BY <1>0, TailFacts
<1>3. /\ media.g.submitted # <<>> /\ Head(coding).generation = media.g.generation
      /\ Head(coding).picture = media.g.submitted[1].picture /\ Tail(coding) = <<>>
  <2>1. Len(coding) = 1
    <3>1. Len(coding) \in 1..Len(coding)
      BY <1>2
    <3>2. QED
      BY <1>1, <3>1 DEF Answering
  <2>2. Tail(coding) = <<>>
    <3>1. Len(Tail(coding)) = 0
      BY <1>2, <2>1
    <3>2. QED
      BY <1>2, <3>1, EmptySeq
  <2>3. QED
    BY <1>1, <1>2, <2>2 DEF Answering
<1>4. \A i \in 1..Len(tasks) : ~Mine(tasks[i], media.g)
  BY <1>0, <1>1 DEF Answering
<1>5. tasks' \in Seq(Queued) /\ Queues
  <2>1. CASE answer = "encoded"
    <3>1. PICK t : t = Output(Head(coding))
      OBVIOUS
    <3>2. t \in Queued /\ t.kind = "encoded" /\ t.generation = media.g.generation /\ t.picture = Head(coding).picture
      BY <1>2, <1>3, <3>1 DEF Output, Queued, Coded
    <3>3. tasks' = Append(tasks, t)
      BY <2>1, <3>1 DEF Encode
    <3>4. /\ tasks' \in Seq(Queued) /\ Len(tasks) \in Nat /\ tasks'[Len(tasks) + 1] = t
          /\ \A i \in 1..Len(tasks) : tasks'[i] = tasks[i]
          /\ \A i \in 1..Len(tasks') : i \in 1..Len(tasks) \/ i = Len(tasks) + 1
      BY <1>0, <3>2, <3>3, AppendFacts
    <3>5. \A i \in 1..Len(tasks') : Mine(tasks'[i], media.g) => i = Len(tasks) + 1
      BY <1>4, <3>4
    <3>6. Answering(media.g, <<>>, tasks')
      BY <1>3, <3>2, <3>4, <3>5, EmptySeq DEF Answering
    <3>7. media.g.generation <= media.g.generation
      BY <1>0 DEF Gens, Generations
    <3>8. Known(media.g, tasks', refiners)
      BY <1>1, <3>2, <3>4, <3>7 DEF Known
    <3>9. QED
      BY <1>0, <1>3, <3>4, <3>6, <3>8 DEF Queues
  <2>2. CASE answer # "encoded"
    <3>1. tasks' = Failing(tasks, media.g.generation)
      BY <2>2 DEF Encode
    <3>2. Answering(media.g, <<>>, tasks)
      BY <1>4, EmptySeq DEF Answering
    <3>3. QED
      BY <1>0, <1>1, <1>3, <3>1, <3>2, FailingKeeps DEF Queues
  <2>3. QED
    BY <2>1, <2>2
<1>6. Same(media') /\ SameFrame /\ Ended' /\ Retained'
  BY <1>0 DEF Same, SameFrame, Ended, Retained, IInv, Books
<1>7. Books'
  BY <1>5, <1>6, SameKeeps
<1>8. QED
  BY <1>0, <1>2, <1>5, <1>7 DEF IInv, Ranges

----------------------------------------------------------------------------
(* Refinement *)

\* A refinement begins, and a thread ends.
LEMMA TickStep ==
  ASSUME IInv, Tick
  PROVE  IInv'
<1>0. /\ media \in Medias /\ media.g \in Gens /\ media.latest \in Pictures /\ refiners \subseteq Coded
      /\ ~media.closed /\ UNCHANGED <<monitor, capture, coding, tasks, client>>
  BY MediaFields DEF IInv, Ranges, Tick
<1>1. PICK g : g = [media.g EXCEPT !.refining = TRUE]
  OBVIOUS
<1>2. /\ g \in Gens /\ g.generation = media.g.generation /\ g.issued = media.g.issued /\ g.acked = media.g.acked
      /\ g.submitted = media.g.submitted /\ g.busy = media.g.busy
  BY <1>0, <1>1 DEF Gens
<1>3. media' = [media EXCEPT !.g = g]
  BY <1>0, <1>1 DEF Tick, Medias
<1>4. media' \in Medias /\ media'.g = g /\ media'.closed = media.closed /\ media'.latest = media.latest
  BY <1>0, <1>2, <1>3, GenFields
<1>5. PICK r \in Coded : r = [generation |-> media.g.generation, picture |-> media.latest]
  BY <1>0 DEF Coded, Gens
<1>6. refiners' = refiners \cup {r} /\ r.generation <= media.g.generation
  BY <1>0, <1>5 DEF Tick, Gens, Generations
<1>7. Queues
  BY <1>0, <1>6 DEF Queues, Known, IInv, Books
<1>8. Same(media') /\ SameFrame /\ Ended' /\ Retained'
  BY <1>0, <1>2, <1>4 DEF Same, SameFrame, Ended, Retained, IInv, Books
<1>9. Books'
  BY <1>7, <1>8, SameKeeps
<1>10. QED
  BY <1>0, <1>4, <1>6, <1>9 DEF IInv, Ranges

\* A refinement, or its failure, waits in the queue.
LEMMA RefineStep ==
  ASSUME IInv, NEW r, NEW ok \in BOOLEAN, Refine(r, ok)
  PROVE  IInv'
<1>0. /\ tasks \in Seq(Queued) /\ r \in refiners /\ refiners' = refiners \ {r} /\ r \in Coded
      /\ UNCHANGED <<monitor, capture, media, coding, client>>
  BY DEF IInv, Ranges, Refine
<1>1. PICK t : t = [kind |-> IF ok THEN "refined" ELSE "unrefined",
                    generation |-> r.generation, picture |-> r.picture]
  OBVIOUS
<1>2. t \in Queued /\ t.kind # "encoded" /\ t.generation = r.generation
  BY <1>0, <1>1 DEF Coded, Queued
<1>3. tasks' = Append(tasks, t)
  BY <1>1 DEF Refine
<1>4. t.generation <= media.g.generation
  BY <1>0, <1>2 DEF IInv, Books, Known
<1>5. Known(media.g, tasks', refiners) /\ (~media.closed => Answering(media.g, coding, tasks'))
  BY <1>0, <1>2, <1>3, <1>4, AppendKeeps DEF IInv, Books
<1>6. Queues
  BY <1>0, <1>5 DEF Queues, Known
<1>7. Same(media') /\ SameFrame /\ Ended' /\ Retained'
  BY <1>0 DEF Same, SameFrame, Ended, Retained, IInv, Books
<1>8. Books'
  BY <1>6, <1>7, SameKeeps
<1>9. tasks' \in Seq(Queued)
  BY <1>0, <1>2, <1>3, AppendFacts
<1>10. QED
  BY <1>0, <1>8, <1>9 DEF IInv, Ranges

----------------------------------------------------------------------------
(* The idle queue *)

\* A task that changes nothing but the queue
LEMMA TaskOnly ==
  ASSUME IInv, tasks # <<>>, UNCHANGED <<monitor, capture, media, coding, refiners, client>>,
         \/ tasks' = Tail(tasks)
         \/ tasks' = Failing(Tail(tasks), media.g.generation)
  PROVE  IInv'
<1>0. tasks \in Seq(Queued) /\ media.g \in Gens
  BY MediaFields DEF IInv, Ranges
<1>1. Tail(tasks) \in Seq(Queued)
  BY <1>0, TailFacts
<1>2. tasks' \in Seq(Queued) /\ Queues
  BY <1>0, <1>1, TailKeeps, FailingKeeps DEF Queues, IInv, Books
<1>3. Same(media') /\ SameFrame /\ Ended' /\ Retained'
  BY DEF Same, SameFrame, Ended, Retained, IInv, Books
<1>4. Books'
  BY <1>2, <1>3, SameKeeps
<1>5. QED
  BY <1>2, <1>4 DEF IInv, Ranges

\* The output of the encoder is shown as the frame it was submitted as.
LEMMA PublishEncodedStep ==
  ASSUME IInv, tasks # <<>>, Head(tasks).kind = "encoded", NEW valid \in BOOLEAN,
         PublishEncoded(Head(tasks), valid), UNCHANGED <<monitor, capture, coding, refiners>>
  PROVE  IInv'
<1>0. /\ media \in Medias /\ media.g \in Gens /\ tasks \in Seq(Queued) /\ client \in Clients
      /\ media.g.submitted \in Seq(Sent)
  BY MediaFields DEF IInv, Ranges
<1>1. PICK task : task = Head(tasks)
  OBVIOUS
<1>2. /\ task \in Queued /\ task = tasks[1] /\ 1 \in 1..Len(tasks) /\ Tail(tasks) \in Seq(Queued)
      /\ \A i \in 1..Len(Tail(tasks)) : i + 1 \in 1..Len(tasks) /\ Tail(tasks)[i] = tasks[i + 1]
  BY <1>0, <1>1, TailFacts
<1>3. CASE Stale(task) \/ media.g.submitted = <<>> \/ ~valid
  <2>1. UNCHANGED <<media, client>>
        /\ (tasks' = Tail(tasks) \/ tasks' = Failing(Tail(tasks), media.g.generation))
    BY <1>1, <1>3 DEF PublishEncoded
  <2>2. QED
    BY <2>1, TaskOnly
<1>4. CASE ~(Stale(task) \/ media.g.submitted = <<>> \/ ~valid)
  <2>1. ~media.closed /\ Mine(task, media.g) /\ media.g.submitted # <<>>
    BY <1>1, <1>4 DEF Stale, Mine
  <2>2. /\ Shows(Head(media.g.submitted).frame, task.picture, Head(media.g.submitted).picture, FALSE)
        /\ media' = Schedule([media EXCEPT !.g.submitted = Tail(@), !.g.busy = FALSE])
        /\ tasks' = Tail(tasks)
    BY <1>1, <1>4 DEF PublishEncoded
  <2>3. Answering(media.g, coding, tasks) /\ Known(media.g, tasks, refiners) /\ Numbers(media.g, client.frame)
    BY <2>1 DEF IInv, Books
  <2>4. PICK first \in Sent : /\ first = Head(media.g.submitted) /\ first = media.g.submitted[1]
                              /\ first.frame = media.g.issued /\ media.g.issued = client.frame + 1
    BY <1>0, <2>1, <2>3, TailFacts DEF Numbers
  <2>5. task.picture = first.picture /\ coding = <<>>
    BY <1>2, <2>1, <2>3, <2>4 DEF Answering
  <2>6. Tail(media.g.submitted) = <<>>
    <3>1. /\ Tail(media.g.submitted) \in Seq(Sent) /\ Len(Tail(media.g.submitted)) = Len(media.g.submitted) - 1
          /\ Len(media.g.submitted) \in Nat /\ Len(media.g.submitted) <= 1
          /\ 1 \in 1..Len(media.g.submitted)
      BY <1>0, <2>1, <2>3, TailFacts DEF Numbers
    <3>2. ASSUME NEW n \in Nat, n <= 1, 1 \in 1..n PROVE n = 1
      BY <3>2
    <3>3. Len(media.g.submitted) = 1
      BY <3>1, <3>2
    <3>4. Len(Tail(media.g.submitted)) = 0
      BY <3>1, <3>3
    <3>5. QED
      BY <3>1, <3>4, EmptySeq
  <2>g. PICK g : g = [media.g EXCEPT !.submitted = <<>>, !.busy = FALSE]
    OBVIOUS
  <2>7. /\ g \in Gens /\ g.generation = media.g.generation /\ g.issued = media.g.issued
        /\ g.acked = media.g.acked /\ g.submitted = <<>> /\ ~g.busy
    <3>1. <<>> \in Seq(Sent)
      BY EmptySeq
    <3>2. QED
      BY <1>0, <2>g, <3>1 DEF Gens
  <2>8. PICK m \in Medias : /\ m = [media EXCEPT !.g = g] /\ m.g = g /\ m.closed = media.closed
                            /\ m.latest = media.latest
    BY <1>0, <2>7, GenFields
  <2>9. media' = Schedule(m)
    <3>1. [media EXCEPT !.g.submitted = Tail(@), !.g.busy = FALSE] = [media EXCEPT !.g = g]
      BY <1>0, <2>g, <2>6 DEF Medias, Gens
    <3>2. QED
      BY <2>2, <2>8, <3>1
  <2>10. /\ media' \in Medias /\ media'.closed = media.closed /\ media'.latest = media.latest
         /\ media'.g.generation = g.generation /\ media'.g.issued = g.issued /\ media'.g.acked = g.acked
         /\ media'.g.submitted = g.submitted /\ media'.g.busy = g.busy
    <3>1. /\ Schedule(m) \in Medias /\ Schedule(m).closed = m.closed /\ Schedule(m).latest = m.latest
          /\ Schedule(m).g.generation = m.g.generation /\ Schedule(m).g.issued = m.g.issued
          /\ Schedule(m).g.acked = m.g.acked /\ Schedule(m).g.submitted = m.g.submitted
          /\ Schedule(m).g.busy = m.g.busy
      BY ScheduleFacts
    <3>2. QED
      BY <2>8, <2>9, <3>1
  <2>11. /\ client' \in Clients /\ client'.frame = first.frame /\ client'.before = client.frame
         /\ client'.picture = task.picture /\ client'.submitted = first.picture
    <3>1. first.frame \in Nat /\ first.picture \in Pictures /\ client.frame \in Nat /\ task.picture \in Pictures
      BY <1>0, <1>2 DEF Sent, Clients, Queued
    <3>2. client' = [client EXCEPT !.frame = first.frame, !.before = client.frame, !.picture = task.picture,
                                   !.submitted = first.picture, !.exact = FALSE]
      BY <2>2, <2>4 DEF Shows
    <3>3. QED
      BY <1>0, <3>1, <3>2 DEF Clients
  <2>12. Numbers(media'.g, client'.frame)
    <3>1. Len(<<>>) = 0
      BY EmptySeq
    <3>2. client'.frame = media.g.issued /\ media.g.acked <= client.frame /\ media.g.issued = client.frame + 1
          /\ media.g.issued - media.g.acked <= Window /\ media.g.acked \in Nat /\ client.frame \in Nat
      BY <1>0, <2>3, <2>4, <2>11 DEF Numbers, Gens, Clients
    <3>3. media'.g.acked <= client'.frame /\ media'.g.issued - media'.g.acked <= Window
      BY <2>7, <2>10, <3>2
    <3>4. QED
      BY <2>7, <2>10, <3>1, <3>2, <3>3 DEF Numbers
  <2>13. Known(media'.g, tasks', refiners')
    <3>1. Known(media.g, Tail(tasks), refiners)
      BY <1>0, <2>3, TailKeeps
    <3>2. QED
      BY <2>2, <2>7, <2>10, <3>1 DEF Known
  <2>14. Answering(media'.g, coding', tasks')
    <3>1. ASSUME NEW i \in 1..Len(tasks'), Mine(tasks'[i], media.g) PROVE FALSE
      <4>1. i + 1 \in 1..Len(tasks) /\ Mine(tasks[i + 1], media.g) /\ i \in Nat /\ i # 0
        BY <1>2, <2>2, <3>1
      <4>2. 1 = i + 1
        BY <1>2, <2>1, <2>3, <4>1 DEF Answering
      <4>3. QED
        BY <4>1, <4>2
    <3>2. \A i \in 1..Len(tasks') : ~Mine(tasks'[i], media'.g)
      BY <2>7, <2>10, <3>1 DEF Mine
    <3>3. QED
      BY <2>5, <3>2, EmptySeq DEF Answering
  <2>15. Shown' /\ Ended' /\ Retained'
    <3>1. client'.frame > client'.before
      BY <1>0, <2>4, <2>11 DEF Clients
    <3>2. QED
      BY <2>1, <2>5, <2>10, <2>11, <3>1 DEF IInv, Books, Shown, Ended, Retained
  <2>16. Books'
    BY <2>12, <2>13, <2>14, <2>15 DEF Books
  <2>17. tasks' \in Seq(Queued)
    BY <1>2, <2>2
  <2>18. QED
    BY <2>10, <2>11, <2>16, <2>17 DEF IInv, Ranges
<1>5. QED
  BY <1>3, <1>4

\* A refinement is shown when nothing is on its way, and nothing has changed.
LEMMA PublishRefinedStep ==
  ASSUME IInv, tasks # <<>>, PublishRefined(Head(tasks)), UNCHANGED <<monitor, capture, coding, refiners>>
  PROVE  IInv'
<1>0. /\ media \in Medias /\ media.g \in Gens /\ tasks \in Seq(Queued) /\ client \in Clients
      /\ tasks' = Tail(tasks)
  BY MediaFields DEF IInv, Ranges, PublishRefined
<1>1. PICK task \in Queued : task = Head(tasks)
  BY <1>0, TailFacts
<1>2. tasks' \in Seq(Queued)
  BY <1>0, TailFacts
<1>g. PICK g : g = [media.g EXCEPT !.refining = FALSE]
  OBVIOUS
<1>3. /\ g \in Gens /\ g.generation = media.g.generation /\ g.issued = media.g.issued /\ g.acked = media.g.acked
      /\ g.submitted = media.g.submitted /\ g.busy = media.g.busy /\ g.scheduled = media.g.scheduled
  BY <1>0, <1>g DEF Gens
<1>4. \/ UNCHANGED <<media, client>>
      \/ media' = [media EXCEPT !.g = g] /\ UNCHANGED client
      \/ /\ ~Stale(task) /\ Pending(g) = 0
         /\ media' = [media EXCEPT !.g = [g EXCEPT !.refined = task.picture, !.issued = @ + 1]]
         /\ Shows(g.issued + 1, task.picture, task.picture, TRUE)
  BY <1>1, <1>g DEF PublishRefined
<1>5. Known(media.g, tasks', refiners) /\ (~media.closed => Answering(media.g, coding, tasks'))
  BY <1>0, TailKeeps DEF IInv, Books
<1>6. CASE UNCHANGED <<media, client>>
  BY <1>0, <1>6, TaskOnly
<1>7. CASE media' = [media EXCEPT !.g = g] /\ UNCHANGED client
  <2>1. media' \in Medias /\ media'.g = g /\ media'.closed = media.closed /\ media'.latest = media.latest
    BY <1>0, <1>3, <1>7, GenFields
  <2>2. Queues
    BY <1>5 DEF Queues, Known
  <2>3. Same(media') /\ SameFrame /\ Retained'
    BY <1>3, <1>7, <2>1 DEF Same, SameFrame, Retained, IInv, Books
  <2>5. Ended'
    BY <1>0, <1>3, <2>1 DEF Ended, IInv, Books
  <2>6. Books'
    BY <2>2, <2>3, <2>5, SameKeeps
  <2>7. QED
    BY <1>2, <1>7, <2>1, <2>6 DEF IInv, Ranges
<1>8. ASSUME ~Stale(task), Pending(g) = 0,
             media' = [media EXCEPT !.g = [g EXCEPT !.refined = task.picture, !.issued = @ + 1]],
             Shows(g.issued + 1, task.picture, task.picture, TRUE)
      PROVE  IInv'
  <2>1. ~media.closed /\ Numbers(media.g, client.frame)
    BY <1>8 DEF Stale, IInv, Books
  <2>2. g.issued \in Nat /\ g.acked \in Nat /\ client.frame \in Nat /\ task.picture \in Pictures
    BY <1>0, <1>1, <1>3 DEF Gens, Clients, Queued
  <2>3. g.issued = g.acked
    BY <1>8, <2>2 DEF Pending
  <2>4. g.submitted = <<>> /\ client.frame = g.issued
    BY <1>3, <2>1, <2>2, <2>3 DEF Numbers
  <2>5. PICK n \in Nat : n = g.issued + 1
    BY <2>2
  <2>h. PICK h : h = [g EXCEPT !.refined = task.picture, !.issued = n]
    OBVIOUS
  <2>6. /\ h \in Gens /\ h.generation = g.generation /\ h.issued = n /\ h.acked = g.acked
        /\ h.submitted = g.submitted /\ h.busy = g.busy
    BY <1>3, <2>2, <2>h DEF Gens
  <2>7. media' = [media EXCEPT !.g = h]
    BY <1>3, <1>8, <2>5, <2>h DEF Gens
  <2>8. media' \in Medias /\ media'.g = h /\ media'.closed = media.closed /\ media'.latest = media.latest
    BY <1>0, <2>6, <2>7, GenFields
  <2>9. /\ client' \in Clients /\ client'.frame = n /\ client'.before = client.frame
        /\ client'.picture = task.picture /\ client'.submitted = task.picture
    <3>1. client' = [client EXCEPT !.frame = n, !.before = client.frame, !.picture = task.picture,
                                   !.submitted = task.picture, !.exact = TRUE]
      BY <1>8, <2>5 DEF Shows
    <3>2. QED
      BY <1>0, <2>2, <3>1 DEF Clients
  <2>10. Numbers(h, n)
    <3>1. ~h.busy /\ h.submitted = <<>> /\ Len(h.submitted) = 0
      BY <1>3, <2>1, <2>4, <2>6, EmptySeq DEF Numbers
    <3>2. h.acked <= n /\ h.issued - h.acked <= Window
      BY <2>2, <2>3, <2>5, <2>6, Bounds
    <3>3. QED
      BY <2>6, <3>1, <3>2 DEF Numbers
  <2>11. Known(h, tasks', refiners') /\ Answering(h, coding', tasks')
    BY <1>3, <1>5, <2>1, <2>6 DEF Known, Answering, Mine
  <2>12. Shown' /\ Ended' /\ Retained'
    BY <2>1, <2>2, <2>4, <2>5, <2>8, <2>9 DEF IInv, Books, Shown, Ended, Retained
  <2>13. Books'
    BY <2>8, <2>9, <2>10, <2>11, <2>12 DEF Books
  <2>14. QED
    BY <1>2, <2>8, <2>9, <2>13 DEF IInv, Ranges
<1>9. QED
  BY <1>4, <1>6, <1>7, <1>8

----------------------------------------------------------------------------
(* The owner *)

\* What close leaves of a generation
LEMMA ClosedFacts ==
  ASSUME NEW m \in Medias
  PROVE  /\ Closed(m) \in Medias /\ Closed(m).closed /\ Closed(m).latest = 0
         /\ Closed(m).g = [Fresh EXCEPT !.generation = m.g.generation]
<1>1. PICK n \in Generations : n = m.g.generation
  BY MediaFields
<1>2. PICK g \in Gens : g = [Fresh EXCEPT !.generation = n]
  BY FreshOK
<1>3. Closed(m) = [m EXCEPT !.closed = TRUE, !.valid = TRUE, !.latest = 0, !.settled = FALSE,
                            !.pointing = FALSE, !.g = g]
  BY <1>1, <1>2, Zenon DEF Closed
<1>4. /\ Closed(m) \in Medias /\ Closed(m).closed /\ Closed(m).latest = 0 /\ Closed(m).g = g
  BY <1>3, Bounds DEF Medias
<1>5. QED
  BY <1>1, <1>2, <1>4

\* A generation without frames, whose client has none, and without codes
LEMMA FreshNumbers ==
  ASSUME NEW n \in Generations
  PROVE  Numbers([Fresh EXCEPT !.generation = n], 0)
<1>1. PICK g \in Gens : /\ g = [Fresh EXCEPT !.generation = n] /\ g.issued = 0 /\ g.acked = 0
                        /\ g.submitted = <<>> /\ ~g.busy
  BY FreshOK
<1>2. Len(g.submitted) = 0
  BY <1>1, EmptySeq
<1>3. Numbers(g, 0)
  BY <1>1, <1>2, Bounds DEF Numbers
<1>4. QED
  BY <1>1, <1>3

\* The generation is closed: of what is queued nothing is of a later one.
LEMMA ClosesStep ==
  ASSUME IInv, Closes, UNCHANGED <<monitor, refiners>>,
         tasks' = tasks \/ (tasks # <<>> /\ tasks' = Tail(tasks))
  PROVE  IInv'
<1>0. /\ media \in Medias /\ media.g \in Gens /\ media.g.generation \in Generations /\ tasks \in Seq(Queued)
      /\ capture.kind \in Sources /\ media' = Closed(media) /\ coding' = <<>> /\ client' = NoFrame
  BY MediaFields DEF IInv, Ranges, Captures, Closes
<1>1. PICK n \in Generations : n = media.g.generation
  BY <1>0
<1>2. PICK g \in Gens : /\ g = [Fresh EXCEPT !.generation = n] /\ g.generation = n /\ ~g.scheduled
                        /\ Numbers(g, 0)
  BY FreshOK, FreshNumbers
<1>3. media' \in Medias /\ media'.closed /\ media'.latest = 0 /\ media'.g = g
  BY <1>0, <1>1, <1>2, ClosedFacts
<1>4. client' \in Clients /\ client'.frame = 0
  BY <1>0, NoFrameOK
<1>5. capture' \in Captures /\ Retained'
  <2>1. PICK kind \in Sources : kind = capture.kind
    BY <1>0
  <2>2. capture' = Idle(kind)
    BY <2>1 DEF Closes
  <2>3. QED
    BY <2>2, IdleOK DEF Retained
<1>6. tasks' \in Seq(Queued) /\ Known(media.g, tasks', refiners')
  BY <1>0, TailFacts, TailKeeps DEF IInv, Books
<1>7. Known(g, tasks', refiners')
  BY <1>1, <1>2, <1>6 DEF Known
<1>8. Books'
  BY <1>0, <1>2, <1>3, <1>4, <1>5, <1>7 DEF Books, Shown, Ended
<1>9. coding' \in Seq(Coded) /\ media'.latest <= monitor'.picture
  BY <1>0, <1>3, EmptySeq DEF IInv, Ranges, Monitors
<1>10. QED
  BY <1>3, <1>4, <1>5, <1>6, <1>8, <1>9 DEF IInv, Ranges

\* A task of any kind
LEMMA TaskStep ==
  ASSUME IInv, Task
  PROVE  IInv'
<1>0. tasks # <<>> /\ UNCHANGED <<monitor, refiners>>
  BY DEF Task
<1>1. PICK task : task = Head(tasks)
  OBVIOUS
<1>2. \/ task.kind = "encoded" /\ (\E valid \in BOOLEAN : PublishEncoded(task, valid)) /\ UNCHANGED <<coding, capture>>
      \/ task.kind = "refined" /\ PublishRefined(task) /\ UNCHANGED <<coding, capture>>
      \/ task.kind = "unrefined" /\ Unrefined(task) /\ UNCHANGED <<coding, capture>>
      \/ task.kind = "failed" /\ OwnerHears(task)
  BY <1>1 DEF Task
<1>3. CASE task.kind = "encoded" /\ (\E valid \in BOOLEAN : PublishEncoded(task, valid)) /\ UNCHANGED <<coding, capture>>
  BY <1>0, <1>1, <1>3, PublishEncodedStep
<1>4. CASE task.kind = "refined" /\ PublishRefined(task) /\ UNCHANGED <<coding, capture>>
  BY <1>0, <1>1, <1>4, PublishRefinedStep
<1>5. CASE task.kind = "unrefined" /\ Unrefined(task) /\ UNCHANGED <<coding, capture>>
  <2>1. UNCHANGED <<media, client>>
        /\ (tasks' = Tail(tasks) \/ tasks' = Failing(Tail(tasks), media.g.generation))
    BY <1>5, Zenon DEF Unrefined
  <2>2. QED
    BY <1>0, <1>5, <2>1, TaskOnly
<1>6. CASE task.kind = "failed" /\ OwnerHears(task)
  <2>1. tasks' = Tail(tasks) /\ (UNCHANGED <<media, coding, capture, client>> \/ Closes)
    BY <1>6, Zenon DEF OwnerHears
  <2>2. CASE UNCHANGED <<media, coding, capture, client>>
    BY <1>0, <2>1, <2>2, TaskOnly
  <2>3. CASE Closes
    BY <1>0, <2>1, <2>3, ClosesStep
  <2>4. QED
    BY <2>1, <2>2, <2>3
<1>7. QED
  BY <1>2, <1>3, <1>4, <1>5, <1>6

\* The owner closes the generation.
LEMMA CloseStep ==
  ASSUME IInv, Close
  PROVE  IInv'
<1>1. Closes /\ UNCHANGED <<monitor, refiners, tasks>>
  BY DEF Close
<1>2. QED
  BY <1>1, ClosesStep

\* The client acknowledges a frame that it has.
LEMMA AcknowledgeStep ==
  ASSUME IInv, NEW frame \in 1..client.frame, Acknowledge(frame)
  PROVE  IInv'
<1>0. /\ media \in Medias /\ media.g \in Gens /\ client \in Clients /\ media.g.issued \in Nat
      /\ media.g.acked \in Nat /\ client.frame \in Nat /\ ~media.closed
      /\ UNCHANGED <<monitor, capture, coding, refiners, tasks, client>>
      /\ frame \in media.g.acked + 1 .. client.frame
  BY MediaFields DEF IInv, Ranges, Acknowledge, Clients
<1>1. PICK n \in Nat : n = frame /\ n > media.g.acked /\ n <= client.frame
  BY <1>0
<1>g. PICK g : g = [media.g EXCEPT !.acked = n]
  OBVIOUS
<1>2. /\ g \in Gens /\ g.generation = media.g.generation /\ g.issued = media.g.issued /\ g.acked = n
      /\ g.submitted = media.g.submitted /\ g.busy = media.g.busy
  BY <1>0, <1>g DEF Gens
<1>3. PICK m \in Medias : /\ m = [media EXCEPT !.g = g] /\ m.g = g /\ m.closed = media.closed
                          /\ m.latest = media.latest
  BY <1>0, <1>2, GenFields
<1>4. media' = Schedule(m)
  <2>1. [media EXCEPT !.g.acked = n] = [media EXCEPT !.g = g]
    BY <1>0, <1>g DEF Medias, Gens
  <2>2. QED
    BY <1>1, <1>3, <2>1 DEF Acknowledge
<1>5. /\ media' \in Medias /\ media'.closed = media.closed /\ media'.latest = media.latest
      /\ media'.g.generation = media.g.generation /\ media'.g.issued = media.g.issued /\ media'.g.acked = n
      /\ media'.g.submitted = media.g.submitted /\ media'.g.busy = media.g.busy
  <2>1. /\ Schedule(m) \in Medias /\ Schedule(m).closed = m.closed /\ Schedule(m).latest = m.latest
        /\ Schedule(m).g.generation = m.g.generation /\ Schedule(m).g.issued = m.g.issued
        /\ Schedule(m).g.acked = m.g.acked /\ Schedule(m).g.submitted = m.g.submitted
        /\ Schedule(m).g.busy = m.g.busy
    BY ScheduleFacts
  <2>2. QED
    BY <1>2, <1>3, <1>4, <2>1
<1>6. Numbers(media'.g, client'.frame)
  <2>1. Numbers(media.g, client.frame)
    BY DEF IInv, Books
  <2>2. media.g.issued - media.g.acked <= Window
    BY <2>1 DEF Numbers
  <2>3. media.g.issued - n <= Window
    BY <1>0, <1>1, <2>2, Bounds
  <2>4. QED
    BY <1>0, <1>1, <1>5, <2>1, <2>3 DEF Numbers
<1>7. Known(media'.g, tasks', refiners') /\ Answering(media'.g, coding', tasks')
  BY <1>0, <1>5 DEF IInv, Books, Known, Answering, Mine
<1>8. Shown' /\ Ended' /\ Retained'
  BY <1>0, <1>5 DEF IInv, Books, Shown, Ended, Retained
<1>9. Books'
  BY <1>6, <1>7, <1>8 DEF Books
<1>10. QED
  BY <1>0, <1>5, <1>9 DEF IInv, Ranges

\* The decoder recovers: nothing that is queued is of the generation that begins.
LEMMA RecoverStep ==
  ASSUME IInv, Recover
  PROVE  IInv'
<1>0. /\ media \in Medias /\ media.g \in Gens /\ media.g.generation \in Generations /\ tasks \in Seq(Queued)
      /\ ~media.closed /\ media.g.generation < MaxGenerations /\ media' = Recovered(media)
      /\ coding' = <<>> /\ client' = NoFrame /\ UNCHANGED <<monitor, capture, refiners, tasks>>
  BY MediaFields DEF IInv, Ranges, Recover
<1>1. PICK n \in Generations : n = media.g.generation + 1 /\ n > media.g.generation
  BY <1>0, Bounds DEF Generations
<1>2. PICK g \in Gens : /\ g = [Fresh EXCEPT !.generation = n] /\ g.generation = n /\ Numbers(g, 0)
  BY FreshOK, FreshNumbers
<1>3. PICK b \in BOOLEAN : b = (media.cursor # 0)
  OBVIOUS
<1>m. PICK m : m = [media EXCEPT !.g = g, !.pointing = b]
  OBVIOUS
<1>4. m \in Medias /\ m.g = g /\ m.closed = media.closed /\ m.latest = media.latest
  BY <1>0, <1>2, <1>m DEF Medias
<1>5. media' = Schedule(m)
  BY <1>0, <1>1, <1>2, <1>3, <1>m DEF Recovered
<1>6. /\ media' \in Medias /\ ~media'.closed /\ media'.latest = media.latest
      /\ media'.g.generation = n /\ media'.g.issued = g.issued /\ media'.g.acked = g.acked
      /\ media'.g.submitted = g.submitted /\ media'.g.busy = g.busy
  <2>1. /\ Schedule(m) \in Medias /\ Schedule(m).closed = m.closed /\ Schedule(m).latest = m.latest
        /\ Schedule(m).g.generation = m.g.generation /\ Schedule(m).g.issued = m.g.issued
        /\ Schedule(m).g.acked = m.g.acked /\ Schedule(m).g.submitted = m.g.submitted
        /\ Schedule(m).g.busy = m.g.busy
    BY <1>4, ScheduleFacts
  <2>2. QED
    BY <1>0, <1>2, <1>4, <1>5, <2>1
<1>7. client' \in Clients /\ client'.frame = 0
  BY <1>0, NoFrameOK
<1>8. Numbers(media'.g, client'.frame)
  BY <1>2, <1>6, <1>7 DEF Numbers
<1>9. Known(media.g, tasks, refiners)
  BY DEF IInv, Books
<1>10. (\A i \in 1..Len(tasks) : tasks[i].generation < n) /\ (\A r \in refiners : r.generation < n)
  <2>1. ASSUME NEW i \in 1..Len(tasks) PROVE tasks[i].generation < n
    <3>1. tasks[i] \in Queued
      BY <1>0, ElementOfSeq
    <3>2. QED
      BY <1>0, <1>1, <1>9, <3>1 DEF Known, Queued, Generations
  <2>2. ASSUME NEW r \in refiners PROVE r.generation < n
    <3>1. r \in Coded
      BY DEF IInv, Ranges
    <3>2. QED
      BY <1>0, <1>1, <1>9, <3>1 DEF Known, Coded, Generations
  <2>3. QED
    BY <2>1, <2>2
<1>11. Known(media'.g, tasks', refiners')
  <2>1. ASSUME NEW i \in 1..Len(tasks) PROVE tasks[i].generation <= n
    <3>1. tasks[i] \in Queued
      BY <1>0, ElementOfSeq
    <3>2. QED
      BY <1>10, <3>1 DEF Queued, Generations
  <2>2. ASSUME NEW r \in refiners PROVE r.generation <= n
    <3>1. r \in Coded
      BY DEF IInv, Ranges
    <3>2. QED
      BY <1>10, <3>1 DEF Coded, Generations
  <2>3. QED
    BY <1>0, <1>6, <2>1, <2>2 DEF Known
<1>12. Answering(media'.g, coding', tasks')
  <2>1. ASSUME NEW i \in 1..Len(tasks) PROVE ~Mine(tasks[i], media'.g)
    <3>1. tasks[i].generation < n /\ n \in Nat
      BY <1>10 DEF Generations
    <3>2. tasks[i].generation # n
      BY <3>1
    <3>3. QED
      BY <1>6, <3>2 DEF Mine
  <2>2. QED
    BY <1>0, <2>1, EmptySeq DEF Answering
<1>13. Shown' /\ Ended' /\ Retained'
  BY <1>0, <1>6, <1>7 DEF IInv, Books, Shown, Ended, Retained
<1>14. Books'
  BY <1>8, <1>11, <1>12, <1>13 DEF Books
<1>15. QED
  BY <1>0, <1>6, <1>7, <1>14, EmptySeq DEF IInv, Ranges

----------------------------------------------------------------------------
(* The invariant *)

\* The books are in order as the capture starts.
LEMMA InitIInv == Init => IInv
<1> SUFFICES ASSUME Init PROVE IInv
  OBVIOUS
<1>1. PICK kind \in Sources : capture = Idle(kind)
  BY DEF Init
<1>2. capture \in Captures /\ Retained
  BY <1>1, IdleOK DEF Retained
<1>3. PICK g \in Gens : /\ g = Fresh /\ g.generation = 1 /\ ~g.scheduled /\ g.issued = 0 /\ g.acked = 0
                        /\ g.submitted = <<>> /\ ~g.busy
  BY FreshOK, Bounds
<1>4. /\ media = [closed |-> FALSE, valid |-> TRUE, latest |-> 0, settled |-> FALSE,
                  cursor |-> 0, pointing |-> FALSE, g |-> g]
      /\ monitor = [picture |-> 1, cursor |-> 0] /\ coding = <<>> /\ refiners = {} /\ tasks = <<>>
      /\ client = NoFrame
  BY <1>3 DEF Init
<1>5. media \in Medias /\ media.g = g /\ media.latest = 0 /\ ~media.closed
  BY <1>4, Bounds DEF Medias
<1>6. monitor \in Monitors /\ monitor.picture = 1
  BY <1>4, Bounds DEF Monitors
<1>7. client \in Clients /\ client.frame = 0
  BY <1>4, NoFrameOK
<1>8. Numbers(media.g, client.frame)
  <2>1. Len(g.submitted) = 0
    BY <1>3, EmptySeq
  <2>2. QED
    BY <1>3, <1>5, <1>7, <2>1, Bounds DEF Numbers
<1>9. Known(media.g, tasks, refiners) /\ Answering(media.g, coding, tasks)
  BY <1>4, EmptySeq DEF Known, Answering
<1>10. Books
  BY <1>2, <1>4, <1>5, <1>7, <1>8, <1>9 DEF Books, Shown, Ended
<1>11. coding \in Seq(Coded) /\ tasks \in Seq(Queued)
  BY <1>4, EmptySeq
<1>12. QED
  BY <1>2, <1>4, <1>5, <1>6, <1>7, <1>10, <1>11 DEF IInv, Ranges

\* Each step keeps them.
LEMMA NextIInv == IInv /\ [Next]_vars => IInv'
<1> SUFFICES ASSUME IInv, [Next]_vars PROVE IInv'
  OBVIOUS
<1>1. ASSUME UNCHANGED vars PROVE IInv'
  BY <1>1 DEF vars, IInv, Ranges, Books, Numbers, Known, Answering, Mine, Shown, Ended, Retained
<1>2. CASE (\E frame \in Frames : Buffer(frame)) \/ Lost \/ Sample \/ Captured
  BY <1>2, PictureSteps
<1>3. CASE Change \/ Interact \/ Settle \/ CursorShape \/ PublishCursor
  BY <1>3, MonitorSteps
<1>4. CASE Tick
  BY <1>4, TickStep
<1>5. CASE Task
  BY <1>5, TaskStep
<1>6. CASE Close
  BY <1>6, CloseStep
<1>7. CASE Recover
  BY <1>7, RecoverStep
<1>8. ASSUME NEW valid \in BOOLEAN, CaptureFails(valid) PROVE IInv'
  BY <1>8, CaptureFailsStep
<1>9. ASSUME NEW outcome \in Outcomes, Produce(outcome) PROVE IInv'
  BY <1>9, ProduceStep
<1>10. ASSUME NEW answer \in Answers, Encode(answer) PROVE IInv'
  BY <1>10, EncodeStep
<1>11. ASSUME NEW r \in refiners, NEW ok \in BOOLEAN, Refine(r, ok) PROVE IInv'
  BY <1>11, RefineStep
<1>12. ASSUME NEW frame \in 1..client.frame, Acknowledge(frame) PROVE IInv'
  BY <1>12, AcknowledgeStep
<1>13. QED
  BY <1>1, <1>2, <1>3, <1>4, <1>5, <1>6, <1>7, <1>8, <1>9, <1>10, <1>11, <1>12 DEF Next

\* What the books say of the frames
LEMMA BooksInOrder == IInv => FramesInOrder
<1> SUFFICES ASSUME IInv PROVE FramesInOrder
  OBVIOUS
<1>0. /\ monitor \in Monitors /\ capture \in Captures /\ media \in Medias /\ coding \in Seq(Coded)
      /\ client \in Clients /\ media.g \in Gens /\ media.latest \in Pictures /\ media.g.generation \in Generations
      /\ media.g.issued \in Nat /\ media.g.acked \in Nat /\ client.frame \in Nat
  BY MediaFields DEF IInv, Ranges, Clients
<1>1. Numbers(media.g, client.frame)
  BY DEF IInv, Books
<1>2. media.g.acked <= client.frame /\ client.frame <= media.g.issued /\ media.g.issued - media.g.acked <= Window
  <2>1. client.frame = media.g.issued \/ media.g.issued = client.frame + 1
    BY <1>1 DEF Numbers
  <2>2. QED
    BY <1>0, <1>1, <2>1 DEF Numbers
<1>3. TypeOK
  <2>1. media.latest \in 0..monitor.picture /\ media.g.acked <= media.g.issued
    BY <1>0, <1>2 DEF IInv, Ranges, Pictures, Monitors
  <2>2. QED
    BY <1>0, <2>1 DEF TypeOK, Monitors, Captures, Generations, Pictures
<1>4. ~media.closed => Len(coding) <= 1
  <2>1. ASSUME ~media.closed, Len(coding) > 1 PROVE FALSE
    <3>1. Len(coding) \in Nat
      BY <1>0, LenProperties
    <3>2. 2 \in 1..Len(coding)
      BY <2>1, <3>1
    <3>3. QED
      BY <2>1, <3>2 DEF IInv, Books, Answering
  <2>2. Len(coding) \in Nat
    BY <1>0, LenProperties
  <2>3. QED
    BY <2>1, <2>2
<1>5. QED
  BY <1>2, <1>3, <1>4 DEF FramesInOrder, Pending, IInv, Books, Shown, Retained

\* The frames of a generation are shown in order, within the window, and each is the
\* picture that was submitted as it, over losses, recoveries and refinements that are late
\* (publish, recover and _buffer).
THEOREM FramesInOrderHolds == Spec => []FramesInOrder
<1>1. Spec => []IInv
  BY InitIInv, NextIInv, PTL DEF Spec
<1>2. QED
  BY <1>1, BooksInOrder, PTL
=============================================================================
