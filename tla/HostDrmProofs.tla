---------------------------- MODULE HostDrmProofs ----------------------------
(***************************************************************************)
(* Proofs about HostDrm, for any generations, events and capacity of the   *)
(* Writer.                                                                 *)
(*                                                                         *)
(* NothingOlder is not inductive: that a generation shows nothing older    *)
(* than it needs the age of all that is under way (Newer), that nothing of *)
(* it is of an epoch to come, and so that the epoch of the capture and the *)
(* generation of the login service differ by the configures that wait in   *)
(* the idle queue (Epochs); that it shows one size needs what a capture    *)
(* that lost its size may still do (Sized).                                *)
(***************************************************************************)
EXTENDS HostDrm, FiniteSetTheorems, SequenceTheorems, TLAPS

\* What the records hold
Pointers == {Hidden} \cup Places
Sizes == {0, 1, 2}
Screens == [picture : Nat, size : {1, 2}, light : {"lit", "asleep", "lapsed"}, pointer : Pointers,
            events : Nat, hid : Nat]
Samples == [epoch : Nat, picture : Nat, size : {1, 2}]
Pointings == [epoch : Nat, pointer : Pointers, shaped : BOOLEAN]
Captures == [epoch : Nat, enabled : BOOLEAN, probing : BOOLEAN, reset : BOOLEAN, settling : BOOLEAN,
             size : Sizes, previous : Nat, seen : SUBSET Pointers, shape : Nat,
             sample : SUBSET Samples, pointer : SUBSET Pointings]
Grabbing == [at : {"loop", "export", "dark", "check", "stopped"}, enabled : BOOLEAN, probe : BOOLEAN,
             epoch : Nat, reset : BOOLEAN, picture : Nat, size : Sizes]
Pointing == [at : {"loop", "queue", "stopped"}, epoch : Nat, pointer : Pointers]
Kinds == {"configure", "probe", "probed", "sample", "pointer", "geometry", "suspended", "failed"}
Said == [kind : Kinds, epoch : Nat, reset : BOOLEAN]
Workers == [media : BOOLEAN, epoch : Nat, latest : Nat, size : Sizes, failed : BOOLEAN]
Messages == [kind : {"capabilities", "frame", "cursor", "displays", "inactive", "error"}, generation : Nat,
             picture : Nat, pointer : Pointers, shaped : BOOLEAN]
Outputs == [queue : Seq(Messages), closed : BOOLEAN]
Paints == [picture : Nat, pointer : Pointers, shaped : BOOLEAN]
Owners == [generation : 0..MaxGenerations, from : Nat, waking : BOOLEAN, probing : BOOLEAN, over : BOOLEAN,
           shown : Paints]

Ranges == /\ screen \in Screens /\ capture \in Captures /\ grab \in Grabbing /\ point \in Pointing
          /\ tasks \in Seq(Said) /\ worker \in Workers /\ output \in Outputs /\ owner \in Owners

\* Each configure that waits in the queue is one generation that the capture has yet to begin.
Counts(number, queue, first, last) ==
  /\ number[0] = first /\ number[Len(queue)] = last
  /\ \A i \in 1..Len(queue) :
       number[i] = IF queue[i].kind = "configure" THEN number[i - 1] + 1 ELSE number[i - 1]
Configuring(queue, first, last) == \E number \in [0..Len(queue) -> 0..last] : Counts(number, queue, first, last)

Epochs == /\ worker.epoch = capture.epoch /\ capture.epoch <= owner.generation
          /\ Running => Configuring(tasks, capture.epoch, owner.generation)

\* What is under way is of no epoch to come, and nothing of the generation that the
\* login service counts is older than it.
Since(c, o, epoch, picture) == epoch <= c.epoch /\ (epoch = o.generation => picture >= o.from)
GrabNewer(c, o, g) == g.epoch <= c.epoch /\ (g.at = "check" => Since(c, o, g.epoch, g.picture) /\ g.size # 0)
SampleNewer(c, o, samples) == \A s \in samples : Since(c, o, s.epoch, s.picture)
Fits(c, o, m) == m.generation <= c.epoch /\ (m.kind = "frame" => Since(c, o, m.generation, m.picture))
QueueNewer(c, o, queue) == \A i \in 1..Len(queue) : Fits(c, o, queue[i])

Newer == /\ owner.from <= screen.picture
         /\ GrabNewer(capture, owner, grab) /\ SampleNewer(capture, owner, capture.sample)
         /\ QueueNewer(capture, owner, output.queue)
         /\ owner.shown.picture # 0 => owner.shown.picture >= owner.from

\* What is queued and what is shown have the size of the capture; one that has lost it
\* takes nothing more for the generation that is open.
Sizing(c, g, w) ==
  /\ \A s \in c.sample : s.size = c.size
  /\ w.media /\ w.latest # 0 /\ c.size # 0 => w.size = c.size
  /\ w.media /\ w.latest # 0 /\ c.size = 0 => ~c.enabled /\ ~(g.enabled /\ g.epoch = c.epoch)
Sized == Sizing(capture, grab, worker)

\* One picture and one pointer are pending, and the Writer is bounded.
Lone(set) == \A s, t \in set : s = t
Single == Lone(capture.sample) /\ Lone(capture.pointer) /\ Len(output.queue) <= Capacity

IInv == Ranges /\ Epochs /\ Newer /\ Sized /\ Single

----------------------------------------------------------------------------
(* The constants, the queues and the records *)

\* The bounds, and what is in the sets of values
LEMMA Bounds ==
  /\ MaxGenerations \in Nat \ {0} /\ MaxEvents \in Nat \ {0} /\ Capacity \in Nat \ {0}
  /\ Hidden \in Pointers /\ 1 \in Pointers /\ 0 \in Sizes /\ {1, 2} \subseteq Sizes /\ 0 \in 0..MaxGenerations
BY BoundsAssumption DEF Pointers, Places, Sizes

\* What a first task does to the queue
LEMMA TailFacts ==
  ASSUME NEW S, NEW queue \in Seq(S), queue # <<>>
  PROVE  /\ Tail(queue) \in Seq(S) /\ Head(queue) \in S /\ Head(queue) = queue[1] /\ 1 \in 1..Len(queue)
         /\ Len(queue) \in Nat /\ Len(Tail(queue)) = Len(queue) - 1
         /\ \A i \in 1..Len(Tail(queue)) : i + 1 \in 1..Len(queue) /\ Tail(queue)[i] = queue[i + 1]
<1>1. Len(queue) \in Nat /\ Len(queue) # 0
  BY LenProperties, EmptySeq
<1>2. Tail(queue) \in Seq(S) /\ Head(queue) \in S /\ Head(queue) = queue[1] /\ Len(Tail(queue)) = Len(queue) - 1
      /\ \A i \in 1..Len(Tail(queue)) : Tail(queue)[i] = queue[i + 1]
  BY <1>1, HeadTailProperties
<1>3. QED
  BY <1>1, <1>2

\* and what one more does.
LEMMA AppendFacts ==
  ASSUME NEW S, NEW queue \in Seq(S), NEW t \in S
  PROVE  /\ Append(queue, t) \in Seq(S) /\ Append(queue, t) # <<>> /\ Len(queue) \in Nat
         /\ Len(Append(queue, t)) = Len(queue) + 1 /\ Append(queue, t)[Len(queue) + 1] = t
         /\ \A i \in 1..Len(queue) : Append(queue, t)[i] = queue[i]
         /\ \A i \in 1..Len(Append(queue, t)) : i \in 1..Len(queue) \/ i = Len(queue) + 1
BY AppendProperties, LenProperties, EmptySeq

\* A count goes on without the first task: with one configure less, the first is a
\* generation later.
LEMMA TailCounts ==
  ASSUME NEW queue \in Seq(Said), queue # <<>>, NEW first \in Nat, NEW last \in Nat,
         Configuring(queue, first, last)
  PROVE  /\ Head(queue).kind # "configure" => Configuring(Tail(queue), first, last)
         /\ Head(queue).kind = "configure" => first + 1 <= last /\ Configuring(Tail(queue), first + 1, last)
<1>1. PICK number \in [0..Len(queue) -> 0..last] : Counts(number, queue, first, last)
  BY DEF Configuring
<1>2. PICK n \in Nat : n = Len(Tail(queue)) /\ Len(queue) = n + 1
  <2>1. Len(Tail(queue)) \in Nat /\ Len(Tail(queue)) = Len(queue) - 1 /\ Len(queue) \in Nat
    BY TailFacts, LenProperties
  <2>2. Len(queue) = Len(Tail(queue)) + 1
    BY <2>1
  <2>3. QED
    BY <2>1, <2>2, Zenon
<1>3. number \in [0..(n + 1) -> 0..last] /\ number[0] = first /\ number[n + 1] = last
      /\ \A i \in 1..(n + 1) :
           number[i] = IF queue[i].kind = "configure" THEN number[i - 1] + 1 ELSE number[i - 1]
  BY <1>1, <1>2 DEF Counts
<1>4. Head(queue) = queue[1] /\ \A i \in 1..n : Tail(queue)[i] = queue[i + 1]
  BY <1>2, TailFacts
<1> DEFINE rest == [i \in 0..n |-> number[i + 1]]
<1>5. rest \in [0..n -> 0..last] /\ rest[0] = number[1] /\ rest[n] = last
  BY <1>3
<1>6. \A i \in 1..n : rest[i] = IF Tail(queue)[i].kind = "configure" THEN rest[i - 1] + 1 ELSE rest[i - 1]
  <2> SUFFICES ASSUME NEW i \in 1..n
               PROVE  rest[i] = IF Tail(queue)[i].kind = "configure" THEN rest[i - 1] + 1 ELSE rest[i - 1]
    OBVIOUS
  <2>1. rest[i] = number[i + 1] /\ rest[i - 1] = number[i] /\ i + 1 \in 1..(n + 1) /\ (i + 1) - 1 = i
    OBVIOUS
  <2>2. QED
    BY <1>3, <1>4, <2>1
<1> HIDE DEF rest
<1>7. Configuring(Tail(queue), number[1], last)
  BY <1>2, <1>5, <1>6 DEF Configuring, Counts
<1>8. number[1] = (IF queue[1].kind = "configure" THEN first + 1 ELSE first) /\ number[1] <= last
  <2>1. 1 \in 1..(n + 1) /\ 1 \in 0..(n + 1) /\ 1 - 1 = 0
    OBVIOUS
  <2>2. number[1] \in 0..last
    BY <1>3, <2>1
  <2>3. QED
    BY <1>3, <2>1, <2>2
<1>9. QED
  BY <1>4, <1>7, <1>8

\* A count goes on with one more task: with one more configure, the last is a
\* generation later.
LEMMA AppendCounts ==
  ASSUME NEW queue \in Seq(Said), NEW t \in Said, NEW first \in Nat, NEW last \in Nat,
         Configuring(queue, first, last)
  PROVE  /\ t.kind # "configure" => Configuring(Append(queue, t), first, last)
         /\ t.kind = "configure" => Configuring(Append(queue, t), first, last + 1)
<1>1. PICK number \in [0..Len(queue) -> 0..last] : Counts(number, queue, first, last)
  BY DEF Configuring
<1>2. PICK n \in Nat : n = Len(queue) /\ Len(Append(queue, t)) = n + 1
  BY AppendFacts
<1>3. number \in [0..n -> 0..last] /\ number[0] = first /\ number[n] = last
      /\ \A i \in 1..n : number[i] = IF queue[i].kind = "configure" THEN number[i - 1] + 1 ELSE number[i - 1]
  BY <1>1, <1>2 DEF Counts
<1>4. Append(queue, t)[n + 1] = t /\ \A i \in 1..n : Append(queue, t)[i] = queue[i]
  BY <1>2, AppendFacts
<1>e. PICK end : end = IF t.kind = "configure" THEN last + 1 ELSE last
  OBVIOUS
<1>5. end \in Nat /\ (t.kind = "configure" => end = last + 1) /\ (t.kind # "configure" => end = last)
  BY <1>e
<1> DEFINE more == [i \in 0..(n + 1) |-> IF i = n + 1 THEN end ELSE number[i]]
<1>6. more \in [0..(n + 1) -> 0..end] /\ more[0] = first /\ more[n + 1] = end
  <2>1. end \in 0..end /\ last <= end
    BY <1>5
  <2>2. \A i \in 0..(n + 1) : i # n + 1 => i \in 0..n /\ number[i] \in 0..last
    BY <1>3
  <2>3. \A i \in 0..(n + 1) : more[i] \in 0..end
    BY <2>1, <2>2
  <2>4. 0 # n + 1 /\ 0 \in 0..(n + 1) /\ n + 1 \in 0..(n + 1)
    OBVIOUS
  <2>5. QED
    BY <1>3, <2>3, <2>4
<1>7. \A i \in 1..(n + 1) :
        more[i] = IF Append(queue, t)[i].kind = "configure" THEN more[i - 1] + 1 ELSE more[i - 1]
  <2>1. ASSUME NEW i \in 1..n
        PROVE  more[i] = IF Append(queue, t)[i].kind = "configure" THEN more[i - 1] + 1 ELSE more[i - 1]
    <3>1. more[i] = number[i] /\ more[i - 1] = number[i - 1]
      OBVIOUS
    <3>2. QED
      BY <1>3, <1>4, <3>1
  <2>2. ASSUME NEW i \in 1..(n + 1), i = n + 1
        PROVE  more[i] = IF Append(queue, t)[i].kind = "configure" THEN more[i - 1] + 1 ELSE more[i - 1]
    <3>1. i - 1 = n /\ n \in 0..(n + 1) /\ n # n + 1
      BY <2>2
    <3>2. more[n] = last
      BY <1>3, <3>1
    <3>3. more[i] = end /\ Append(queue, t)[i] = t
      BY <1>4, <1>6, <2>2
    <3> HIDE DEF more
    <3>4. QED
      BY <1>e, <3>1, <3>2, <3>3
  <2> SUFFICES ASSUME NEW i \in 1..(n + 1)
               PROVE  more[i] = IF Append(queue, t)[i].kind = "configure" THEN more[i - 1] + 1 ELSE more[i - 1]
    OBVIOUS
  <2>3. i \in 1..n \/ i = n + 1
    OBVIOUS
  <2> HIDE DEF more
  <2>4. CASE i \in 1..n
    BY <2>1, <2>4
  <2>5. CASE i = n + 1
    BY <2>2, <2>5, Zenon
  <2>6. QED
    BY <2>3, <2>4, <2>5
<1> HIDE DEF more
<1>8. Configuring(Append(queue, t), first, end)
  BY <1>2, <1>6, <1>7 DEF Configuring, Counts
<1>9. QED
  BY <1>5, <1>8

\* What a thread or a handler says is no configure.
LEMMA SayOK ==
  ASSUME NEW kind \in Kinds, NEW epoch \in Nat
  PROVE  Say(kind) \in Said /\ Say(kind).kind = kind /\ Of(kind, epoch) \in Said /\ Of(kind, epoch).kind = kind
BY DEF Say, Of, Said

\* A queue as it was, or with one more task that is no configure
Joins(queue, next) == next = queue \/ \E t \in Said : t.kind # "configure" /\ next = Append(queue, t)

\* counts as it did.
LEMMA JoinsKeeps ==
  ASSUME NEW queue \in Seq(Said), NEW next, Joins(queue, next)
  PROVE  /\ next \in Seq(Said)
         /\ \A first, last \in Nat : Configuring(queue, first, last) => Configuring(next, first, last)
<1>1. ASSUME NEW t \in Said, t.kind # "configure", next = Append(queue, t)
      PROVE  /\ next \in Seq(Said)
             /\ \A first, last \in Nat : Configuring(queue, first, last) => Configuring(next, first, last)
  BY <1>1, AppendFacts, AppendCounts
<1>2. QED
  BY <1>1 DEF Joins

\* So does what is scheduled once.
LEMMA ScheduledJoins ==
  ASSUME NEW queue \in Seq(Said), NEW kind \in Kinds \ {"configure"}
  PROVE  Joins(queue, Scheduled(queue, kind))
<1>1. Say(kind) \in Said /\ Say(kind).kind = kind
  BY SayOK
<1>2. Scheduled(queue, kind) = queue \/ Scheduled(queue, kind) = Append(queue, Say(kind))
  BY Zenon DEF Scheduled
<1>3. QED
  BY <1>1, <1>2 DEF Joins

\* What the Writer takes, or the failure that says that it does not
LEMMA SendFacts ==
  ASSUME NEW queue \in Seq(Said), NEW message \in Messages, output \in Outputs, Len(output.queue) <= Capacity,
         Send(queue, message)
  PROVE  /\ output' \in Outputs /\ Len(output'.queue) <= Capacity /\ Joins(queue, tasks')
         /\ \A i \in 1..Len(output'.queue) :
              output'.queue[i] = message \/ (i \in 1..Len(output.queue) /\ output'.queue[i] = output.queue[i])
<1>0. PICK sent \in Seq(Messages) : sent = output.queue /\ Len(sent) \in Nat
  BY LenProperties DEF Outputs
<1>1. CASE output.closed
  BY <1>1, Zenon DEF Send, Joins
<1>2. CASE ~output.closed /\ Len(output.queue) < Capacity
  <2>1. tasks' = queue /\ output' = [output EXCEPT !.queue = Append(sent, message)]
    BY <1>0, <1>2 DEF Send
  <2>2. /\ Append(sent, message) \in Seq(Messages) /\ Len(Append(sent, message)) = Len(sent) + 1
        /\ \A i \in 1..Len(Append(sent, message)) :
             Append(sent, message)[i] = message \/ (i \in 1..Len(sent) /\ Append(sent, message)[i] = sent[i])
    BY <1>0, AppendFacts
  <2>3. output' \in Outputs /\ output'.queue = Append(sent, message)
    BY <2>1, <2>2 DEF Outputs
  <2>4. Len(output'.queue) <= Capacity
    BY <1>0, <1>2, <2>2, <2>3, Bounds
  <2>5. QED
    BY <1>0, <2>1, <2>2, <2>3, <2>4 DEF Joins
<1>3. CASE ~output.closed /\ ~(Len(output.queue) < Capacity)
  <2>1. tasks' = Append(queue, Say("failed")) /\ output' = [output EXCEPT !.closed = TRUE]
    BY <1>3 DEF Send
  <2>2. output' \in Outputs /\ output'.queue = output.queue
    BY <2>1 DEF Outputs
  <2>3. Say("failed") \in Said /\ Say("failed").kind # "configure"
    BY SayOK DEF Kinds
  <2>4. QED
    BY <2>1, <2>2, <2>3 DEF Joins
<1>4. QED
  BY <1>1, <1>2, <1>3
----------------------------------------------------------------------------
(* Steps within a generation *)

\* What is under way stays new enough while the capture goes on to a later epoch, and
\* the login service to a later generation.
LEMMA LaterKeeps ==
  ASSUME IInv, NEW c, c.epoch \in Nat, c.epoch >= capture.epoch, NEW o, o.generation \in Nat,
         \/ o.generation = owner.generation /\ o.from = owner.from
         \/ o.generation = owner.generation + 1
  PROVE  /\ GrabNewer(c, o, grab) /\ SampleNewer(c, o, capture.sample) /\ QueueNewer(c, o, output.queue)
         /\ \A message \in Messages : Fits(capture, owner, message) => Fits(c, o, message)
<1>0. /\ capture.epoch \in Nat /\ owner.generation \in Nat /\ capture.epoch <= owner.generation
      /\ capture.sample \subseteq Samples /\ grab.epoch \in Nat /\ grab.picture \in Nat
      /\ \A i \in 1..Len(output.queue) : output.queue[i] \in Messages
  <2>1. output.queue \in Seq(Messages)
    BY DEF IInv, Ranges, Outputs
  <2>2. \A i \in 1..Len(output.queue) : output.queue[i] \in Messages
    BY <2>1, ElementOfSeq
  <2>3. QED
    BY <2>2, Bounds DEF IInv, Ranges, Epochs, Captures, Owners, Grabbing
<1>1. ASSUME NEW epoch \in Nat, NEW picture \in Nat, Since(capture, owner, epoch, picture)
      PROVE  Since(c, o, epoch, picture)
  BY <1>0, <1>1 DEF Since
<1>2. GrabNewer(c, o, grab)
  BY <1>0, <1>1 DEF IInv, Newer, GrabNewer
<1>3. SampleNewer(c, o, capture.sample)
  BY <1>0, <1>1 DEF IInv, Newer, SampleNewer, Samples
<1>4. ASSUME NEW message \in Messages, Fits(capture, owner, message) PROVE Fits(c, o, message)
  <2>1. message.generation \in Nat /\ message.picture \in Nat
    BY DEF Messages
  <2>2. QED
    BY <1>0, <1>1, <1>4, <2>1 DEF Fits
<1>5. QueueNewer(c, o, output.queue)
  BY <1>0, <1>4 DEF IInv, Newer, QueueNewer
<1>6. QED
  BY <1>2, <1>3, <1>4, <1>5

\* What most steps leave alone: the generation, and which epoch is its own
SameEpoch == /\ capture'.epoch = capture.epoch /\ worker'.epoch = worker.epoch
             /\ owner'.generation = owner.generation /\ owner'.from = owner.from
             /\ owner'.shown.picture = owner.shown.picture /\ (Running' => Running)

\* Then the rest follows from what is taken up.
LEMMA Kept ==
  ASSUME IInv, Ranges', SameEpoch, screen'.picture >= screen.picture,
         Running => Configuring(tasks', capture.epoch, owner.generation),
         GrabNewer(capture, owner, grab'), SampleNewer(capture, owner, capture'.sample),
         QueueNewer(capture, owner, output'.queue), Sized', Single'
  PROVE  IInv'
<1>1. \A epoch, picture : Since(capture', owner', epoch, picture) <=> Since(capture, owner, epoch, picture)
  BY DEF Since, SameEpoch
<1>2. /\ GrabNewer(capture', owner', grab') /\ SampleNewer(capture', owner', capture'.sample)
      /\ QueueNewer(capture', owner', output'.queue)
  BY <1>1 DEF SameEpoch, GrabNewer, SampleNewer, QueueNewer, Fits
<1>3. owner'.from <= screen'.picture
  BY DEF SameEpoch, IInv, Newer, Ranges, Screens, Owners
<1>4. Newer'
  BY <1>2, <1>3 DEF Newer, SameEpoch, IInv
<1>5. Epochs'
  BY DEF Epochs, SameEpoch, IInv
<1>6. QED
  BY <1>4, <1>5 DEF IInv

\* What the invariant says of the generation
LEMMA Now ==
  ASSUME IInv
  PROVE  /\ GrabNewer(capture, owner, grab) /\ SampleNewer(capture, owner, capture.sample)
         /\ QueueNewer(capture, owner, output.queue)
         /\ capture.epoch \in Nat /\ owner.generation \in Nat
         /\ screen.picture \in Nat /\ screen.size \in {1, 2} /\ owner.from <= screen.picture
         /\ capture \in Captures /\ grab \in Grabbing /\ point \in Pointing /\ tasks \in Seq(Said)
         /\ worker \in Workers /\ output \in Outputs /\ owner \in Owners /\ screen \in Screens
         /\ (Running => Configuring(tasks, capture.epoch, owner.generation))
BY Bounds DEF IInv, Ranges, Newer, Epochs, Captures, Owners, Screens

----------------------------------------------------------------------------
(* The display, and what the threads read *)

\* The display changes, and its deadline passes.
LEMMA DisplaySteps ==
  ASSUME IInv, Change \/ Move \/ Darken \/ Wakes \/ SettleOver
  PROVE  IInv'
<1>0. /\ UNCHANGED <<grab, point, tasks, worker, output, owner>>
      /\ screen \in Screens /\ capture \in Captures
  BY Now DEF Change, Move, Darken, Wakes, SettleOver
<1>e. screen.picture \in Nat /\ screen.events \in Nat
  BY <1>0 DEF Screens
<1>n. PICK n \in Nat : n = screen.events + 1
  BY <1>e
<1>m. PICK m \in Nat : m = screen.picture + 1
  BY <1>e
<1>1. screen' \in Screens /\ screen'.picture >= screen.picture
  <2>1. CASE Change
    <3>1. PICK size \in {1, 2} : screen' = [screen EXCEPT !.picture = m, !.size = size, !.events = n]
      BY <1>n, <1>m, <2>1 DEF Change
    <3>2. screen' \in Screens /\ screen'.picture = m
      BY <1>0, <3>1 DEF Screens
    <3>3. QED
      BY <1>e, <1>m, <3>2
  <2>2. CASE Move
    <3>1. PICK p \in Pointers, h \in Nat : screen' = [screen EXCEPT !.pointer = p, !.events = n, !.hid = h]
      BY <1>0, <1>n, <2>2, Now DEF Move, Pointers, Screens
    <3>2. screen' \in Screens /\ screen'.picture = screen.picture
      BY <1>0, <3>1 DEF Screens
    <3>3. QED
      BY <1>e, <3>2
  <2>3. CASE Darken
    <3>1. PICK light \in {"asleep", "lapsed"} : screen' = [screen EXCEPT !.light = light, !.events = n]
      BY <1>n, <2>3 DEF Darken
    <3>2. screen' \in Screens /\ screen'.picture = screen.picture
      BY <1>0, <3>1 DEF Screens
    <3>3. QED
      BY <1>e, <3>2
  <2>4. CASE Wakes
    BY <1>0, <2>4 DEF Wakes, Screens
  <2>5. CASE SettleOver
    BY <1>0, <2>5 DEF SettleOver, Screens
  <2>6. QED
    BY <2>1, <2>2, <2>3, <2>4, <2>5
<1>2. /\ capture' \in Captures /\ capture'.epoch = capture.epoch /\ capture'.sample = capture.sample
      /\ capture'.pointer = capture.pointer /\ capture'.size = capture.size /\ capture'.enabled = capture.enabled
  <2>1. CASE SettleOver
    BY <1>0, <2>1 DEF SettleOver, Captures
  <2>2. CASE ~SettleOver
    BY <1>0, <2>2 DEF Change, Move, Darken, Wakes
  <2>3. QED
    BY <2>1, <2>2
<1>3. Ranges'
  BY <1>0, <1>1, <1>2 DEF IInv, Ranges
<1>4. SameEpoch
  BY <1>0, <1>2 DEF SameEpoch, Running
<1>5. Sized' /\ Single'
  BY <1>0, <1>2 DEF IInv, Sized, Sizing, Single
<1>6. QED
  BY <1>0, <1>1, <1>2, <1>3, <1>4, <1>5, Now, Kept

\* The capture thread takes a snapshot, and opens what is scanned out.
LEMMA SnapshotStep ==
  ASSUME IInv, Snapshot \/ Export
  PROVE  IInv'
<1>0. UNCHANGED <<point, tasks, worker, output, owner>>
  BY DEF Snapshot, Export
<1>1. CASE Snapshot
  <2>1. /\ grab' = [Idle EXCEPT !.at = "export", !.enabled = capture.enabled, !.probe = capture.probing,
                               !.epoch = capture.epoch, !.reset = capture.reset]
        /\ UNCHANGED <<screen, capture>>
    BY <1>1 DEF Snapshot
  <2>2. capture.enabled \in BOOLEAN /\ capture.probing \in BOOLEAN /\ capture.reset \in BOOLEAN
    BY Now DEF Captures
  <2>3. /\ grab' \in Grabbing /\ grab'.at = "export" /\ grab'.epoch = capture.epoch
        /\ grab'.enabled = capture.enabled
    BY <2>1, <2>2, Now, Bounds DEF Idle, Grabbing
  <2>4. Ranges'
    BY <1>0, <2>1, <2>3 DEF IInv, Ranges
  <2>5. GrabNewer(capture, owner, grab')
    BY <2>3, Now DEF GrabNewer
  <2>6. SameEpoch /\ Single'
    BY <1>0, <2>1 DEF SameEpoch, Running, IInv, Single
  <2>7. Sized'
    BY <1>0, <2>1, <2>3 DEF IInv, Sized, Sizing
  <2>8. QED
    BY <1>0, <2>1, <2>4, <2>5, <2>6, <2>7, Now, Kept
<1>2. CASE Export
  <2>1. screen' = [screen EXCEPT !.light = Opened] /\ capture' = [capture EXCEPT !.reset = FALSE]
    BY <1>2 DEF Export
  <2>2. screen' \in Screens /\ screen'.picture = screen.picture
    BY <2>1, Now DEF Opened, Screens
  <2>3. /\ capture' \in Captures /\ capture'.epoch = capture.epoch /\ capture'.sample = capture.sample
        /\ capture'.pointer = capture.pointer /\ capture'.size = capture.size
        /\ capture'.enabled = capture.enabled
    BY <2>1, Now DEF Captures
  <2>4. grab' \in Grabbing /\ grab'.epoch = grab.epoch /\ grab'.enabled = grab.enabled
        /\ (grab'.at = "check" => grab'.picture = screen.picture /\ grab'.size = screen.size)
    <3>1. \/ grab' = [[grab EXCEPT !.at = "check"] EXCEPT !.picture = screen.picture, !.size = screen.size]
          \/ grab' = [grab EXCEPT !.at = "dark"]
      BY <1>2, Zenon DEF Export, At
    <3>2. screen.size \in Sizes /\ screen.picture \in Nat
      BY Now, Bounds
    <3>3. CASE grab' = [[grab EXCEPT !.at = "check"] EXCEPT !.picture = screen.picture, !.size = screen.size]
      BY <3>2, <3>3, Now DEF Grabbing
    <3>4. CASE grab' = [grab EXCEPT !.at = "dark"]
      BY <3>4, Now DEF Grabbing
    <3>5. QED
      BY <3>1, <3>3, <3>4
  <2>5. Ranges'
    BY <1>0, <2>2, <2>3, <2>4 DEF IInv, Ranges
  <2>6. GrabNewer(capture, owner, grab')
    BY <2>4, Now DEF GrabNewer, Since, Owners
  <2>7. SameEpoch /\ Single'
    BY <1>0, <2>3 DEF SameEpoch, Running, IInv, Single
  <2>8. Sized'
    BY <1>0, <2>3, <2>4 DEF IInv, Sized, Sizing
  <2>9. SampleNewer(capture, owner, capture'.sample) /\ screen'.picture >= screen.picture
    BY <2>2, <2>3, Now
  <2>10. QED
    BY <1>0, <2>5, <2>6, <2>7, <2>8, <2>9, Now, Kept
<1>3. QED
  BY <1>1, <1>2

----------------------------------------------------------------------------
(* The threads *)

\* The queue still counts the generations.
QueueHolds == tasks' \in Seq(Said) /\ (Running => Configuring(tasks', capture.epoch, owner.generation))

\* It does after a task or two that are no configure.
LEMMA JoinedHolds ==
  ASSUME IInv, NEW mid, Joins(tasks, mid), Joins(mid, tasks')
  PROVE  QueueHolds
<1>1. mid \in Seq(Said) /\ (Running => Configuring(mid, capture.epoch, owner.generation))
  BY Now, JoinsKeeps
<1>2. QED
  BY <1>1, Now, JoinsKeeps DEF QueueHolds

\* A capture of the same epoch and size that takes no more pictures
Stays(c) == /\ c \in Captures /\ c.epoch = capture.epoch /\ c.sample \subseteq capture.sample
            /\ c.size = capture.size /\ (c.enabled => capture.enabled) /\ Lone(c.pointer)

\* keeps the invariant, whatever its threads say of it.
LEMMA ThreadKeeps ==
  ASSUME IInv, Stays(capture'), QueueHolds, point' \in Pointing, UNCHANGED <<screen, worker, output, owner>>,
         grab' = grab \/ (grab' \in Grabbing /\ grab'.at # "check" /\ grab'.epoch = 0 /\ ~grab'.enabled)
  PROVE  IInv'
<1>1. grab' \in Grabbing /\ GrabNewer(capture, owner, grab')
  BY Now DEF GrabNewer
<1>2. Ranges'
  BY <1>1 DEF IInv, Ranges, Stays, QueueHolds
<1>3. SameEpoch
  BY DEF SameEpoch, Stays, Running
<1>4. SampleNewer(capture, owner, capture'.sample)
  BY Now DEF SampleNewer, Stays
<1>5. Single'
  BY DEF IInv, Single, Lone, Stays
<1>6. Sized'
  BY DEF IInv, Sized, Sizing, Stays
<1>7. screen'.picture >= screen.picture
  BY Now
<1>8. QED
  BY <1>1, <1>2, <1>3, <1>4, <1>5, <1>6, <1>7, Now, Kept DEF QueueHolds

\* As it is, and with other flags, a capture stays.
LEMMA StaysFacts ==
  ASSUME IInv
  PROVE  /\ Stays(capture)
         /\ \A b \in BOOLEAN : Stays([capture EXCEPT !.probing = b]) /\ Stays([capture EXCEPT !.reset = b])
         /\ Stays([[capture EXCEPT !.reset = FALSE] EXCEPT !.probing = FALSE])
         /\ \A seen \in SUBSET Pointers : Stays([capture EXCEPT !.seen = seen])
         /\ Stays([capture EXCEPT !.enabled = FALSE, !.sample = {}, !.pointer = {}])
<1>1. capture \in Captures /\ Lone(capture.pointer)
  BY Now DEF IInv, Single
<1>2. Stays(capture)
  BY <1>1 DEF Stays
<1>3. ASSUME NEW b \in BOOLEAN
      PROVE  Stays([capture EXCEPT !.probing = b]) /\ Stays([capture EXCEPT !.reset = b])
  BY <1>1 DEF Stays, Captures
<1>4. Stays([[capture EXCEPT !.reset = FALSE] EXCEPT !.probing = FALSE])
  BY <1>1 DEF Stays, Captures
<1>5. ASSUME NEW seen \in SUBSET Pointers PROVE Stays([capture EXCEPT !.seen = seen])
  BY <1>1 DEF Stays, Captures
<1>6. Stays([capture EXCEPT !.enabled = FALSE, !.sample = {}, !.pointer = {}])
  BY <1>1 DEF Stays, Captures, Lone
<1>7. QED
  BY <1>2, <1>3, <1>4, <1>5, <1>6

\* The capture is told that the display is dark.
LEMMA InactiveFacts ==
  ASSUME IInv, NEW epoch \in Nat, Inactive(epoch)
  PROVE  Stays(capture') /\ QueueHolds
<1>1. \/ UNCHANGED <<capture, tasks>>
      \/ /\ capture' = [capture EXCEPT !.enabled = FALSE, !.sample = {}, !.pointer = {}]
         /\ tasks' = Append(tasks, Of("suspended", epoch))
  BY Zenon DEF Inactive
<1>2. Of("suspended", epoch) \in Said /\ Of("suspended", epoch).kind # "configure"
  BY SayOK DEF Kinds
<1>3. Stays(capture')
  BY <1>1, StaysFacts
<1>4. Joins(tasks, tasks') /\ Joins(tasks, tasks)
  BY <1>1, <1>2 DEF Joins
<1>5. QED
  BY <1>3, <1>4, JoinedHolds

\* The threads as they start, or stop
LEMMA IdleOK ==
  /\ Idle \in Grabbing /\ Idle.at # "check" /\ Idle.epoch = 0 /\ ~Idle.enabled
  /\ [Idle EXCEPT !.at = "stopped"] \in Grabbing /\ [Idle EXCEPT !.at = "stopped"].at # "check"
  /\ [Idle EXCEPT !.at = "stopped"].epoch = 0 /\ ~[Idle EXCEPT !.at = "stopped"].enabled
  /\ Still \in Pointing /\ [Still EXCEPT !.at = "stopped"] \in Pointing
BY Bounds DEF Idle, Still, Grabbing, Pointing

\* A probe is answered, by a capture that stays.
LEMMA AnswerFacts ==
  ASSUME IInv, NEW c, Answer(c), c = capture \/ c = [capture EXCEPT !.reset = FALSE]
  PROVE  Stays(capture') /\ QueueHolds
<1>1. Say("probed") \in Said /\ Say("probed").kind # "configure"
  BY SayOK DEF Kinds
<1>2. tasks' = Append(tasks, Say("probed")) /\ capture' = [c EXCEPT !.probing = FALSE]
  BY DEF Answer
<1>3. Joins(tasks, tasks') /\ Joins(tasks, tasks)
  BY <1>1, <1>2 DEF Joins
<1>4. Stays(capture')
  BY <1>2, StaysFacts
<1>5. QED
  BY <1>3, <1>4, JoinedHolds

\* The queue as it was
LEMMA QueueStill ==
  ASSUME IInv, UNCHANGED tasks
  PROVE  QueueHolds
BY Now DEF QueueHolds

\* The capture thread finds the display dark, or fails.
LEMMA DarkSteps ==
  ASSUME IInv, Dark \/ ExportFails
  PROVE  IInv'
<1>0. UNCHANGED <<screen, point, worker, output, owner>>
  BY DEF Dark, ExportFails
<1>f. Joins(tasks, tasks) /\ Joins(tasks, Append(tasks, Say("failed")))
  BY SayOK DEF Joins, Kinds
<1>1. CASE Dark
  <2>1. grab' = Idle
    BY <1>1 DEF Dark
  <2>2. UNCHANGED <<capture, tasks>> \/ Inactive(grab.epoch) \/ Answer(capture)
    BY <1>1, Zenon DEF Dark
  <2>3. grab.epoch \in Nat
    BY Now DEF Grabbing
  <2>4. Stays(capture') /\ QueueHolds
    <3>1. CASE UNCHANGED <<capture, tasks>>
      BY <3>1, StaysFacts, QueueStill
    <3>2. CASE Inactive(grab.epoch)
      BY <2>3, <3>2, InactiveFacts
    <3>3. CASE Answer(capture)
      BY <3>3, AnswerFacts
    <3>4. QED
      BY <2>2, <3>1, <3>2, <3>3
  <2>5. QED
    BY <1>0, <2>1, <2>4, IdleOK, Now, ThreadKeeps
<1>2. CASE ExportFails
  <2>1. \/ Answer([capture EXCEPT !.reset = FALSE]) /\ grab' = Idle
        \/ /\ tasks' = Append(tasks, Say("failed")) /\ grab' = [Idle EXCEPT !.at = "stopped"]
           /\ capture' = [capture EXCEPT !.reset = FALSE]
    BY <1>2, Zenon DEF ExportFails
  <2>2. Stays(capture') /\ QueueHolds
    <3>1. CASE Answer([capture EXCEPT !.reset = FALSE])
      BY <3>1, AnswerFacts
    <3>2. CASE tasks' = Append(tasks, Say("failed")) /\ capture' = [capture EXCEPT !.reset = FALSE]
      BY <1>f, <3>2, StaysFacts, JoinedHolds
    <3>3. QED
      BY <2>1, <3>1, <3>2
  <2>3. QED
    BY <1>0, <2>1, <2>2, IdleOK, Now, ThreadKeeps
<1>3. QED
  BY <1>1, <1>2

\* The cursor thread reads the pointer, queues it, or fails.
LEMMA PointSteps ==
  ASSUME IInv, PointRead \/ PointQueue \/ PointFails
  PROVE  IInv'
<1>0. UNCHANGED <<screen, grab, worker, output, owner>>
  BY DEF PointRead, PointQueue, PointFails
<1>p. screen.pointer \in Pointers /\ capture.epoch \in Nat /\ point.epoch \in Nat /\ point.pointer \in Pointers
      /\ point \in Pointing /\ capture \in Captures
  BY Now DEF Screens, Pointing
<1>1. CASE PointRead
  <2>1. \/ UNCHANGED point /\ Inactive(capture.epoch)
        \/ /\ capture' = [capture EXCEPT !.seen = {screen.pointer}]
           /\ point' = [at |-> "queue", epoch |-> capture.epoch, pointer |-> screen.pointer]
           /\ UNCHANGED tasks
    BY <1>1, Zenon DEF PointRead
  <2>2. CASE UNCHANGED point /\ Inactive(capture.epoch)
    BY <1>0, <1>p, <2>2, InactiveFacts, ThreadKeeps
  <2>3. CASE /\ capture' = [capture EXCEPT !.seen = {screen.pointer}]
             /\ point' = [at |-> "queue", epoch |-> capture.epoch, pointer |-> screen.pointer]
             /\ UNCHANGED tasks
    <3>1. point' \in Pointing
      BY <1>p, <2>3 DEF Pointing
    <3>2. PICK seen \in SUBSET Pointers : seen = {screen.pointer}
      BY <1>p
    <3>3. Stays(capture')
      BY <2>3, <3>2, StaysFacts
    <3>4. QED
      BY <1>0, <2>3, <3>1, <3>3, QueueStill, ThreadKeeps
  <2>4. QED
    BY <2>1, <2>2, <2>3
<1>2. CASE PointQueue
  <2>1. PICK shape \in Nat, shaped \in BOOLEAN :
          capture' = [capture EXCEPT !.shape = shape,
                        !.pointer = {[epoch |-> point.epoch, pointer |-> point.pointer, shaped |-> shaped]}]
    <3>1. capture.shape \in Nat /\ Shape(point.epoch) \in Nat
      BY <1>p DEF Captures, Shape
    <3>2. QED
      BY <1>2, <3>1 DEF PointQueue
  <2>2. PICK p \in Pointings : p = [epoch |-> point.epoch, pointer |-> point.pointer, shaped |-> shaped]
    BY <1>p DEF Pointings
  <2>3. Stays(capture')
    <3>1. capture' = [capture EXCEPT !.shape = shape, !.pointer = {p}]
      BY <2>1, <2>2
    <3>2. QED
      BY <1>p, <3>1 DEF Stays, Captures, Lone
  <2>4. Joins(tasks, tasks') /\ Joins(tasks, tasks)
    BY <1>2, Now, ScheduledJoins DEF PointQueue, Kinds, Joins
  <2>5. point' \in Pointing
    BY <1>2, IdleOK DEF PointQueue
  <2>6. QED
    BY <1>0, <2>3, <2>4, <2>5, JoinedHolds, ThreadKeeps
<1>3. CASE PointFails
  <2>1. Joins(tasks, tasks) /\ Joins(tasks, tasks')
    BY <1>3, SayOK DEF PointFails, Joins, Kinds
  <2>2. point' \in Pointing /\ UNCHANGED capture
    BY <1>3, IdleOK DEF PointFails
  <2>3. QED
    BY <1>0, <2>1, <2>2, StaysFacts, JoinedHolds, ThreadKeeps
<1>4. QED
  BY <1>1, <1>2, <1>3

\* The picture of the capture thread is dropped, or taken; a display of another size
\* ends the generation.
LEMMA CheckStep ==
  ASSUME IInv, Check
  PROVE  IInv'
<1>0. grab' = Idle /\ UNCHANGED <<screen, point, worker, output, owner>> /\ grab.at = "check"
  BY DEF Check, Grabs
<1>1. PICK answered : answered = IF grab.probe THEN Append(tasks, Say("probed")) ELSE tasks
  OBVIOUS
<1>2. Joins(tasks, answered) /\ answered \in Seq(Said) /\ Joins(answered, answered)
  <2>1. Joins(tasks, answered)
    BY <1>1, SayOK DEF Joins, Kinds
  <2>2. QED
    BY <2>1, Now, JoinsKeeps DEF Joins
<1>3. PICK b \in BOOLEAN : b = (capture.probing /\ ~grab.probe)
  OBVIOUS
<1>4. PICK asked : asked = [capture EXCEPT !.probing = b]
  OBVIOUS
<1>5. Stays(asked) /\ asked \in Captures /\ asked.sample = capture.sample /\ asked.epoch = capture.epoch
      /\ asked.size = capture.size
  BY <1>3, <1>4, Now, StaysFacts DEF Captures
<1>6. PICK taken : taken = [epoch |-> grab.epoch, picture |-> grab.picture, size |-> grab.size]
  OBVIOUS
<1>7. /\ Since(capture, owner, grab.epoch, grab.picture) /\ grab.size \in {1, 2} /\ grab.size \in Sizes
      /\ grab.epoch \in Nat /\ grab.picture \in Nat
  BY <1>0, Now DEF GrabNewer, Grabbing, Sizes
<1>8. taken \in Samples /\ taken.epoch = grab.epoch /\ taken.picture = grab.picture /\ taken.size = grab.size
  BY <1>6, <1>7 DEF Samples
<1>9. \/ UNCHANGED <<capture, tasks>>
      \/ capture' = asked /\ tasks' = answered
      \/ /\ tasks' = Append(answered, Of("geometry", grab.epoch))
         /\ capture' = [asked EXCEPT !.previous = 0, !.sample = {}, !.enabled = FALSE, !.size = 0]
      \/ /\ Current(grab.epoch) /\ grab.enabled /\ ~Resized
         /\ \/ capture' = [asked EXCEPT !.size = grab.size] /\ tasks' = answered
            \/ /\ capture' = [asked EXCEPT !.size = grab.size, !.previous = grab.picture, !.sample = {taken}]
               /\ tasks' = Scheduled(answered, "sample")
  BY <1>1, <1>3, <1>4, <1>6, Zenon DEF Check
<1>10. QueueHolds
  <2>1. CASE UNCHANGED tasks
    BY <2>1, QueueStill
  <2>2. CASE tasks' = answered
    BY <1>2, <2>2, JoinedHolds
  <2>3. CASE tasks' = Append(answered, Of("geometry", grab.epoch))
    <3>1. Of("geometry", grab.epoch) \in Said /\ Of("geometry", grab.epoch).kind # "configure"
      BY <1>7, SayOK DEF Kinds
    <3>2. Joins(answered, tasks')
      BY <2>3, <3>1 DEF Joins
    <3>3. QED
      BY <1>2, <3>2, JoinedHolds
  <2>4. CASE tasks' = Scheduled(answered, "sample")
    <3>1. Joins(answered, tasks')
      BY <1>2, <2>4, ScheduledJoins DEF Kinds
    <3>2. QED
      BY <1>2, <3>1, JoinedHolds
  <2>5. QED
    BY <1>9, <2>1, <2>2, <2>3, <2>4
<1>11. CASE UNCHANGED capture \/ capture' = asked
  BY <1>0, <1>5, <1>10, <1>11, IdleOK, Now, StaysFacts, ThreadKeeps
<1>12. CASE capture' = [asked EXCEPT !.previous = 0, !.sample = {}, !.enabled = FALSE, !.size = 0]
  <2>1. /\ capture' \in Captures /\ capture'.epoch = capture.epoch /\ capture'.sample = {} /\ ~capture'.enabled
        /\ capture'.size = 0 /\ capture'.pointer = asked.pointer
    BY <1>5, <1>12, Bounds DEF Captures
  <2>2. Ranges'
    BY <1>0, <1>10, <2>1, IdleOK, Now DEF Ranges, QueueHolds
  <2>3. SameEpoch /\ Single'
    BY <1>0, <1>5, <2>1 DEF SameEpoch, Running, Single, Lone, Stays, IInv
  <2>4. GrabNewer(capture, owner, grab') /\ SampleNewer(capture, owner, capture'.sample)
    BY <1>0, <2>1, IdleOK, Now DEF GrabNewer, SampleNewer
  <2>5. Sized'
    BY <1>0, <2>1, IdleOK DEF Sized, Sizing
  <2>6. QED
    BY <1>0, <1>10, <2>2, <2>3, <2>4, <2>5, Now, Kept DEF QueueHolds
<1>13. CASE /\ Current(grab.epoch) /\ grab.enabled /\ ~Resized
            /\ \/ capture' = [asked EXCEPT !.size = grab.size]
               \/ capture' = [asked EXCEPT !.size = grab.size, !.previous = grab.picture, !.sample = {taken}]
  <2>1. /\ capture' \in Captures /\ capture'.epoch = capture.epoch /\ capture'.size = grab.size
        /\ capture'.pointer = asked.pointer
        /\ capture'.sample = capture.sample \/ capture'.sample = {taken}
    <3>1. CASE capture' = [asked EXCEPT !.size = grab.size]
      BY <1>5, <1>7, <3>1 DEF Captures
    <3>2. CASE capture' = [asked EXCEPT !.size = grab.size, !.previous = grab.picture, !.sample = {taken}]
      BY <1>5, <1>7, <1>8, <3>2 DEF Captures
    <3>3. QED
      BY <1>13, <3>1, <3>2
  <2>2. Ranges'
    BY <1>0, <1>10, <2>1, IdleOK, Now DEF Ranges, QueueHolds
  <2>3. SameEpoch /\ Single'
    BY <1>0, <1>5, <2>1 DEF SameEpoch, Running, Single, Lone, Stays, IInv
  <2>4. GrabNewer(capture, owner, grab') /\ SampleNewer(capture, owner, capture'.sample)
    BY <1>0, <1>7, <1>8, <2>1, IdleOK, Now DEF GrabNewer, SampleNewer
  <2>5. Sized'
    <3>1. capture.size = 0 \/ capture.size = grab.size
      BY <1>13 DEF Resized
    <3>2. capture.size = 0 => capture.sample = {} /\ ~(worker.media /\ worker.latest # 0)
      BY <1>13, Now DEF IInv, Sized, Sizing, Captures, Samples, Current
    <3>3. \A s \in capture'.sample : s.size = capture'.size
      BY <1>8, <2>1, <3>1, <3>2 DEF IInv, Sized, Sizing
    <3>4. QED
      BY <1>0, <1>7, <2>1, <3>1, <3>2, <3>3 DEF IInv, Sized, Sizing
  <2>6. QED
    BY <1>0, <1>10, <2>2, <2>3, <2>4, <2>5, Now, Kept DEF QueueHolds
<1>14. QED
  BY <1>9, <1>11, <1>12, <1>13

----------------------------------------------------------------------------
(* The main loop *)

\* What a step of the main loop within an epoch keeps: what was queued stays queued,
\* and what it sends is of the epoch and new enough.
LEMMA LoopKeeps ==
  ASSUME IInv, tasks # <<>>, Head(tasks).kind # "configure", Joins(Tail(tasks), tasks'),
         Stays(capture'), worker' \in Workers, worker'.epoch = worker.epoch, worker'.failed = worker.failed,
         Sized', output' \in Outputs, Len(output'.queue) <= Capacity,
         QueueNewer(capture, owner, output'.queue), UNCHANGED <<screen, grab, point, owner>>
  PROVE  IInv'
<1>1. QueueHolds
  <2>1. Tail(tasks) \in Seq(Said) /\ (Running => Configuring(Tail(tasks), capture.epoch, owner.generation))
    BY Now, TailFacts, TailCounts
  <2>2. QED
    BY <2>1, Now, JoinsKeeps DEF QueueHolds
<1>2. Ranges'
  BY <1>1, Now DEF Ranges, Stays, QueueHolds
<1>3. SameEpoch
  BY DEF SameEpoch, Running, Stays
<1>4. GrabNewer(capture, owner, grab') /\ SampleNewer(capture, owner, capture'.sample)
  BY Now DEF SampleNewer, Stays
<1>5. Single'
  BY DEF IInv, Single, Lone, Stays
<1>6. QED
  BY <1>1, <1>2, <1>3, <1>4, <1>5, Now, Kept DEF QueueHolds

\* A message of the epoch
LEMMA MessageOK ==
  ASSUME IInv, NEW kind \in {"capabilities", "displays", "inactive", "error"}
  PROVE  Message(kind) \in Messages /\ Fits(capture, owner, Message(kind))
<1>1. worker.epoch \in Nat /\ worker.epoch <= capture.epoch
  BY Now DEF IInv, Epochs
<1>2. QED
  BY <1>1, Bounds DEF Message, Messages, Fits

\* What is sent joins what the Writer has.
LEMMA SentFits ==
  ASSUME IInv, NEW message \in Messages, Fits(capture, owner, message), NEW queue,
         \A i \in 1..Len(queue) :
           queue[i] = message \/ (i \in 1..Len(output.queue) /\ queue[i] = output.queue[i])
  PROVE  QueueNewer(capture, owner, queue)
BY Now DEF QueueNewer

\* A picture and a pointer that are no longer pending
LEMMA TakenStays ==
  ASSUME IInv
  PROVE  Stays([capture EXCEPT !.sample = {}]) /\ Stays([capture EXCEPT !.pointer = {}])
         /\ Stays([capture EXCEPT !.probing = TRUE, !.settling = TRUE])
BY Now DEF Stays, Captures, IInv, Single, Lone

\* A probe is asked for.
LEMMA ProbeStep ==
  ASSUME IInv, Probe
  PROVE  IInv'
<1>1. /\ tasks # <<>> /\ Head(tasks).kind = "probe" /\ tasks' = Tail(tasks)
      /\ capture' = [capture EXCEPT !.probing = TRUE, !.settling = TRUE]
      /\ UNCHANGED <<screen, grab, point, worker, output, owner>>
  BY DEF Probe, Heads, Quiet
<1>2. Stays(capture') /\ capture'.sample \subseteq capture.sample
  BY <1>1, TakenStays DEF Stays
<1>3. Sized'
  BY <1>1, <1>2 DEF Stays, IInv, Sized, Sizing
<1>4. Joins(Tail(tasks), tasks') /\ Len(output.queue) <= Capacity
  BY <1>1 DEF Joins, IInv, Single
<1>5. QED
  BY <1>1, <1>2, <1>3, <1>4, Now, LoopKeeps

\* The login service is told of a probe, of another size or of the dark.
LEMMA TellSteps ==
  ASSUME IInv, Probed \/ Geometry \/ Suspended
  PROVE  IInv'
<1>0. /\ tasks # <<>> /\ Head(tasks).kind # "configure" /\ UNCHANGED <<screen, capture, grab, point, owner>>
  BY DEF Probed, Geometry, Suspended, Heads
<1>1. \/ Quiet(Tail(tasks))
      \/ \E kind \in {"capabilities", "displays", "inactive"} : Send(Tail(tasks), Message(kind))
  BY DEF Probed, Geometry, Suspended
<1>2. UNCHANGED worker \/ worker' = [worker EXCEPT !.media = FALSE]
  BY DEF Probed, Geometry, Suspended
<1>3. worker' \in Workers /\ worker'.epoch = worker.epoch /\ worker'.failed = worker.failed
      /\ (worker'.media => worker' = worker)
  BY <1>2, Now DEF Workers
<1>4. Sized' /\ Stays(capture')
  BY <1>0, <1>3, StaysFacts DEF IInv, Sized, Sizing
<1>5. CASE Quiet(Tail(tasks))
  <2>1. Joins(Tail(tasks), tasks') /\ UNCHANGED output /\ Len(output.queue) <= Capacity
    BY <1>5 DEF Quiet, Joins, IInv, Single
  <2>2. QED
    BY <1>0, <1>3, <1>4, <2>1, Now, LoopKeeps
<1>6. ASSUME NEW kind \in {"capabilities", "displays", "inactive"}, Send(Tail(tasks), Message(kind)) PROVE IInv'
  <2>1. PICK message \in Messages : message = Message(kind) /\ Fits(capture, owner, message)
    BY MessageOK
  <2>2. Tail(tasks) \in Seq(Said) /\ Len(output.queue) <= Capacity
    BY <1>0, Now, TailFacts DEF IInv, Single
  <2>3. /\ output' \in Outputs /\ Len(output'.queue) <= Capacity /\ Joins(Tail(tasks), tasks')
        /\ \A i \in 1..Len(output'.queue) :
             output'.queue[i] = message \/ (i \in 1..Len(output.queue) /\ output'.queue[i] = output.queue[i])
    BY <1>6, <2>1, <2>2, Now, SendFacts
  <2>4. QueueNewer(capture, owner, output'.queue)
    BY <2>1, <2>3, SentFits
  <2>5. QED
    BY <1>0, <1>3, <1>4, <2>3, <2>4, LoopKeeps
<1>7. QED
  BY <1>1, <1>5, <1>6

\* The picture that is pending leaves as a frame of its epoch, if that is open.
LEMMA SampleStep ==
  ASSUME IInv, Sample
  PROVE  IInv'
<1>0. /\ tasks # <<>> /\ Head(tasks).kind # "configure" /\ UNCHANGED <<screen, grab, point, owner>>
      /\ capture' = [capture EXCEPT !.sample = {}]
  BY DEF Sample, Heads
<1>1. Stays(capture') /\ capture'.sample = {} /\ capture'.size = capture.size /\ capture'.epoch = capture.epoch
      /\ capture'.enabled = capture.enabled
  BY <1>0, Now, TakenStays DEF Captures
<1>2. CASE \E s \in capture.sample : Open(s.epoch)
  <2>1. PICK s \in capture.sample : Open(s.epoch)
    BY <1>2
  <2>2. s = CHOOSE t \in capture.sample : TRUE
    BY <2>1 DEF IInv, Single, Lone
  <2>3. PICK message : message = [Message("frame") EXCEPT !.picture = s.picture]
    OBVIOUS
  <2>4. worker' = [worker EXCEPT !.latest = s.picture, !.size = s.size] /\ Send(Tail(tasks), message)
    BY <1>2, <2>2, <2>3 DEF Sample
  <2>5. /\ s \in Samples /\ s.epoch = worker.epoch /\ s.picture \in Nat /\ s.size \in Sizes /\ s.size # 0
        /\ s.size = capture.size /\ Since(capture, owner, s.epoch, s.picture)
        /\ worker.epoch \in Nat /\ worker.epoch = capture.epoch
    BY <2>1, Now DEF Captures, Samples, Sizes, Open, SampleNewer, IInv, Sized, Sizing, Workers, Epochs
  <2>6. /\ message \in Messages /\ message.generation = worker.epoch /\ message.picture = s.picture
    BY <2>3, <2>5, Bounds DEF Message, Messages
  <2>7. Fits(capture, owner, message)
    BY <2>5, <2>6, Now DEF Fits
  <2>8. Tail(tasks) \in Seq(Said) /\ Len(output.queue) <= Capacity
    BY <1>0, Now, TailFacts DEF IInv, Single
  <2>9. /\ output' \in Outputs /\ Len(output'.queue) <= Capacity /\ Joins(Tail(tasks), tasks')
        /\ \A i \in 1..Len(output'.queue) :
             output'.queue[i] = message \/ (i \in 1..Len(output.queue) /\ output'.queue[i] = output.queue[i])
    BY <2>4, <2>6, <2>8, Now, SendFacts
  <2>10. QueueNewer(capture, owner, output'.queue)
    BY <2>6, <2>7, <2>9, SentFits
  <2>11. /\ worker' \in Workers /\ worker'.epoch = worker.epoch /\ worker'.failed = worker.failed
         /\ worker'.size = s.size
    BY <2>4, <2>5, Now DEF Workers
  <2>12. Sized'
    BY <1>0, <1>1, <2>5, <2>11 DEF Sized, Sizing
  <2>13. QED
    BY <1>0, <1>1, <2>9, <2>10, <2>11, <2>12, LoopKeeps
<1>3. CASE ~\E s \in capture.sample : Open(s.epoch)
  <2>1. Joins(Tail(tasks), tasks') /\ UNCHANGED <<worker, output>> /\ Len(output.queue) <= Capacity
    BY <1>3, Zenon DEF Sample, Quiet, Joins, IInv, Single
  <2>2. Sized'
    BY <1>0, <1>1, <2>1 DEF IInv, Sized, Sizing
  <2>3. QED
    BY <1>0, <1>1, <2>1, <2>2, Now, LoopKeeps
<1>4. QED
  BY <1>2, <1>3

\* So does the pointer.
LEMMA PointerStep ==
  ASSUME IInv, Pointer
  PROVE  IInv'
<1>0. /\ tasks # <<>> /\ Head(tasks).kind # "configure" /\ UNCHANGED <<screen, grab, point, worker, owner>>
      /\ capture' = [capture EXCEPT !.pointer = {}]
  BY DEF Pointer, Heads
<1>1. Stays(capture') /\ capture'.sample = capture.sample /\ capture'.size = capture.size
      /\ capture'.epoch = capture.epoch /\ capture'.enabled = capture.enabled
  BY <1>0, Now, TakenStays DEF Captures
<1>2. Sized' /\ Len(output.queue) <= Capacity
  BY <1>0, <1>1 DEF IInv, Sized, Sizing, Single
<1>3. CASE \E p \in capture.pointer : Open(p.epoch)
  <2>1. PICK p \in capture.pointer : p = CHOOSE q \in capture.pointer : TRUE
    BY <1>3
  <2>2. PICK message : message = [Message("cursor") EXCEPT !.pointer = p.pointer, !.shaped = p.shaped]
    OBVIOUS
  <2>3. Send(Tail(tasks), message)
    BY <1>3, <2>1, <2>2 DEF Pointer
  <2>4. /\ p.pointer \in Pointers /\ p.shaped \in BOOLEAN /\ worker.epoch \in Nat /\ worker.epoch <= capture.epoch
    BY Now DEF Captures, Pointings, IInv, Epochs
  <2>5. message \in Messages /\ message.generation = worker.epoch /\ message.kind = "cursor"
    BY <2>2, <2>4, Bounds DEF Message, Messages
  <2>6. Fits(capture, owner, message)
    BY <2>4, <2>5 DEF Fits
  <2>7. Tail(tasks) \in Seq(Said)
    BY <1>0, Now, TailFacts
  <2>8. /\ output' \in Outputs /\ Len(output'.queue) <= Capacity /\ Joins(Tail(tasks), tasks')
        /\ \A i \in 1..Len(output'.queue) :
             output'.queue[i] = message \/ (i \in 1..Len(output.queue) /\ output'.queue[i] = output.queue[i])
    BY <1>2, <2>3, <2>5, <2>7, Now, SendFacts
  <2>9. QueueNewer(capture, owner, output'.queue)
    BY <2>5, <2>6, <2>8, SentFits
  <2>10. QED
    BY <1>0, <1>1, <1>2, <2>8, <2>9, Now, LoopKeeps
<1>4. CASE ~\E p \in capture.pointer : Open(p.epoch)
  <2>1. Joins(Tail(tasks), tasks') /\ UNCHANGED output
    BY <1>4, Zenon DEF Pointer, Quiet, Joins
  <2>2. QED
    BY <1>0, <1>1, <1>2, <2>1, Now, LoopKeeps
<1>5. QED
  BY <1>3, <1>4

\* An epoch begins, of a generation that the login service has counted.
LEMMA ConfigureStep ==
  ASSUME IInv, Configure
  PROVE  IInv'
<1>0. /\ Running /\ tasks # <<>> /\ Head(tasks).kind = "configure" /\ tasks' = Tail(tasks)
      /\ UNCHANGED <<screen, grab, point, output, owner>>
      /\ capture' = Configured(capture, Head(tasks).reset)
      /\ worker' = [worker EXCEPT !.media = TRUE, !.epoch = capture.epoch + 1, !.latest = 0, !.size = 0]
  BY DEF Configure, Heads, Quiet
<1>1. /\ tasks' \in Seq(Said) /\ capture.epoch + 1 <= owner.generation
      /\ Configuring(tasks', capture.epoch + 1, owner.generation) /\ Head(tasks).reset \in BOOLEAN
  <2>1. Configuring(tasks, capture.epoch, owner.generation)
    BY <1>0, Now
  <2>2. Tail(tasks) \in Seq(Said) /\ Head(tasks) \in Said
    BY <1>0, Now, TailFacts
  <2>3. capture.epoch + 1 <= owner.generation /\ Configuring(Tail(tasks), capture.epoch + 1, owner.generation)
    BY <1>0, <2>1, Now, TailCounts
  <2>4. QED
    BY <1>0, <2>2, <2>3 DEF Said
<1>2. PICK n \in Nat : n = capture.epoch + 1
  BY Now
<1>3. PICK reset \in BOOLEAN : reset = Head(tasks).reset
  BY <1>1
<1>4. PICK any \in BOOLEAN : any = (capture.reset \/ reset)
  OBVIOUS
<1>5. capture' = [capture EXCEPT !.epoch = n, !.enabled = TRUE, !.reset = any, !.settling = reset,
                                 !.previous = 0, !.seen = {}, !.shape = 0, !.pointer = {}]
  BY <1>0, <1>2, <1>3, <1>4, Now DEF Configured, Captures
<1>6. /\ capture' \in Captures /\ capture'.epoch = n /\ capture'.sample = capture.sample
      /\ capture'.size = capture.size /\ capture'.pointer = {}
  BY <1>5, Now DEF Captures
<1>7. worker' \in Workers /\ worker'.epoch = n /\ worker'.failed = worker.failed /\ worker'.latest = 0
  BY <1>0, <1>2, Now, Bounds DEF Workers
<1>8. Ranges'
  BY <1>0, <1>1, <1>6, <1>7, Now DEF Ranges
<1>9. Epochs'
  BY <1>0, <1>1, <1>2, <1>6, <1>7 DEF Epochs
<1>10. Newer'
  <2>1. PICK c \in Captures : c = capture' /\ c.epoch \in Nat /\ c.epoch >= capture.epoch
    BY <1>2, <1>6, Now
  <2>2. GrabNewer(c, owner, grab) /\ SampleNewer(c, owner, capture.sample) /\ QueueNewer(c, owner, output.queue)
    BY <2>1, Now, LaterKeeps
  <2>3. QED
    BY <1>0, <1>6, <2>1, <2>2 DEF IInv, Newer
<1>11. Sized' /\ Single'
  BY <1>0, <1>6, <1>7 DEF IInv, Sized, Sizing, Single, Lone
<1>12. QED
  BY <1>8, <1>9, <1>10, <1>11 DEF IInv

\* The worker fails: its error is the last that it says.
LEMMA FailedStep ==
  ASSUME IInv, Failed
  PROVE  IInv'
<1>0. /\ worker' = [Shut EXCEPT !.failed = TRUE, !.epoch = worker.epoch] /\ tasks' = <<>>
      /\ grab' = Idle /\ point' = Still /\ capture' = [Fresh EXCEPT !.epoch = capture.epoch]
      /\ UNCHANGED <<screen, owner>>
  BY DEF Failed
<1>1. worker.epoch \in Nat /\ worker.epoch = capture.epoch /\ capture.epoch \in Nat
  BY Now DEF IInv, Epochs
<1>2. worker' \in Workers /\ worker'.failed /\ worker'.epoch = worker.epoch /\ ~worker'.media
  BY <1>0, <1>1, Bounds DEF Shut, Workers
<1>3. capture' \in Captures /\ capture'.epoch = capture.epoch /\ capture'.sample = {} /\ capture'.pointer = {}
  BY <1>0, <1>1, Bounds DEF Fresh, Captures
<1>4. output' \in Outputs /\ Len(output'.queue) <= Capacity /\ QueueNewer(capture, owner, output'.queue)
  <2>1. CASE output' = [output EXCEPT !.closed = TRUE]
    <3>1. output' \in Outputs /\ output'.queue = output.queue
      BY <2>1, Now DEF Outputs
    <3>2. QED
      BY <3>1, Now DEF IInv, Single
  <2>2. CASE output' = [output EXCEPT !.queue = Append(@, Message("error"))] /\ Len(output.queue) # Capacity
    <3>1. PICK message \in Messages : message = Message("error") /\ Fits(capture, owner, message)
      BY MessageOK
    <3>2. PICK sent \in Seq(Messages) : sent = output.queue /\ Len(sent) \in Nat
      BY Now, LenProperties DEF Outputs
    <3>3. /\ Append(sent, message) \in Seq(Messages) /\ Len(Append(sent, message)) = Len(sent) + 1
          /\ \A i \in 1..Len(Append(sent, message)) :
               Append(sent, message)[i] = message \/ (i \in 1..Len(sent) /\ Append(sent, message)[i] = sent[i])
      BY <3>2, AppendFacts
    <3>4. output' \in Outputs /\ output'.queue = Append(sent, message)
      BY <2>2, <3>1, <3>2, <3>3, Now DEF Outputs
    <3>5. Len(sent) <= Capacity /\ Len(sent) # Capacity
      BY <2>2, <3>2 DEF IInv, Single
    <3>6. Len(output'.queue) <= Capacity
      BY <3>2, <3>3, <3>4, <3>5, Bounds
    <3>7. QueueNewer(capture, owner, output'.queue)
      BY <3>1, <3>2, <3>3, <3>4, SentFits
    <3>8. QED
      BY <3>4, <3>6, <3>7
  <2>3. QED
    BY <2>1, <2>2, Zenon DEF Failed
<1>5. tasks' \in Seq(Said)
  BY <1>0, EmptySeq
<1>6. Ranges'
  BY <1>0, <1>2, <1>3, <1>4, <1>5, IdleOK, Now DEF Ranges
<1>7. SameEpoch
  BY <1>0, <1>2, <1>3 DEF SameEpoch, Running
<1>8. Epochs'
  BY <1>0, <1>1, <1>2, <1>3 DEF IInv, Epochs, Running
<1>9. Newer'
  <2>1. QueueNewer(capture', owner', output'.queue)
    BY <1>0, <1>3, <1>4 DEF QueueNewer, Fits, Since
  <2>2. GrabNewer(capture', owner', grab') /\ SampleNewer(capture', owner', capture'.sample)
    BY <1>0, <1>1, <1>3, IdleOK DEF GrabNewer, SampleNewer
  <2>3. QED
    BY <1>0, <2>1, <2>2 DEF IInv, Newer
<1>10. Sized' /\ Single'
  BY <1>2, <1>3, <1>4 DEF Sized, Sizing, Single, Lone
<1>11. QED
  BY <1>6, <1>8, <1>9, <1>10 DEF IInv

----------------------------------------------------------------------------
(* The login service *)

\* The session ends, and the worker is closed.
LEMMA LeavesStep ==
  ASSUME IInv, Leaves, Closes, UNCHANGED screen
  PROVE  IInv'
<1>0. /\ owner' = [owner EXCEPT !.over = TRUE, !.shown = Unpainted, !.probing = FALSE, !.waking = FALSE]
      /\ tasks' = <<>> /\ capture' = [Fresh EXCEPT !.epoch = capture.epoch] /\ grab' = Idle /\ point' = Still
      /\ worker' = [Shut EXCEPT !.epoch = worker.epoch] /\ output' = [queue |-> <<>>, closed |-> TRUE]
  BY DEF Leaves, Gone, Closes
<1>1. worker.epoch \in Nat /\ worker.epoch = capture.epoch /\ capture.epoch \in Nat
  BY Now DEF IInv, Epochs
<1>2. worker' \in Workers /\ worker'.epoch = worker.epoch /\ ~worker'.media
  BY <1>0, <1>1, Bounds DEF Shut, Workers
<1>3. capture' \in Captures /\ capture'.epoch = capture.epoch /\ capture'.sample = {} /\ capture'.pointer = {}
  BY <1>0, <1>1, Bounds DEF Fresh, Captures
<1>4. Unpainted \in Paints /\ Unpainted.picture = 0
  BY Bounds DEF Unpainted, Paints
<1>5. /\ owner' \in Owners /\ owner'.over /\ owner'.generation = owner.generation /\ owner'.from = owner.from
      /\ owner'.shown = Unpainted
  BY <1>0, <1>4, Now DEF Owners
<1>6. output' \in Outputs /\ output'.queue = <<>> /\ Len(output'.queue) = 0 /\ tasks' \in Seq(Said)
  BY <1>0, EmptySeq DEF Outputs
<1>7. Ranges'
  BY <1>0, <1>2, <1>3, <1>5, <1>6, IdleOK, Now DEF Ranges
<1>8. Epochs'
  BY <1>1, <1>2, <1>3, <1>5 DEF IInv, Epochs, Running
<1>9. Newer'
  <2>1. \A i \in 1..Len(output'.queue) : FALSE
    BY <1>6
  <2>2. QueueNewer(capture', owner', output'.queue)
    BY <2>1 DEF QueueNewer
  <2>3. GrabNewer(capture', owner', grab') /\ SampleNewer(capture', owner', capture'.sample)
    BY <1>0, <1>1, <1>3, IdleOK DEF GrabNewer, SampleNewer
  <2>4. QED
    BY <1>4, <1>5, <2>2, <2>3 DEF IInv, Newer
<1>10. Sized' /\ Single'
  BY <1>2, <1>3, <1>6, Bounds DEF Sized, Sizing, Single, Lone
<1>11. QED
  BY <1>7, <1>8, <1>9, <1>10 DEF IInv

\* What is read leaves the Writer.
LEMMA ReadFacts ==
  ASSUME IInv, output.queue # <<>>, output' = [output EXCEPT !.queue = Tail(@)]
  PROVE  /\ output' \in Outputs /\ Len(output'.queue) <= Capacity
         /\ Head(output.queue) \in Messages /\ Fits(capture, owner, Head(output.queue))
         /\ \A c, o : QueueNewer(c, o, output.queue) => QueueNewer(c, o, output'.queue)
<1>1. PICK sent \in Seq(Messages) : sent = output.queue /\ sent # <<>>
  BY Now DEF Outputs
<1>2. /\ Tail(sent) \in Seq(Messages) /\ Head(sent) \in Messages /\ Head(sent) = sent[1] /\ 1 \in 1..Len(sent)
      /\ Len(sent) \in Nat /\ Len(Tail(sent)) = Len(sent) - 1
      /\ \A i \in 1..Len(Tail(sent)) : i + 1 \in 1..Len(sent) /\ Tail(sent)[i] = sent[i + 1]
  BY <1>1, TailFacts
<1>3. output' \in Outputs /\ output'.queue = Tail(sent)
  BY <1>1, <1>2, Now DEF Outputs
<1>4. Len(output'.queue) <= Capacity
  <2>1. Len(sent) <= Capacity
    BY <1>1 DEF IInv, Single
  <2>2. QED
    BY <1>2, <1>3, <2>1, Bounds
<1>5. Fits(capture, owner, Head(output.queue))
  BY <1>1, <1>2, Now DEF QueueNewer
<1>6. QED
  BY <1>1, <1>2, <1>3, <1>4, <1>5 DEF QueueNewer

\* A generation begins: all that is under way is of one before.
LEMMA ConfiguresStep ==
  ASSUME IInv, NEW reset \in BOOLEAN, NEW waking \in BOOLEAN, owner.generation < MaxGenerations,
         Configures(reset, waking), UNCHANGED <<screen, capture, grab, point, worker>>,
         output' \in Outputs, Len(output'.queue) <= Capacity,
         \A c, o : QueueNewer(c, o, output.queue) => QueueNewer(c, o, output'.queue)
  PROVE  IInv'
<1>0. /\ owner' = [owner EXCEPT !.generation = @ + 1, !.from = screen.picture, !.shown = Unpainted,
                                !.waking = waking]
      /\ tasks' = Append(tasks, [Say("configure") EXCEPT !.reset = reset])
  BY DEF Configures
<1>1. Unpainted \in Paints /\ Unpainted.picture = 0
  BY Bounds DEF Unpainted, Paints
<1>2. PICK n \in 0..MaxGenerations : n = owner.generation + 1
  BY Now, Bounds
<1>3. /\ owner' \in Owners /\ owner'.generation = n /\ owner'.from = screen.picture /\ owner'.shown = Unpainted
      /\ owner'.over = owner.over
  <2>1. owner' = [owner EXCEPT !.generation = n, !.from = screen.picture, !.shown = Unpainted, !.waking = waking]
    BY <1>0, <1>2, Now DEF Owners
  <2>2. QED
    BY <1>1, <2>1, Now DEF Owners
<1>t. PICK t : t = [Say("configure") EXCEPT !.reset = reset]
  OBVIOUS
<1>4. t \in Said /\ t.kind = "configure"
  BY <1>t DEF Say, Said, Kinds
<1>5. tasks' \in Seq(Said) /\ (Running => Configuring(tasks', capture.epoch, n))
  <2>1. tasks' = Append(tasks, t) /\ tasks' \in Seq(Said)
    BY <1>0, <1>t, <1>4, Now, AppendFacts
  <2>2. ASSUME Running PROVE Configuring(tasks', capture.epoch, n)
    BY <1>2, <1>4, <2>1, <2>2, Now, AppendCounts
  <2>3. QED
    BY <2>1, <2>2
<1>6. Ranges'
  BY <1>3, <1>5, Now DEF Ranges
<1>7. Epochs'
  BY <1>2, <1>3, <1>5, Now DEF IInv, Epochs, Running
<1>8. Newer'
  <2>1. PICK o \in Owners : o = owner' /\ o.generation \in Nat /\ o.generation = owner.generation + 1
    BY <1>2, <1>3, Bounds
  <2>2. /\ GrabNewer(capture, o, grab) /\ SampleNewer(capture, o, capture.sample)
        /\ QueueNewer(capture, o, output.queue)
    BY <2>1, Now, LaterKeeps
  <2>3. QueueNewer(capture, o, output'.queue)
    BY <2>2
  <2>4. QED
    BY <1>1, <1>3, <2>1, <2>2, <2>3, Now DEF Newer
<1>9. Sized' /\ Single'
  BY DEF IInv, Sized, Sizing, Single, Lone
<1>10. QED
  BY <1>6, <1>7, <1>8, <1>9 DEF IInv

\* A message is read that changes no generation: what it shows is new enough.
LEMMA ShownStep ==
  ASSUME IInv, output.queue # <<>>, output' = [output EXCEPT !.queue = Tail(@)],
         UNCHANGED <<screen, capture, grab, point, worker, tasks>>, owner' \in Owners,
         owner'.generation = owner.generation, owner'.from = owner.from, owner'.over = owner.over,
         owner'.shown.picture # 0 => owner'.shown.picture >= owner.from
  PROVE  IInv'
<1>1. output' \in Outputs /\ Len(output'.queue) <= Capacity /\ QueueNewer(capture, owner, output'.queue)
  BY Now, ReadFacts
<1>2. Ranges'
  BY <1>1, Now DEF Ranges
<1>3. Epochs'
  BY DEF IInv, Epochs, Running
<1>4. Newer'
  <2>1. QueueNewer(capture', owner', output'.queue)
    BY <1>1 DEF QueueNewer, Fits, Since
  <2>2. GrabNewer(capture', owner', grab') /\ SampleNewer(capture', owner', capture'.sample)
    BY Now DEF GrabNewer, SampleNewer, Since
  <2>3. QED
    BY <2>1, <2>2, Now DEF Newer
<1>5. Sized' /\ Single'
  BY <1>1 DEF IInv, Sized, Sizing, Single, Lone
<1>6. QED
  BY <1>2, <1>3, <1>4, <1>5 DEF IInv

\* The login service reads a message, hears of the end, or starts a generation.
LEMMA OwnerSteps ==
  ASSUME IInv, Receive \/ EndOfFile \/ OwnerConfigures
  PROVE  IInv'
<1>0. owner \in Owners /\ owner.waking \in BOOLEAN /\ owner.shown \in Paints /\ TRUE \in BOOLEAN
  BY Now DEF Owners
<1>1. CASE EndOfFile
  BY <1>1, LeavesStep DEF EndOfFile
<1>2. CASE OwnerConfigures
  <2>1. PICK reset \in BOOLEAN : Configures(reset, owner.waking)
    BY <1>2 DEF OwnerConfigures
  <2>2. /\ owner.generation < MaxGenerations /\ UNCHANGED <<screen, capture, grab, point, worker, output>>
    BY <1>2 DEF OwnerConfigures
  <2>3. output' \in Outputs /\ Len(output'.queue) <= Capacity
    BY <2>2, Now DEF IInv, Single
  <2>4. \A c, o : QueueNewer(c, o, output.queue) => QueueNewer(c, o, output'.queue)
    BY <2>2
  <2>5. QED
    BY <1>0, <2>1, <2>2, <2>3, <2>4, ConfiguresStep
<1>3. CASE Receive
  <2>0. /\ ~owner.over /\ output.queue # <<>> /\ UNCHANGED screen
        /\ IF owner'.over THEN Closes
           ELSE output' = [output EXCEPT !.queue = Tail(@)] /\ UNCHANGED <<capture, grab, point, worker>>
    BY <1>3 DEF Receive
  <2>1. PICK message : message = Head(output.queue)
    OBVIOUS
  <2>2. \/ owner' = [owner EXCEPT !.probing = FALSE] /\ UNCHANGED tasks
        \/ Leaves
        \/ \E reset \in BOOLEAN, waking \in BOOLEAN : Configures(reset, waking)
        \/ /\ message.kind \in {"frame", "cursor"} /\ message.generation = owner.generation
           /\ owner' = [owner EXCEPT !.shown = Shown(message), !.waking = @ /\ message.kind # "frame"]
           /\ UNCHANGED tasks
        \/ UNCHANGED <<owner, tasks>>
    BY <1>0, <1>3, <2>1, Zenon DEF Receive
  <2>3. CASE Leaves
    <3>1. owner'.over
      BY <1>0, <2>3 DEF Leaves, Gone, Owners
    <3>2. QED
      BY <2>0, <2>3, <3>1, LeavesStep
  <2>4. ASSUME NEW reset \in BOOLEAN, NEW waking \in BOOLEAN, Configures(reset, waking) PROVE IInv'
    <3>1. CASE ~(owner.generation < MaxGenerations)
      BY <2>3, <2>4, <3>1 DEF Configures
    <3>2. CASE owner.generation < MaxGenerations
      <4>1. owner'.over = owner.over
        BY <1>0, <2>4, <3>2 DEF Configures, Owners
      <4>2. output' = [output EXCEPT !.queue = Tail(@)] /\ UNCHANGED <<capture, grab, point, worker>>
        BY <2>0, <4>1
      <4>3. /\ output' \in Outputs /\ Len(output'.queue) <= Capacity
            /\ \A c, o : QueueNewer(c, o, output.queue) => QueueNewer(c, o, output'.queue)
        BY <2>0, <4>2, ReadFacts
      <4>4. QED
        BY <2>0, <2>4, <3>2, <4>2, <4>3, ConfiguresStep
    <3>3. QED
      BY <3>1, <3>2
  <2>5. ASSUME owner' \in Owners, owner'.generation = owner.generation, owner'.from = owner.from,
               owner'.over = owner.over, owner'.shown.picture # 0 => owner'.shown.picture >= owner.from,
               UNCHANGED tasks
        PROVE  IInv'
    BY <2>0, <2>5, ShownStep
  <2>6. CASE UNCHANGED <<owner, tasks>>
    BY <1>0, <2>5, <2>6 DEF IInv, Newer
  <2>7. CASE owner' = [owner EXCEPT !.probing = FALSE] /\ UNCHANGED tasks
    <3>1. /\ owner' \in Owners /\ owner'.generation = owner.generation /\ owner'.from = owner.from
          /\ owner'.over = owner.over /\ owner'.shown = owner.shown
      BY <1>0, <2>7 DEF Owners
    <3>2. QED
      BY <2>5, <2>7, <3>1 DEF IInv, Newer
  <2>8. CASE /\ message.kind \in {"frame", "cursor"} /\ message.generation = owner.generation
             /\ owner' = [owner EXCEPT !.shown = Shown(message), !.waking = @ /\ message.kind # "frame"]
             /\ UNCHANGED tasks
    <3>1. message \in Messages /\ Fits(capture, owner, message)
      <4>1. output.queue \in Seq(Messages)
        BY Now DEF Outputs
      <4>2. Head(output.queue) \in Messages /\ Head(output.queue) = output.queue[1] /\ 1 \in 1..Len(output.queue)
        BY <2>0, <4>1, TailFacts
      <4>3. QED
        BY <2>1, <4>2, Now DEF QueueNewer
    <3>2. PICK shown : shown = Shown(message)
      OBVIOUS
    <3>3. shown \in Paints /\ (shown.picture = owner.shown.picture \/
                               (message.kind = "frame" /\ shown.picture = message.picture))
      <4>1. CASE message.kind = "frame"
        BY <1>0, <3>1, <3>2, <4>1 DEF Shown, Paints, Messages
      <4>2. CASE message.kind # "frame"
        <5>1. PICK b \in BOOLEAN : b = (owner.shown.shaped \/ message.shaped)
          OBVIOUS
        <5>2. shown = [owner.shown EXCEPT !.pointer = message.pointer, !.shaped = b]
          BY <1>0, <3>2, <4>2, <5>1 DEF Shown, Paints
        <5>3. QED
          BY <1>0, <3>1, <5>2 DEF Paints, Messages
      <4>3. QED
        BY <4>1, <4>2
    <3>4. shown.picture # 0 => shown.picture >= owner.from
      BY <2>8, <3>1, <3>3 DEF Fits, Since, IInv, Newer
    <3>5. PICK waking \in BOOLEAN : waking = (owner.waking /\ message.kind # "frame")
      OBVIOUS
    <3>6. owner' = [owner EXCEPT !.shown = shown, !.waking = waking]
      BY <1>0, <2>8, <3>2, <3>5 DEF Owners
    <3>7. /\ owner' \in Owners /\ owner'.generation = owner.generation /\ owner'.from = owner.from
          /\ owner'.over = owner.over /\ owner'.shown = shown
      BY <1>0, <3>3, <3>6 DEF Owners
    <3>8. QED
      BY <2>5, <2>8, <3>4, <3>7
  <2>9. QED
    BY <2>2, <2>3, <2>4, <2>6, <2>7, <2>8
<1>4. QED
  BY <1>1, <1>2, <1>3

----------------------------------------------------------------------------
(* The invariant *)

\* Nothing is under way as the worker starts.
LEMMA InitIInv == Init => IInv
<1> SUFFICES ASSUME Init PROVE IInv
  OBVIOUS
<1>1. Unpainted \in Paints /\ Unpainted.picture = 0
  BY Bounds DEF Unpainted, Paints
<1>2. /\ owner \in Owners /\ owner.generation = 0 /\ owner.from = 0 /\ owner.shown = Unpainted
  <2>1. owner \in [generation : {0}, from : {0}, waking : {FALSE}, probing : BOOLEAN, over : {FALSE},
                   shown : {Unpainted}]
    BY DEF Init
  <2>2. PICK probing \in BOOLEAN :
          owner = [generation |-> 0, from |-> 0, waking |-> FALSE, probing |-> probing, over |-> FALSE,
                   shown |-> Unpainted]
    BY <2>1
  <2>3. owner \in Owners
    BY <1>1, <2>2, Bounds DEF Owners
  <2>4. QED
    BY <2>2, <2>3
<1>3. screen \in Screens
  BY Bounds DEF Init, Screens
<1>4. capture \in Captures /\ capture.epoch = 0 /\ capture.sample = {} /\ capture.pointer = {}
  BY Bounds DEF Init, Fresh, Captures
<1>5. worker \in Workers /\ worker.epoch = 0 /\ ~worker.media
  BY Bounds DEF Init, Shut, Workers
<1>6. output \in Outputs /\ output.queue = <<>> /\ Len(output.queue) = 0
  BY EmptySeq DEF Init, Outputs
<1>7. tasks \in Seq(Said) /\ Configuring(tasks, 0, 0)
  <2>1. <<>> \in Seq(Said) /\ Len(<<>>) = 0
    BY EmptySeq
  <2>2. Configuring(<<>>, 0, 0)
    <3>1. PICK number \in [0..0 -> 0..0] : number[0] = 0
      <4>1. [i \in 0..0 |-> 0] \in [0..0 -> 0..0] /\ [i \in 0..0 |-> 0][0] = 0
        OBVIOUS
      <4>2. QED
        BY <4>1
    <3>2. QED
      BY <2>1, <3>1 DEF Configuring, Counts
  <2>3. Say("probe") \in Said /\ Say("probe").kind # "configure"
    BY SayOK DEF Kinds
  <2>4. Append(<<>>, Say("probe")) \in Seq(Said) /\ Configuring(Append(<<>>, Say("probe")), 0, 0)
    BY <2>1, <2>2, <2>3, AppendFacts, AppendCounts
  <2>5. Append(<<>>, Say("probe")) = <<Say("probe")>>
    BY <2>3
  <2>6. tasks = <<>> \/ tasks = <<Say("probe")>>
    BY DEF Init
  <2>7. QED
    BY <2>1, <2>2, <2>4, <2>5, <2>6
<1>8. grab = Idle /\ point = Still
  BY DEF Init
<1>9. Ranges
  BY <1>2, <1>3, <1>4, <1>5, <1>6, <1>7, <1>8, IdleOK DEF Ranges
<1>10. Epochs
  BY <1>2, <1>4, <1>5, <1>7 DEF Epochs
<1>11. Newer
  <2>1. QueueNewer(capture, owner, output.queue)
    BY <1>6 DEF QueueNewer
  <2>2. GrabNewer(capture, owner, grab) /\ SampleNewer(capture, owner, capture.sample)
    BY <1>4, <1>8, IdleOK DEF GrabNewer, SampleNewer
  <2>3. QED
    BY <1>1, <1>2, <1>3, <2>1, <2>2 DEF Newer, Screens
<1>12. Sized /\ Single
  BY <1>4, <1>5, <1>6, Bounds DEF Sized, Sizing, Single, Lone
<1>13. QED
  BY <1>9, <1>10, <1>11, <1>12 DEF IInv

\* Each step keeps what is under way new enough.
LEMMA NextIInv == IInv /\ [Next]_vars => IInv'
<1> SUFFICES ASSUME IInv, [Next]_vars PROVE IInv'
  OBVIOUS
<1>1. ASSUME UNCHANGED vars PROVE IInv'
  <2>1. UNCHANGED <<screen, capture, grab, point, tasks, worker, output, owner>>
    BY <1>1 DEF vars
  <2>2. Ranges' /\ Sized' /\ Single'
    BY <2>1 DEF IInv, Ranges, Sized, Sizing, Single, Lone
  <2>3. SameEpoch
    BY <2>1 DEF SameEpoch, Running
  <2>4. screen'.picture >= screen.picture
    BY <2>1, Now
  <2>5. QED
    BY <2>1, <2>2, <2>3, <2>4, Now, Kept
<1>2. CASE Change \/ Move \/ Darken \/ Wakes \/ SettleOver
  BY <1>2, DisplaySteps
<1>3. CASE Grab
  BY <1>3, SnapshotStep, DarkSteps, CheckStep DEF Grab
<1>4. CASE Point \/ Fails
  BY <1>4, PointSteps, DarkSteps DEF Point, Fails
<1>5. CASE Dispatch
  BY <1>5, ConfigureStep, ProbeStep, TellSteps, SampleStep, PointerStep, FailedStep DEF Dispatch
<1>6. CASE OwnerConfigures \/ Receive \/ EndOfFile
  BY <1>6, OwnerSteps
<1>7. QED
  BY <1>1, <1>2, <1>3, <1>4, <1>5, <1>6 DEF Next

\* What it says of what is shown
LEMMA NewerShown == IInv => NothingOlder
<1> SUFFICES ASSUME IInv PROVE NothingOlder
  OBVIOUS
<1>1. ASSUME NEW set, Lone(set) PROVE Cardinality(set) <= 1
  <2>1. CASE set = {}
    BY <2>1, FS_EmptySet
  <2>2. ASSUME NEW s \in set PROVE Cardinality(set) <= 1
    <3>1. set = {s}
      BY <1>1 DEF Lone
    <3>2. Cardinality({s}) = 1
      BY FS_Singleton
    <3>3. QED
      BY <3>1, <3>2
  <2>3. QED
    BY <2>1, <2>2
<1>2. Cardinality(capture.sample) <= 1 /\ Cardinality(capture.pointer) <= 1
  BY <1>1 DEF IInv, Single
<1>3. capture.epoch \in 0..MaxGenerations
  BY Now, Bounds DEF IInv, Epochs, Owners
<1>4. TypeOK
  BY <1>2, <1>3, Now DEF TypeOK, Screens, IInv, Single, Epochs
<1>5. QED
  BY <1>4 DEF NothingOlder, IInv, Newer, Sized, Sizing

\* A generation shows nothing that was scanned out before the login service started it,
\* and one size: nothing of an epoch that has ended reaches the next (configure, publish
\* and the capture thread's check of its epoch).
THEOREM NothingOlderHolds == Spec => []NothingOlder
<1>1. Spec => []IInv
  BY InitIInv, NextIInv, PTL DEF Spec
<1>2. QED
  BY <1>1, NewerShown, PTL
=============================================================================
