--------------------------- MODULE NativeInputProofs ---------------------------
(***************************************************************************)
(* Proofs about NativeInput, for any bounds, kinds of requests, events and *)
(* route.                                                                  *)
(*                                                                         *)
(* AnsweredOnce is not inductive.  That a settled request has one reply    *)
(* needs that no queue and no adapter still names it; that an adapter's    *)
(* operation is the one that a scheduler waits for needs that one viewer   *)
(* alone has anything open.  IInv says so in parts: a request is in one    *)
(* place (Once), its status says where (Placed, Found), its replies follow *)
(* its status (Replying), the requests were made in the order of their     *)
(* stamps (Numbered), only the viewer that controls waits (Sole), and the  *)
(* adapters, one at a time, work for what is pending (Adapting).           *)
(*                                                                         *)
(* A step of the helper does one of eleven things to the requests (Moves), *)
(* whatever the handler was: StepMoves sorts the actions, BooksKept takes  *)
(* the parts of IInv through each of the eleven.                           *)
(*                                                                         *)
(* OnlyControllerInput speaks of the key the compositor holds, and so of   *)
(* the channel.  Keys says that a key whose viewer no longer controls,     *)
(* held or still in the channel, has a release of its connection behind it *)
(* (Lifting), that what an attached viewer sent has the connection that    *)
(* the helper serves (Carried), and that a compositor that was lost holds  *)
(* nothing (Ending).  SpeechKeeps states what the helper may send for that *)
(* to last, HoldingKeeps what the compositor may do.                       *)
(***************************************************************************)
EXTENDS NativeInput, SequenceTheorems, FiniteSetTheorems, WellFoundedInduction, TLAPS

\* What the channels hold, and what the records hold
Opt == Stamps \cup {0}
Told == {"connection", "detach", "release", "cancel", "close", "select", "down", "up", "press", "lift",
         "clip", "barrier", "text"}
Lines == [to : Told, e : 0..MaxConnections, gen : 0..MaxScenes, n : Nat, s : Opt]
Records == {r \in [rec : {"scene", "barrier", "text", "clip", "lost"}, n : Nat, ok : BOOLEAN] :
              r.rec = "scene" => r.n <= MaxScenes}
Views == [ready : 0..MaxScenes, failed : BOOLEAN, queue : Seq(Stamps), pending : Opt]
Texts == [op : Opt, stage : {"none", "marker", "before", "text", "after"}, code : Codes,
          taken : BOOLEAN, done : BOOLEAN, request : Nat, seq : Nat, requests : Nat, next : Nat]
Statuses == {"none", "queued", "issued", "confirmed", "failed", "refused"}
Requests == [conn : 0..MaxConnections, kind : {"none", "down", "up", "text", "clip", "close"},
             gen : 0..MaxScenes, status : Statuses, replies : Nat]
Comps == [connection : 0..MaxConnections, scene : 1..MaxScenes, live : BOOLEAN, held : Opt, mark : Int,
          barrier : Nat, pinged : BOOLEAN, lost : BOOLEAN]

PlaceOK == /\ connections \in 0..MaxConnections /\ attached \subseteq 1..connections
           /\ controller \in attached \cup {0} /\ (attached # {} => controller # 0)
           /\ draining \in attached \cup {0}
ViewOK == view \in [Connections -> Views] /\ \A c \in Connections : Len(view[c].queue) <= MaxQueue
NativeOK == native \in [epoch : 0..MaxConnections, target : 0..MaxScenes, closed : BOOLEAN]
TextOK == ctx \in Texts
SlotsOK == slots \in [Codes -> [used : BOOLEAN, text : Opt, pressed : BOOLEAN]]
ClipOK == clip \in [op : Opt, seq : Nat]
ReqOK == req \in [Stamps -> Requests]
CompOK == comp \in Comps
LinesOK == toComp \in Seq(Lines)
RecordsOK == toHelper \in Seq(Records)
AppOK == /\ app.state \in {"idle", "asking", "got", "gone"}
         /\ app = [state |-> app.state, mark |-> app.mark, seq |-> app.seq, text |-> app.text,
                   dones |-> app.dones]

\* Only the viewer that controls has requests that are not settled.
Busy(c) == view[c].queue # <<>> \/ view[c].pending # 0
Sole == \A c \in Connections : Busy(c) => c = controller /\ ~view[c].failed

\* A request is in one place.
Once == \A c \in Connections :
  /\ \A i, j \in 1..Len(view[c].queue) : view[c].queue[i] = view[c].queue[j] => i = j
  /\ \A i \in 1..Len(view[c].queue) : view[c].queue[i] # view[c].pending

\* Its status says where.
Placed == \A c \in Connections :
  /\ \A i \in 1..Len(view[c].queue) : LET s == view[c].queue[i] IN
       req[s].status = "queued" /\ req[s].conn = c
  /\ view[c].pending # 0 => LET s == view[c].pending IN
       req[s].status = "issued" /\ req[s].conn = c /\ req[s].gen = native.target
Found == \A s \in Stamps :
  /\ req[s].status = "queued" => \E c \in Connections : \E i \in 1..Len(view[c].queue) : view[c].queue[i] = s
  /\ req[s].status = "issued" => \E c \in Connections : view[c].pending = s

Waits(s) == req[s].status \in {"queued", "issued"}
Replying == \A s \in Stamps :
  /\ req[s].status = "none" \/ Waits(s) => req[s].replies = 0
  /\ req[s].status # "none" => req[s].conn \in 1..connections
  /\ req[s].status \in {"confirmed", "failed", "refused"} =>
       req[s].replies = 1 \/ (req[s].replies = 0 /\ req[s].conn \notin attached)

\* Requests are made in the order of their stamps.
Numbered == \E n \in 0..MaxRequests : \A s \in Stamps : req[s].status # "none" <=> s <= n

\* An adapter works for the pending operation, and no two at once.
Adapting ==
  /\ ctx.op = 0 \/ clip.op = 0
  /\ \A c \in Connections : view[c].pending # 0 => view[c].pending \in {ctx.op, clip.op}
  /\ \A s \in {ctx.op, clip.op} : s # 0 => \E c \in Connections : view[c].pending = s

Staged == ctx.stage # "none" => ctx.op # 0
Draining == draining # 0 => view[draining].queue # <<>> /\ view[draining].pending = 0

----------------------------------------------------------------------------
(* Sequences and records *)

\* The bounds are numbers.
LEMMA Bounds ==
  /\ MaxConnections \in Nat \ {0} /\ MaxRequests \in Nat \ {0} /\ MaxScenes \in Nat \ {0}
  /\ MaxQueue \in Nat \ {0} /\ SlotCount \in Nat \ {0}
  BY BoundsAssumption

\* An element is in the set of a sequence's elements where it has a place.
LEMMA Elements ==
  ASSUME NEW S, NEW q \in Seq(S), NEW s
  PROVE  s \in ToSet(q) <=> \E i \in 1..Len(q) : q[i] = s
  BY LenProperties DEF ToSet

\* The fields of a view.
LEMMA ViewFields ==
  ASSUME ViewOK, NEW c \in Connections
  PROVE  /\ view[c] \in Views
         /\ view[c].ready \in 0..MaxScenes /\ view[c].failed \in BOOLEAN
         /\ view[c].queue \in Seq(Stamps) /\ view[c].pending \in Opt
         /\ Len(view[c].queue) \in Nat /\ Len(view[c].queue) <= MaxQueue
  BY LenProperties DEF ViewOK, Views

\* What is open for some viewers is in the queue of one, or pending there.
LEMMA OpenMeans ==
  ASSUME ViewOK, NEW C \in SUBSET Connections, NEW s
  PROVE  s \in OpenOf(C) <=> \E c \in C : \/ s = view[c].pending /\ s # 0
                                          \/ \E i \in 1..Len(view[c].queue) : view[c].queue[i] = s
<1>1. \A c \in C : s \in Open(c) <=> \/ s = view[c].pending /\ s # 0
                                     \/ \E i \in 1..Len(view[c].queue) : view[c].queue[i] = s
  <2> SUFFICES ASSUME NEW c \in C
               PROVE  s \in Open(c) <=> \/ s = view[c].pending /\ s # 0
                                        \/ \E i \in 1..Len(view[c].queue) : view[c].queue[i] = s
    OBVIOUS
  <2>1. s \in ToSet(view[c].queue) <=> \E i \in 1..Len(view[c].queue) : view[c].queue[i] = s
    BY ViewFields, Elements
  <2>2. QED
    BY <2>1 DEF Open
<1>2. QED
  BY <1>1 DEF OpenOf

\* The ways a view is emptied.
Blank(v) == {Emptied(v), Retired(v), Failed(v), NoView}
\* Such a view has nothing open.
LEMMA BlankFields ==
  ASSUME NEW v \in Views, NEW w \in Blank(v)
  PROVE  w \in Views /\ w.queue = <<>> /\ w.pending = 0 /\ Len(w.queue) = 0
<1>1. <<>> \in Seq(Stamps) /\ Len(<<>>) = 0 /\ 0 \in 0..MaxScenes /\ 0 \in Opt
  BY EmptySeq, Bounds DEF Opt
<1>2. Emptied(v) \in Views
  BY <1>1 DEF Emptied, Views
<1>a. Retired(v) \in Views
  BY <1>1, <1>2 DEF Retired, Views
<1>b. Failed(v) \in Views
  BY <1>a DEF Failed, Views
<1>c. NoView \in Views
  BY <1>1 DEF NoView, Views
<1>3. /\ Emptied(v).queue = <<>> /\ Retired(v).queue = <<>> /\ Failed(v).queue = <<>>
      /\ Emptied(v).pending = 0 /\ Retired(v).pending = 0 /\ Failed(v).pending = 0
  BY DEF Emptied, Retired, Failed, Views
<1>4. NoView.queue = <<>> /\ NoView.pending = 0
  BY DEF NoView
<1>5. w = Emptied(v) \/ w = Retired(v) \/ w = Failed(v) \/ w = NoView
  BY Zenon DEF Blank
<1>6. w \in Views /\ w.queue = <<>> /\ w.pending = 0
  BY <1>2, <1>a, <1>b, <1>c, <1>3, <1>4, <1>5, Zenon
<1>7. QED
  BY <1>1, <1>6

----------------------------------------------------------------------------
(* What a step does to the requests, in eleven kinds of moves *)

Blanked(C) ==
  /\ view' = [c \in Connections |-> view'[c]]
  /\ \A c \in Connections : IF c \in C THEN view'[c] \in Blank(view[c]) ELSE view'[c] = view[c]
Cleared(C, replied) ==
  /\ Blanked(C)
  /\ ctx'.op = IF ctx.op \in OpenOf(C) THEN 0 ELSE ctx.op
  /\ clip'.op = IF clip.op \in OpenOf(C) THEN 0 ELSE clip.op
  /\ req' = Answered(C, replied)
  /\ draining' = 0

place == <<connections, attached, controller>>
Rests == UNCHANGED <<place, view, req, draining, native>> /\ ctx'.op = ctx.op /\ clip'.op = clip.op
Paints == \E c \in attached :
  /\ draining = 0
  /\ native.target # 0 /\ view' = [view EXCEPT ![c].ready = native.target]
  /\ UNCHANGED <<place, req, draining, native, ctx, clip>>
Arrives == /\ draining = 0 /\ connections < MaxConnections
           /\ connections' = connections + 1
           /\ attached' = attached \cup {connections + 1} /\ controller' = connections + 1
ComesFirst == /\ Arrives /\ attached = {}
              /\ native' = [native EXCEPT !.epoch = connections + 1]
              /\ UNCHANGED <<view, req, draining, ctx, clip>>
TakesOver == /\ Arrives /\ attached # {}
             /\ Cleared({controller} \cap attached, TRUE) /\ UNCHANGED native
Leaves == \E c \in attached :
  /\ draining = 0
  /\ attached' = Without(c) /\ controller' = IF controller = c THEN Newest(Without(c)) ELSE controller
  /\ Cleared({c}, FALSE) /\ native' \in {native, [native EXCEPT !.epoch = 0]}
  /\ UNCHANGED connections
Clears == \E C \in SUBSET attached :
  /\ Cleared(C, TRUE) /\ (C = attached \/ UNCHANGED native)
  /\ UNCHANGED place
Queues == \E c \in attached, k \in Kinds :
  /\ draining = 0 /\ Cardinality(Made) < MaxRequests
  /\ Admissible(c, k) /\ Len(view[c].queue) < MaxQueue
  /\ LET v == [view[c] EXCEPT !.queue = Append(@, NewStamp)] IN
       view' = [view EXCEPT ![c] = v] /\ draining' = Drains(c, v)
  /\ req' = [req EXCEPT ![NewStamp] = New(c, k, "queued", 0)]
  /\ UNCHANGED <<place, native, ctx, clip>>
Closes == \E c \in attached, status \in {"confirmed", "refused"} :
  /\ draining = 0 /\ Cardinality(Made) < MaxRequests
  /\ req' = [req EXCEPT ![NewStamp] = New(c, "close", status, 1)]
  /\ UNCHANGED <<place, view, draining, native, ctx, clip>>
Confirms == \E c \in attached :
  /\ draining = 0
  /\ view[c].pending # 0 /\ Succeed(c)
  /\ ctx'.op = IF ctx.op = view[c].pending THEN 0 ELSE ctx.op
  /\ clip'.op = IF clip.op = view[c].pending THEN 0 ELSE clip.op
  /\ UNCHANGED <<place, native>>
Replies == \E c \in attached, status \in {"confirmed", "refused"} :
  Turn(c) /\ Replied(c, status) /\ UNCHANGED <<place, native>>
Suspends == \E c \in attached :
  /\ Turn(c) /\ Admitted(c) /\ Pends(c) /\ ctx.op = 0 /\ clip.op = 0
  /\ \/ ctx'.op = Op(c) /\ clip'.op = 0
     \/ ctx'.op = 0 /\ clip'.op = Op(c)
  /\ UNCHANGED <<place, native>>
Moves == Rests \/ Paints \/ ComesFirst \/ TakesOver \/ Leaves \/ Clears \/ Queues \/ Closes
           \/ Confirms \/ Replies \/ Suspends

\* Giving up the requests of some viewers, as Revoke does it.
LEMMA RevokeClears ==
  ASSUME ViewOK, NEW C, NEW replied,
         view' = [c \in Connections |-> view'[c]],
         \A c \in Connections : IF c \in C THEN view'[c] \in Blank(view[c]) ELSE view'[c] = view[c],
         ctx' = TextCancelled(C), clip' = ClipCancelled(C), TextOK, ClipOK,
         req' = Answered(C, replied), draining' = 0
  PROVE  Cleared(C, replied)
<1>1. TextEnded.op = 0
  BY DEF TextEnded, NoText
<1>2. ctx'.op = IF ctx.op \in OpenOf(C) THEN 0 ELSE ctx.op
  BY <1>1 DEF TextCancelled
<1>3. clip'.op = IF clip.op \in OpenOf(C) THEN 0 ELSE clip.op
  BY DEF ClipCancelled, ClipOK
<1>4. QED
  BY <1>2, <1>3 DEF Cleared, Blanked

\* An operation that ends in an error.
LEMMA ErrorClears ==
  ASSUME ViewOK, TextOK, ClipOK, NEW c \in Connections, Error(c)
  PROVE  Cleared({c}, TRUE)
<1>1. /\ view' = [d \in Connections |-> IF d \in {c} THEN Failed(view[d]) ELSE view[d]]
      /\ ctx' = TextCancelled({c}) /\ clip' = ClipCancelled({c})
      /\ req' = Answered({c}, TRUE) /\ draining' = 0
  BY DEF Error, Revoke
<1>2. \A d \in Connections : IF d \in {c} THEN view'[d] \in Blank(view[d]) ELSE view'[d] = view[d]
  BY <1>1 DEF Blank
<1>3. QED
  BY <1>1, <1>2, RevokeClears

\* The holder of an adapter's operation.
LEMMA HolderOf ==
  ASSUME PlaceOK, Sole, NEW op, op # 0, \E c \in Connections : view[c].pending = op
  PROVE  Holder(op) \in attached /\ Holder(op) \in Connections /\ view[Holder(op)].pending = op
<1>1. Holder(op) \in Connections /\ view[Holder(op)].pending = op
  BY DEF Holder
<1>2. Holder(op) = controller /\ Holder(op) # 0
  BY <1>1 DEF Sole, Busy, Connections
<1>3. QED
  BY <1>1, <1>2 DEF PlaceOK

\* Viewers whose queue is emptied.
LEMMA EmptyClears ==
  ASSUME ViewOK, TextOK, ClipOK, NEW C, NEW lines, Revoke(C, Emptied, lines, TRUE)
  PROVE  Cleared(C, TRUE)
<1>1. /\ view' = [d \in Connections |-> IF d \in C THEN Emptied(view[d]) ELSE view[d]]
      /\ ctx' = TextCancelled(C) /\ clip' = ClipCancelled(C)
      /\ req' = Answered(C, TRUE) /\ draining' = 0
  BY DEF Revoke
<1>2. \A d \in Connections : IF d \in C THEN view'[d] \in Blank(view[d]) ELSE view'[d] = view[d]
  BY <1>1 DEF Blank
<1>3. QED
  BY <1>1, <1>2, RevokeClears

\* Viewers whose target is retired.
LEMMA RetireClears ==
  ASSUME ViewOK, TextOK, ClipOK, NEW C, NEW lines, Revoke(C, Retired, lines, TRUE)
  PROVE  Cleared(C, TRUE)
<1>1. /\ view' = [d \in Connections |-> IF d \in C THEN Retired(view[d]) ELSE view[d]]
      /\ ctx' = TextCancelled(C) /\ clip' = ClipCancelled(C)
      /\ req' = Answered(C, TRUE) /\ draining' = 0
  BY DEF Revoke
<1>2. \A d \in Connections : IF d \in C THEN view'[d] \in Blank(view[d]) ELSE view'[d] = view[d]
  BY <1>1 DEF Blank
<1>3. QED
  BY <1>1, <1>2, RevokeClears

\* A viewer that leaves.
LEMMA LeaveMoves ==
  ASSUME PlaceOK, ViewOK, TextOK, ClipOK, NEW c \in attached, draining = 0, Leave(c), UNCHANGED connections
  PROVE  Leaves
<1>0. c \in Connections
  BY Bounds DEF PlaceOK, Connections
<1>1. /\ view' = [d \in Connections |-> IF d \in {c} THEN NoView ELSE view[d]]
      /\ ctx' = TextCancelled({c}) /\ clip' = ClipCancelled({c})
      /\ req' = Answered({c}, FALSE) /\ draining' = 0
      /\ attached' = Without(c)
      /\ controller' = IF controller = c THEN Newest(Without(c)) ELSE controller
      /\ native' \in {native, [native EXCEPT !.epoch = 0]}
  BY DEF Leave, Revoke
<1>2. \A d \in Connections : IF d \in {c} THEN view'[d] \in Blank(view[d]) ELSE view'[d] = view[d]
  BY <1>1 DEF Blank
<1>3. Cleared({c}, FALSE)
  BY <1>1, <1>2, RevokeClears
<1>4. QED
  BY <1>1, <1>3 DEF Leaves

\* What the moves stand on.
Grounds == PlaceOK /\ ViewOK /\ TextOK /\ ClipOK /\ Sole /\ Adapting /\ Staged /\ Draining

\* The helper has a holder for an adapter's operation.
LEMMA Held ==
  ASSUME Grounds
  PROVE  /\ ctx.op # 0 => Holder(ctx.op) \in attached \cap Connections /\ view[Holder(ctx.op)].pending = ctx.op
         /\ clip.op # 0 => Holder(clip.op) \in attached \cap Connections /\ view[Holder(clip.op)].pending = clip.op
  BY HolderOf DEF Grounds, Adapting

\* What was abandoned with an error is cleared.
LEMMA ErrorMoves ==
  ASSUME Grounds, NEW c \in attached, Error(c), UNCHANGED <<place, native>>
  PROVE  Clears
<1>1. c \in Connections
  BY Bounds DEF Grounds, PlaceOK, Connections
<1>2. Cleared({c}, TRUE)
  BY <1>1, ErrorClears DEF Grounds
<1>3. QED
  BY <1>2 DEF Clears, place

\* The lost compositor takes the input of all.
LEMMA FallMoves ==
  ASSUME Grounds, NEW lines, NEW already, Fall(lines, already), UNCHANGED <<connections, attached, controller>>
  PROVE  Clears
<1>1. /\ view' = [d \in Connections |-> view'[d]]
      /\ \A d \in Connections : IF d \in attached THEN view'[d] \in Blank(view[d]) ELSE view'[d] = view[d]
      /\ ctx' = TextCancelled(attached) /\ clip' = ClipClosed
      /\ req' = Answered(attached, TRUE) /\ draining' = 0
  BY DEF Fall, Blank
<1>2. clip.op # 0 => clip.op \in OpenOf(attached)
  <2>1. clip.op # 0 => Holder(clip.op) \in attached /\ view[Holder(clip.op)].pending = clip.op
    BY Held
  <2>2. QED
    BY <2>1 DEF OpenOf, Open
<1>3. TextEnded.op = 0
  BY DEF TextEnded, NoText
<1>4. ctx'.op = IF ctx.op \in OpenOf(attached) THEN 0 ELSE ctx.op
  BY <1>1, <1>3 DEF TextCancelled
<1>5. clip'.op = IF clip.op \in OpenOf(attached) THEN 0 ELSE clip.op
  BY <1>1, <1>2 DEF ClipClosed, Grounds, ClipOK
<1>6. Cleared(attached, TRUE)
  BY <1>1, <1>4, <1>5 DEF Cleared, Blanked
<1>7. QED
  BY <1>6 DEF Clears, place

\* While a queue is drained no adapter is at work.
LEMMA PendingFree ==
  ASSUME Grounds, NEW c \in Connections, Turn(c)
  PROVE  ctx.op = 0 /\ clip.op = 0
<1>1. view[c].queue # <<>> /\ view[c].pending = 0
  BY DEF Grounds, Draining, Turn
<1>2. c = controller
  BY <1>1 DEF Grounds, Sole, Busy
<1>3. \A d \in Connections : view[d].pending = 0
  BY <1>1, <1>2 DEF Grounds, Sole, Busy
<1>4. QED
  BY <1>3 DEF Grounds, Adapting

\* A viewer that attaches comes first, or takes control over.
LEMMA ConnectMoves ==
  ASSUME Grounds, Connect
  PROVE  ComesFirst \/ TakesOver
<1>1. Arrives
  BY DEF Connect, Admits, Room, Idle, Arrives
<1>2. CASE attached = {}
  BY <1>1, <1>2 DEF Connect, ComesFirst
<1>3. CASE attached # {}
  <2>1. Revoke({controller} \cap attached, Retired, Release, TRUE) /\ UNCHANGED native
    BY <1>3 DEF Connect, Takeover
  <2>2. Cleared({controller} \cap attached, TRUE)
    BY <2>1, RetireClears DEF Grounds
  <2>3. QED
    BY <1>1, <1>3, <2>1, <2>2 DEF TakesOver
<1>4. QED
  BY <1>2, <1>3

\* The steps of a viewer.
LEMMA ViewerMoves ==
  ASSUME Grounds, NEW c \in Connections, ViewerStep(c)
  PROVE  Moves
<1>1. CASE Disconnect(c)
  <2>1. c \in attached /\ draining = 0 /\ Leave(c) /\ UNCHANGED connections
    BY <1>1 DEF Disconnect, Room, Idle
  <2>2. QED
    BY <2>1, LeaveMoves DEF Moves, Grounds
<1>2. CASE Paint(c)
  BY <1>2 DEF Paint, Idle, Paints, Moves, place
<1>3. CASE Asking(c)
  <2>1. PICK k \in Kinds : Enqueue(c, k) \/ Overflow(c, k)
    BY <1>3 DEF Asking
  <2>2. CASE Enqueue(c, k)
    <3>1. c \in attached /\ draining = 0 /\ Cardinality(Made) < MaxRequests
      BY <2>2 DEF Enqueue, Asks, Room, Idle
    <3>2. /\ Admissible(c, k) /\ Len(view[c].queue) < MaxQueue
          /\ LET v == [view[c] EXCEPT !.queue = Append(@, NewStamp)] IN
               view' = [view EXCEPT ![c] = v] /\ draining' = Drains(c, v)
          /\ req' = [req EXCEPT ![NewStamp] = New(c, k, "queued", 0)]
          /\ UNCHANGED <<place, native, ctx, clip>>
      BY <2>2 DEF Enqueue, unasked, place
    <3>3. Queues
      BY <2>1, <3>1, <3>2 DEF Queues
    <3>4. QED
      BY <3>3 DEF Moves
  <2>3. CASE Overflow(c, k)
    <3>1. c \in attached /\ draining = 0 /\ Leave(c) /\ UNCHANGED connections
      BY <2>3 DEF Overflow, Asks, Room, Idle, unasked
    <3>2. QED
      BY <3>1, LeaveMoves DEF Moves, Grounds
  <2>4. QED
    BY <2>1, <2>2, <2>3
<1>4. CASE CloseAtOnce(c)
  <2>1. c \in attached /\ draining = 0 /\ Cardinality(Made) < MaxRequests
    BY <1>4 DEF CloseAtOnce, Asks, Room, Idle
  <2>2. /\ \E status \in {"confirmed", "refused"} : req' = [req EXCEPT ![NewStamp] = New(c, "close", status, 1)]
        /\ UNCHANGED <<place, view, draining, native, ctx, clip>>
    BY <1>4 DEF CloseAtOnce, unasked, place
  <2>3. Closes
    BY <2>1, <2>2 DEF Closes
  <2>4. QED
    BY <2>3 DEF Moves
<1>5. CASE ReleaseInput(c)
  <2>1. c \in attached /\ Revoke({c}, Emptied, Release, TRUE) /\ UNCHANGED <<place, native>>
    BY <1>5 DEF ReleaseInput, unasked, place
  <2>2. Cleared({c}, TRUE)
    BY <2>1, EmptyClears DEF Grounds
  <2>3. Clears
    BY <2>1, <2>2 DEF Clears
  <2>4. QED
    BY <2>3 DEF Moves
<1>6. CASE SelectWindow(c)
  <2>1. c \in attached /\ UNCHANGED <<place, native>>
    BY <1>6 DEF SelectWindow, unasked, place
  <2>2. PICK known \in BOOLEAN : Revoke({c}, Retired, Release \o Selecting(known), TRUE)
    BY <1>6 DEF SelectWindow
  <2>3. Cleared({c}, TRUE)
    BY <2>2, RetireClears DEF Grounds
  <2>4. Clears
    BY <2>1, <2>3 DEF Clears
  <2>5. QED
    BY <2>4 DEF Moves
<1>7. CASE CaptureFailed(c)
  <2>1. c \in attached /\ Revoke({c}, Retired, Release, TRUE) /\ UNCHANGED <<place, native>>
    BY <1>7 DEF CaptureFailed, unasked, place
  <2>2. Cleared({c}, TRUE)
    BY <2>1, RetireClears DEF Grounds
  <2>3. Clears
    BY <2>1, <2>2 DEF Clears
  <2>4. QED
    BY <2>3 DEF Moves
<1>8. CASE Terminate(c)
  <2>1. Fall(Cancelling({c}) \o Release, {c}) /\ UNCHANGED <<connections, attached, controller>>
    BY <1>8 DEF Terminate, unasked
  <2>2. QED
    BY <2>1, FallMoves DEF Moves
<1>9. QED
  BY <1>1, <1>2, <1>3, <1>4, <1>5, <1>6, <1>7, <1>8 DEF ViewerStep

\* An operation that is given up.
LEMMA AbortMoves ==
  ASSUME Grounds, NEW c \in attached, Abort(c), UNCHANGED <<place, native>>
  PROVE  Moves
  BY ErrorMoves DEF Abort, Moves

\* A turn of the queue, and the deadline of a pending operation.
LEMMA DrainMoves ==
  ASSUME Grounds, NEW c \in Connections, Drain(c) \/ Expire(c)
  PROVE  Moves
<1> DEFINE Still == UNCHANGED <<place, native>>
<1>1. Expire(c) => c \in attached /\ Abort(c) /\ Still
  <2>1. view[c].pending # 0 => c \in attached
    BY DEF Grounds, Sole, Busy, PlaceOK, Connections
  <2>2. QED
    BY <2>1 DEF Expire, unasked, place
<1>2. Turn(c) => c \in attached
  BY DEF Turn, Grounds, PlaceOK
<1>3. CASE Expire(c)
  BY <1>1, <1>3, AbortMoves
<1>4. CASE DrainClose(c)
  <2>1. Turn(c) /\ Still /\ (Replied(c, "confirmed") \/ Abort(c))
    BY <1>4 DEF DrainClose, drained, unasked, place
  <2>2. QED
    BY <1>2, <2>1, AbortMoves DEF Replies, Moves
<1>5. CASE DrainKey(c)
  <2>1. Turn(c) /\ Still /\ (Replied(c, "confirmed") \/ Replied(c, "refused"))
    BY <1>5 DEF DrainKey, Deliver, drained, unasked, place
  <2>2. QED
    BY <1>2, <2>1 DEF Replies, Moves
<1>6. CASE DrainMarker(c)
  <2>1. Turn(c) /\ Admitted(c) /\ Pends(c) /\ ctx.op = 0 /\ UNCHANGED clip /\ Still /\ ctx'.op = Op(c)
    BY <1>6 DEF DrainMarker, drained, unasked, place, NoText
  <2>2. QED
    BY <1>2, <2>1, PendingFree DEF Suspends, Moves
<1>7. CASE DrainWayland(c)
  <2>1. Turn(c) /\ Admitted(c) /\ Pends(c) /\ ctx.op = 0 /\ UNCHANGED clip /\ Still /\ ctx'.op = Op(c)
    BY <1>7 DEF DrainWayland, drained, unasked, place, TextOperation, Grounds, TextOK, Texts
  <2>2. QED
    BY <1>2, <2>1, PendingFree DEF Suspends, Moves
<1>8. CASE DrainNoContext(c)
  <2>1. Turn(c) /\ Still /\ Abort(c)
    BY <1>8 DEF DrainNoContext, drained, unasked, place
  <2>2. QED
    BY <1>2, <2>1, AbortMoves
<1>9. CASE DrainClip(c)
  <2>1. Turn(c) /\ Admitted(c) /\ Still
    BY <1>9 DEF DrainClip, drained, unasked, place
  <2>2. CASE clip.op # 0
    <3>1. Abort(c)
      BY <1>9, <2>2 DEF DrainClip
    <3>2. QED
      BY <1>2, <2>1, <3>1, AbortMoves
  <2>3. CASE clip.op = 0
    <3>1. Pends(c) /\ UNCHANGED ctx /\ clip'.op = Op(c)
      BY <1>9, <2>3 DEF DrainClip
    <3>2. QED
      BY <1>2, <2>1, <2>3, <3>1, PendingFree DEF Suspends, Moves
  <2>4. QED
    BY <2>2, <2>3
<1>10. QED
  BY <1>3, <1>4, <1>5, <1>6, <1>7, <1>8, <1>9 DEF Drain

\* An operation that is confirmed.
LEMMA SucceedMoves ==
  ASSUME Grounds, draining = 0, NEW op, op \in {ctx.op, clip.op}, op # 0, Succeed(Holder(op)),
         ctx'.op = IF op = ctx.op THEN 0 ELSE ctx.op, clip'.op = IF op = clip.op THEN 0 ELSE clip.op,
         UNCHANGED <<place, native>>
  PROVE  Moves
<1>1. Holder(op) \in attached /\ view[Holder(op)].pending = op
  BY Held
<1>2. Confirms
  BY <1>1 DEF Confirms
<1>3. QED
  BY <1>2 DEF Moves

\* The records of the compositor.
LEMMA RecordMoves ==
  ASSUME Grounds, RecordStep
  PROVE  Moves
<1>1. CASE ReadScene
  <2>1. Revoke(attached, Retired, IF attached = {} THEN <<>> ELSE Release, TRUE) /\ UNCHANGED place
    BY <1>1 DEF ReadScene, Changed, heard, place
  <2>2. Cleared(attached, TRUE)
    BY <2>1, RetireClears DEF Grounds
  <2>3. QED
    BY <2>1, <2>2 DEF Clears, Moves
<1>2. CASE ReadTextReply
  <2>1. UNCHANGED <<place, native>> /\ draining = 0 /\ ctx.op # 0
    BY <1>2 DEF ReadTextReply, heard, place, Answers, Read, Idle, Grounds, Staged
  <2>2. \/ Abort(Holder(ctx.op))
        \/ ctx'.op = ctx.op /\ UNCHANGED <<view, clip, req, draining>>
        \/ ctx' = TextEnded /\ Succeed(Holder(ctx.op)) /\ UNCHANGED clip
    <3>1. ASSUME NEW stage PROVE TextOperation(stage).op = ctx.op
      BY DEF TextOperation, Grounds, TextOK, Texts
    <3>2. QED
      BY <1>2, <3>1 DEF ReadTextReply
  <2>3. CASE Abort(Holder(ctx.op))
    BY <2>1, <2>3, AbortMoves, Held
  <2>4. CASE ctx'.op = ctx.op /\ UNCHANGED <<view, clip, req, draining>>
    BY <2>1, <2>4 DEF Rests, Moves
  <2>5. CASE ctx' = TextEnded /\ Succeed(Holder(ctx.op)) /\ UNCHANGED clip
    <3>1. ctx'.op = 0 /\ clip.op = 0
      BY <2>1, <2>5 DEF TextEnded, NoText, Grounds, Adapting
    <3>2. QED
      BY <2>1, <2>5, <3>1, SucceedMoves
  <2>6. QED
    BY <2>2, <2>3, <2>4, <2>5
<1>3. CASE ReadClip
  <2>1. UNCHANGED <<place, native>> /\ draining = 0 /\ clip.op # 0
    BY <1>3 DEF ReadClip, heard, place, Read, Idle
  <2>2. \/ Abort(Holder(clip.op))
        \/ clip'.op = 0 /\ Succeed(Holder(clip.op)) /\ UNCHANGED ctx
    BY <1>3 DEF ReadClip, Grounds, ClipOK
  <2>3. CASE Abort(Holder(clip.op))
    BY <2>1, <2>3, AbortMoves, Held
  <2>4. CASE clip'.op = 0 /\ Succeed(Holder(clip.op)) /\ UNCHANGED ctx
    <3>1. ctx.op = 0
      BY <2>1 DEF Grounds, Adapting
    <3>2. QED
      BY <2>1, <2>4, <3>1, SucceedMoves
  <2>5. QED
    BY <2>2, <2>3, <2>4
<1>4. CASE ReadLate
  BY <1>4 DEF ReadLate, heard, Rests, Moves, place
<1>5. CASE ReadLost
  <2>1. Fall(<<>>, {}) /\ UNCHANGED <<connections, attached, controller>>
    BY <1>5 DEF ReadLost, heard
  <2>2. QED
    BY <2>1, FallMoves DEF Moves
<1>6. QED
  BY <1>1, <1>2, <1>3, <1>4, <1>5 DEF RecordStep

\* The end of a text, or a step towards it.
LEMMA CompleteMoves ==
  ASSUME Grounds, draining = 0, NEW m, NEW done, Complete(m, done), UNCHANGED <<place, native>>
  PROVE  Moves
<1>1. CASE ctx.op # 0 /\ done /\ ~m[ctx.code].used
  <2>1. \/ ctx' = TextEnded /\ Succeed(Holder(ctx.op)) /\ UNCHANGED clip
        \/ Error(Holder(ctx.op))
    BY <1>1 DEF Complete
  <2>2. CASE Error(Holder(ctx.op))
    BY <1>1, <2>2, ErrorMoves, Held DEF Moves
  <2>3. CASE ctx' = TextEnded /\ Succeed(Holder(ctx.op)) /\ UNCHANGED clip
    <3>1. ctx'.op = 0 /\ clip.op = 0
      BY <1>1, <2>3 DEF TextEnded, NoText, Grounds, Adapting
    <3>2. QED
      BY <1>1, <2>3, <3>1, SucceedMoves
  <2>4. QED
    BY <2>1, <2>2, <2>3
<1>2. CASE ~(ctx.op # 0 /\ done /\ ~m[ctx.code].used)
  <2>1. UNCHANGED <<view, clip, req, toComp, draining>>
        /\ ctx' = IF ctx.op # 0 THEN [ctx EXCEPT !.done = done] ELSE ctx
    BY <1>2 DEF Complete
  <2>2. ctx'.op = ctx.op
    BY <2>1 DEF Grounds, TextOK, Texts
  <2>3. QED
    BY <2>1, <2>2 DEF Rests, Moves
<1>3. QED
  BY <1>1, <1>2

\* The calls of the application.
LEMMA BusMoves ==
  ASSUME Grounds, BusStep
  PROVE  Moves
<1>1. draining = 0 /\ UNCHANGED <<place, native>>
  BY DEF BusStep, Take, Released, Done, FailedCall, Unregister, NameLost, Called, Idle, quiet, place
<1> DEFINE Alike == UNCHANGED <<view, clip, req, draining>> /\ ctx'.op = ctx.op
<1>2. Alike => Moves
  BY <1>1 DEF Rests, Moves
<1>3. ctx.op # 0 /\ (Error(Holder(ctx.op)) \/ Abort(Holder(ctx.op))) => Moves
  BY <1>1, ErrorMoves, Held DEF Abort, Moves
<1>4. CASE Take
  <2>1. Alike \/ (ctx.op # 0 /\ Error(Holder(ctx.op)))
    BY <1>4 DEF Take, Waiting, Grounds, TextOK, Texts
  <2>2. QED
    BY <1>2, <1>3, <2>1
<1>5. CASE Released
  BY <1>1, <1>5, CompleteMoves DEF Released
<1>6. CASE Done
  <2>1. Alike \/ Complete(slots, TRUE) \/ (ctx.op # 0 /\ Abort(Holder(ctx.op)))
    BY <1>6 DEF Done, Ours
  <2>2. QED
    BY <1>1, <1>2, <1>3, <2>1, CompleteMoves
<1>7. CASE FailedCall
  <2>1. Alike \/ (ctx.op # 0 /\ Abort(Holder(ctx.op)))
    BY <1>7 DEF FailedCall, Ours
  <2>2. QED
    BY <1>2, <1>3, <2>1
<1>8. CASE Unregister
  <2>1. Alike \/ (ctx.op # 0 /\ Error(Holder(ctx.op)))
    BY <1>8 DEF Unregister
  <2>2. QED
    BY <1>2, <1>3, <2>1
<1>9. QED
  BY <1>4, <1>5, <1>6, <1>7, <1>8 DEF BusStep

\* Every step is one of the moves.
LEMMA StepMoves ==
  ASSUME Grounds, [Next]_vars
  PROVE  Moves
<1>1. CASE Connect
  BY <1>1, ConnectMoves DEF Moves
<1>2. CASE CompStep
  <2>1. UNCHANGED <<helperVars, req>>
    BY <1>2 DEF CompStep, CompConnection, CompDetach, CompRelease, CompCancel, CompClose, CompReject,
                CompKey, CompMarker, CompClip, CompBarrier, CompText, SceneChange, CompSelect, PingTimeout,
                CompLost, comped
  <2>2. QED
    BY <2>1 DEF helperVars, Rests, Moves, place
<1>3. CASE AppStep
  <2>1. UNCHANGED <<helperVars, req>>
    BY <1>3 DEF AppStep, AppKey, AppText, AppPing, AppPress, AppLift, AppInsert, AppRefuse, AppGiveUp,
                AppDone, AppGone, apped
  <2>2. QED
    BY <2>1 DEF helperVars, Rests, Moves, place
<1>4. CASE UNCHANGED vars
  BY <1>4 DEF vars, helperVars, Rests, Moves, place
<1>5. QED
  BY <1>1, <1>2, <1>3, <1>4, RecordMoves, BusMoves, ViewerMoves, DrainMoves DEF Next

----------------------------------------------------------------------------
(* What the moves do, place by place *)

Core == Grounds /\ NativeOK /\ ReqOK /\ Once /\ Placed /\ Found /\ Replying /\ Numbered

\* A step that changes one request.
LEMMA ReqChange ==
  ASSUME ReqOK, NEW s \in Stamps, NEW r \in Requests, req' = [req EXCEPT ![s] = r]
  PROVE  ReqOK' /\ req'[s] = r /\ \A t \in Stamps : t # s => req'[t] = req[t]
  BY DEF ReqOK

\* The next request is none of those that were made.
LEMMA NewFacts ==
  ASSUME Core, Cardinality(Made) < MaxRequests
  PROVE  /\ NewStamp \in Stamps /\ req[NewStamp].status = "none"
         /\ \A s \in Stamps : req[s].status # "none" <=> s < NewStamp
         /\ \A c \in Connections : view[c].pending # NewStamp
              /\ \A i \in 1..Len(view[c].queue) : view[c].queue[i] # NewStamp
<1>1. PICK n \in 0..MaxRequests : \A s \in Stamps : req[s].status # "none" <=> s <= n
  BY DEF Core, Numbered
<1>2. Made = 1..n
  BY <1>1, Bounds DEF Made, Stamps
<1>3. Cardinality(1..n) = n
  BY <1>1, Bounds, FS_Interval
<1>4. NewStamp = n + 1 /\ NewStamp \in Stamps
  BY <1>1, <1>2, <1>3, Bounds DEF NewStamp, Stamps
<1>5. req[NewStamp].status = "none" /\ \A s \in Stamps : req[s].status # "none" <=> s < NewStamp
  BY <1>1, <1>4, Bounds DEF Stamps
<1>6. ASSUME NEW c \in Connections
      PROVE  view[c].pending # NewStamp /\ \A i \in 1..Len(view[c].queue) : view[c].queue[i] # NewStamp
  <2>1. NewStamp # 0
    BY <1>4 DEF Stamps
  <2>2. view[c].pending # NewStamp
    BY <1>5, <2>1 DEF Core, Placed
  <2>3. \A i \in 1..Len(view[c].queue) : view[c].queue[i] # NewStamp
    BY <1>5 DEF Core, Placed
  <2>4. QED
    BY <2>2, <2>3
<1>7. QED
  BY <1>4, <1>5, <1>6

\* What clearing does to a viewer and to a request.
LEMMA ClearedFacts ==
  ASSUME ViewOK, ReqOK, NEW C \in SUBSET Connections, NEW replied \in BOOLEAN, Cleared(C, replied)
  PROVE  /\ ViewOK' /\ ReqOK' /\ draining' = 0
         /\ \A c \in Connections : /\ c \in C => view'[c].queue = <<>> /\ view'[c].pending = 0
                                                 /\ Len(view'[c].queue) = 0
                                   /\ c \notin C => view'[c] = view[c]
         /\ \A s \in Stamps :
              /\ req'[s].conn = req[s].conn /\ req'[s].gen = req[s].gen
              /\ s \notin OpenOf(C) => req'[s] = req[s]
              /\ s \in OpenOf(C) => /\ req'[s].status = GivenUp(req[s].status)
                                    /\ req'[s].replies = req[s].replies + (IF replied THEN 1 ELSE 0)
<1>1. \A c \in Connections : /\ c \in C => view'[c] \in Views /\ view'[c].queue = <<>> /\ view'[c].pending = 0
                                            /\ Len(view'[c].queue) = 0
                             /\ c \notin C => view'[c] = view[c]
  <2> SUFFICES ASSUME NEW c \in Connections
               PROVE  /\ c \in C => view'[c] \in Views /\ view'[c].queue = <<>> /\ view'[c].pending = 0
                                     /\ Len(view'[c].queue) = 0
                      /\ c \notin C => view'[c] = view[c]
    OBVIOUS
  <2>1. view[c] \in Views
    BY ViewFields
  <2>2. IF c \in C THEN view'[c] \in Blank(view[c]) ELSE view'[c] = view[c]
    BY DEF Cleared, Blanked
  <2>3. QED
    BY <2>1, <2>2, BlankFields
<1>2. ViewOK'
  <2>1. view' = [c \in Connections |-> view'[c]]
    BY DEF Cleared, Blanked
  <2>2. \A c \in Connections : view'[c] \in Views /\ Len(view'[c].queue) <= MaxQueue
    BY <1>1, ViewFields, Bounds
  <2>3. QED
    BY <2>1, <2>2 DEF ViewOK
<1>3. ASSUME NEW s \in Stamps
      PROVE  /\ req'[s] \in Requests
             /\ req'[s].conn = req[s].conn /\ req'[s].gen = req[s].gen
             /\ s \notin OpenOf(C) => req'[s] = req[s]
             /\ s \in OpenOf(C) => /\ req'[s].status = GivenUp(req[s].status)
                                   /\ req'[s].replies = req[s].replies + (IF replied THEN 1 ELSE 0)
  <2>1. req[s] \in Requests
    BY DEF ReqOK
  <2>2. req'[s] = IF s \in OpenOf(C)
                  THEN [req[s] EXCEPT !.status = GivenUp(@), !.replies = @ + (IF replied THEN 1 ELSE 0)]
                  ELSE req[s]
    BY DEF Cleared, Answered
  <2>3. CASE s \notin OpenOf(C)
    BY <2>1, <2>2, <2>3
  <2>4. CASE s \in OpenOf(C)
    <3>1. PICK n \in Nat : n = req[s].replies + (IF replied THEN 1 ELSE 0)
      BY <2>1 DEF Requests
    <3>2. GivenUp(req[s].status) \in Statuses
      BY DEF GivenUp, Statuses
    <3>3. req'[s] = [req[s] EXCEPT !.status = GivenUp(req[s].status), !.replies = n]
      BY <2>1, <2>2, <2>4, <3>1, Zenon
    <3>4. QED
      BY <2>1, <2>4, <3>1, <3>2, <3>3 DEF Requests
  <2>5. QED
    BY <2>3, <2>4
<1>4. ReqOK'
  <2>1. req' = [s \in Stamps |-> req'[s]]
    BY DEF Cleared, Answered
  <2>2. QED
    BY <1>3, <2>1 DEF ReqOK
<1>5. QED
  BY <1>1, <1>2, <1>3, <1>4 DEF Cleared

\* A request of the queue's head.
LEMMA TurnFacts ==
  ASSUME Core, NEW c \in attached, Turn(c)
  PROVE  /\ c \in Connections /\ c = controller /\ view[c].pending = 0
         /\ Len(view[c].queue) > 0 /\ Op(c) \in Stamps /\ req[Op(c)].status = "queued"
         /\ req[Op(c)].conn = c /\ req[Op(c)].replies = 0
         /\ Popped(c) \in Views /\ Len(Popped(c).queue) = Len(view[c].queue) - 1
         /\ Popped(c).pending = 0 /\ Popped(c).failed = view[c].failed /\ Popped(c).ready = view[c].ready
         /\ \A i \in 1..Len(Popped(c).queue) : Popped(c).queue[i] = view[c].queue[i + 1]
<1>1. c \in Connections
  BY Bounds DEF Core, Grounds, PlaceOK, Connections
<1>2. view[c].queue # <<>> /\ view[c].pending = 0
  BY DEF Core, Grounds, Draining, Turn
<1>3. view[c] \in Views /\ view[c].queue \in Seq(Stamps)
  BY <1>1, ViewFields DEF Core, Grounds
<1>4. /\ Len(view[c].queue) > 0 /\ Op(c) \in Stamps /\ Tail(view[c].queue) \in Seq(Stamps)
      /\ Len(Tail(view[c].queue)) = Len(view[c].queue) - 1
      /\ \A i \in 1..Len(Tail(view[c].queue)) : Tail(view[c].queue)[i] = view[c].queue[i + 1]
  BY <1>2, <1>3, HeadTailProperties, EmptySeq, LenProperties DEF Op
<1>5. /\ Popped(c) \in Views /\ Popped(c).queue = Tail(view[c].queue) /\ Popped(c).pending = view[c].pending
      /\ Popped(c).failed = view[c].failed /\ Popped(c).ready = view[c].ready
  BY <1>3, <1>4 DEF Popped, Views
<1>6. 1 \in 1..Len(view[c].queue)
  BY <1>3, <1>4, LenProperties
<1>7. req[Op(c)].status = "queued" /\ req[Op(c)].conn = c
  BY <1>1, <1>6 DEF Core, Placed, Op
<1>8. req[Op(c)].replies = 0
  BY <1>4, <1>7 DEF Core, Replying, Waits
<1>9. c = controller
  BY <1>1, <1>2 DEF Core, Grounds, Sole, Busy
<1>10. QED
  BY <1>1, <1>2, <1>4, <1>5, <1>7, <1>8, <1>9

\* A set of numbers has a least one: of the intervals up to its elements one
\* contains none of the others.
LEMMA Least ==
  ASSUME NEW T, T \subseteq Nat, T # {}
  PROVE  \E x \in T : \A y \in T : x <= y
<1>1. PICK m \in T : TRUE
  OBVIOUS
<1> DEFINE U == {t \in T : t <= m}
           F == {0..t : t \in U}
<1>2. U \subseteq Nat /\ m \in U
  <2>1. m \in Nat /\ m <= m
    BY <1>1
  <2>2. QED
    BY <1>1, <2>1
<1>3. F # {}
  BY <1>2
<1>4. F \subseteq FiniteSubsetsOf(0..m)
  <2>1. ASSUME NEW t \in U PROVE 0..t \in FiniteSubsetsOf(0..m)
    <3>1. t \in Nat /\ t <= m /\ m \in Nat
      BY <1>1, <2>1
    <3>2. IsFiniteSet(0..t) /\ 0..t \subseteq 0..m
      BY <3>1, FS_Interval
    <3>3. QED
      BY <3>2 DEF FiniteSubsetsOf
  <2>2. QED
    BY <2>1
<1>5. IsFiniteSet(0..m)
  BY <1>1, FS_Interval
<1>6. IsWellFoundedOn(StrictSubsetOrdering(0..m), FiniteSubsetsOf(0..m))
  BY <1>5, FS_StrictSubsetOrderingWellFounded
<1>7. \E X \in F : \A Y \in F : ~ (<<Y, X>> \in StrictSubsetOrdering(0..m))
  <2> HIDE DEF F, U
  <2>1. QED
    BY <1>3, <1>4, <1>6, WFMin
<1>8. PICK X \in F : \A Y \in F : ~ (<<Y, X>> \in StrictSubsetOrdering(0..m))
  BY <1>7
<1>9. PICK x \in U : X = 0..x
  BY <1>8
<1>10. ASSUME NEW y \in T PROVE x <= y
  <2>1. x \in Nat /\ y \in Nat /\ m \in Nat /\ x <= m
    BY <1>1, <1>2, <1>9
  <2>2. SUFFICES ASSUME y < x PROVE FALSE
    BY <2>1
  <2>3. y \in U /\ 0..y \in F
    BY <2>1, <2>2
  <2>4. 0..y \subseteq 0..x /\ x \in 0..x /\ x \notin 0..y
    BY <2>1, <2>2
  <2>5. 0..y \subseteq 0..x /\ 0..y # 0..x
    BY <2>4, Zenon
  <2>6. 0..y \in SUBSET (0..m) /\ 0..x \in SUBSET (0..m)
    BY <2>1, <2>2
  <2>7. <<0..y, 0..x>> \in StrictSubsetOrdering(0..m)
    BY <2>5, <2>6 DEF StrictSubsetOrdering
  <2>8. QED
    BY <1>8, <1>9, <2>3, <2>7
<1>11. QED
  BY <1>9, <1>10

\* The newest of some viewers is one of them.
LEMMA NewestIn ==
  ASSUME NEW n \in Nat, NEW S, S \subseteq 1..n, S # {}
  PROVE  Newest(S) \in S
<1> DEFINE T == {n - s : s \in S}
<1>1. T \subseteq Nat /\ T # {}
  OBVIOUS
<1>2. \E x \in T : \A y \in T : x <= y
  <2> HIDE DEF T
  <2>1. QED
    BY <1>1, Least
<1>3. PICK c \in S : \A y \in T : n - c <= y
  BY <1>2
<1>4. \A d \in S : d <= c
  <2> SUFFICES ASSUME NEW d \in S PROVE d <= c
    OBVIOUS
  <2>1. n - d \in T
    OBVIOUS
  <2>2. n - c <= n - d /\ c \in Nat /\ d \in Nat
    BY <1>3, <2>1
  <2>3. QED
    BY <2>2
<1>5. QED
  BY <1>4 DEF Newest

\* Places keep their types.
LEMMA PlaceMoves ==
  ASSUME Core, Moves
  PROVE  PlaceOK'
<1>0. PlaceOK
  BY DEF Core, Grounds
<1>1. CASE Rests
  BY <1>0, <1>1 DEF Rests, place, PlaceOK
<1>2. CASE Paints
  BY <1>0, <1>2 DEF Paints, place, PlaceOK
<1>3. CASE ComesFirst \/ TakesOver
  <2>1. Arrives /\ draining' = 0
    BY <1>3 DEF ComesFirst, TakesOver, Cleared, Arrives
  <2>2. QED
    BY <1>0, <2>1, Bounds DEF Arrives, PlaceOK
<1>4. CASE Leaves
  <2>1. PICK c \in attached :
          /\ attached' = Without(c) /\ controller' = IF controller = c THEN Newest(Without(c)) ELSE controller
          /\ draining' = 0 /\ UNCHANGED connections
    BY <1>4 DEF Leaves, Cleared
  <2>2. Without(c) \subseteq 1..connections /\ connections \in Nat
    BY <1>0 DEF Without, PlaceOK
  <2>3. controller # c => controller \in Without(c) \cup {0}
    BY <1>0 DEF Without, PlaceOK
  <2>4. CASE Without(c) = {}
    <3>1. controller' \in {0}
      BY <1>0, <2>1, <2>3, <2>4 DEF Newest
    <3>2. QED
      BY <1>0, <2>1, <2>4, <3>1 DEF PlaceOK
  <2>5. CASE Without(c) # {}
    <3>1. Newest(Without(c)) \in Without(c) /\ 0 \notin Without(c)
      BY <2>2, <2>5, NewestIn
    <3>2. controller' \in Without(c) /\ controller' # 0
      BY <1>0, <2>1, <2>3, <3>1 DEF PlaceOK
    <3>3. QED
      BY <1>0, <2>1, <2>2, <3>2 DEF PlaceOK
  <2>6. QED
    BY <2>4, <2>5
<1>5. CASE Clears
  BY <1>0, <1>5 DEF Clears, Cleared, place, PlaceOK
<1>6. CASE Queues
  BY <1>0, <1>6 DEF Queues, Drains, place, PlaceOK
<1>7. CASE Closes
  BY <1>0, <1>7 DEF Closes, place, PlaceOK
<1>8. CASE Confirms
  BY <1>0, <1>8 DEF Confirms, Succeed, Drains, place, PlaceOK
<1>9. CASE Replies
  BY <1>0, <1>9 DEF Replies, Replied, Drains, place, PlaceOK
<1>10. CASE Suspends
  BY <1>0, <1>10 DEF Suspends, Pends, place, PlaceOK
<1>11. QED
  BY <1>1, <1>2, <1>3, <1>4, <1>5, <1>6, <1>7, <1>8, <1>9, <1>10 DEF Moves

----------------------------------------------------------------------------
(* The bookkeeping of the requests, move by move *)

Books == ViewOK /\ ReqOK /\ Sole /\ Once /\ Placed /\ Found /\ Replying /\ Numbered /\ Adapting /\ Draining

\* The ways of clearing have this in common.
Gone(C, replied) ==
  /\ Cleared(C, replied)
  /\ \A d \in Connections \ C : Busy(d) => d = controller'
  /\ C = attached \/ native'.target = native.target
  /\ ~replied => C \cap attached' = {}
  /\ connections' >= connections /\ connections' \in Nat
  /\ \A d \in 1..connections : d \in attached' => d \in attached

\* Taking over, leaving and clearing give up the requests of a set of viewers.
LEMMA Clearing ==
  ASSUME Core, TakesOver \/ Leaves \/ Clears
  PROVE  \E C \in SUBSET attached, replied \in BOOLEAN : Gone(C, replied)
<1>0. /\ connections \in Nat /\ attached \subseteq 1..connections /\ controller \in attached \cup {0}
      /\ \A d \in Connections : Busy(d) => d = controller /\ d # 0
  BY DEF Core, Grounds, PlaceOK, Sole, Connections
<1>1. CASE TakesOver
  <2> DEFINE C == {controller} \cap attached
  <2>1. /\ Cleared(C, TRUE) /\ UNCHANGED native /\ connections' = connections + 1
        /\ attached' = attached \cup {connections + 1}
    BY <1>1 DEF TakesOver, Arrives
  <2>2. \A d \in Connections \ C : ~Busy(d)
    BY <1>0
  <2>3. /\ connections' >= connections /\ connections' \in Nat
        /\ \A d \in 1..connections : d \in attached' => d \in attached
        /\ native'.target = native.target
    BY <1>0, <2>1
  <2>4. Gone(C, TRUE)
    BY <2>1, <2>2, <2>3, Zenon DEF Gone
  <2>5. QED
    BY <2>4
<1>2. CASE Leaves
  <2>1. PICK c \in attached :
          /\ attached' = Without(c) /\ controller' = IF controller = c THEN Newest(Without(c)) ELSE controller
          /\ Cleared({c}, FALSE) /\ native' \in {native, [native EXCEPT !.epoch = 0]} /\ UNCHANGED connections
    BY <1>2 DEF Leaves
  <2>2. native'.target = native.target
    BY <2>1 DEF Core, NativeOK
  <2>3. \A d \in Connections \ {c} : Busy(d) => d = controller'
    BY <1>0, <2>1
  <2>4. /\ connections' >= connections /\ connections' \in Nat
        /\ \A d \in 1..connections : d \in attached' => d \in attached
        /\ {c} \cap attached' = {}
    BY <1>0, <2>1 DEF Without
  <2>5. Gone({c}, FALSE)
    BY <2>1, <2>2, <2>3, <2>4, Zenon DEF Gone
  <2>6. QED
    BY <2>5
<1>3. CASE Clears
  <2>1. PICK C \in SUBSET attached : Cleared(C, TRUE) /\ (C = attached \/ UNCHANGED native) /\ UNCHANGED place
    BY <1>3 DEF Clears
  <2>2. /\ connections' >= connections /\ connections' \in Nat
        /\ \A d \in 1..connections : d \in attached' => d \in attached
        /\ \A d \in Connections \ C : Busy(d) => d = controller'
        /\ C = attached \/ native'.target = native.target
    BY <1>0, <2>1 DEF place
  <2>3. Gone(C, TRUE)
    BY <2>1, <2>2, Zenon DEF Gone
  <2>4. QED
    BY <2>3
<1>4. QED
  BY <1>1, <1>2, <1>3

\* Clearing gives up what was open, and nothing else.
LEMMA GoneKeeps ==
  ASSUME Core, NEW C \in SUBSET attached, NEW replied \in BOOLEAN, Gone(C, replied)
  PROVE  Books'
<1>0. /\ PlaceOK /\ ViewOK /\ ReqOK /\ C \in SUBSET Connections /\ Cleared(C, replied) /\ Sole /\ Adapting
      /\ Once /\ Placed /\ Found /\ Replying /\ Numbered
  BY Bounds DEF Core, Grounds, PlaceOK, Connections, Gone
<1>1. /\ ViewOK' /\ ReqOK' /\ draining' = 0
      /\ \A c \in Connections : /\ c \in C => view'[c].queue = <<>> /\ view'[c].pending = 0
                                              /\ Len(view'[c].queue) = 0
                                /\ c \notin C => view'[c] = view[c]
      /\ \A s \in Stamps :
           /\ req'[s].conn = req[s].conn /\ req'[s].gen = req[s].gen
           /\ s \notin OpenOf(C) => req'[s] = req[s]
           /\ s \in OpenOf(C) => /\ req'[s].status = GivenUp(req[s].status)
                                 /\ req'[s].replies = req[s].replies + (IF replied THEN 1 ELSE 0)
  BY <1>0, ClearedFacts
<1>2. \A c \in Connections : Busy(c)' => c \notin C /\ Busy(c) /\ c = controller /\ c = controller' /\ c \in attached
  BY <1>0, <1>1 DEF Busy, Sole, Gone, PlaceOK, Connections
<1>3. Sole'
  BY <1>0, <1>1, <1>2 DEF Sole, Busy
<1>4. Once'
  <2> SUFFICES ASSUME NEW c \in Connections
               PROVE  /\ \A i, j \in 1..Len(view'[c].queue) : view'[c].queue[i] = view'[c].queue[j] => i = j
                      /\ \A i \in 1..Len(view'[c].queue) : view'[c].queue[i] # view'[c].pending
    BY DEF Once
  <2>1. CASE c \in C
    BY <1>1, <2>1
  <2>2. CASE c \notin C
    BY <1>0, <1>1, <2>2 DEF Once
  <2>3. QED
    BY <2>1, <2>2
\* what another viewer has is not given up
<1>5. ASSUME NEW c \in Connections, c \notin C, NEW s,
             (s = view[c].pending /\ s # 0) \/ \E i \in 1..Len(view[c].queue) : view[c].queue[i] = s
      PROVE  s \notin OpenOf(C) /\ s \in Stamps /\ Busy(c)
  <2>1. Len(view[c].queue) \in Nat /\ view[c].queue \in Seq(Stamps) /\ view[c].pending \in Opt
    BY <1>0, ViewFields
  <2>2. s \in Stamps /\ Busy(c)
    BY <1>5, <2>1, EmptySeq DEF Busy, Opt
  <2>3. ASSUME s \in OpenOf(C) PROVE FALSE
    <3>1. PICK d \in C : \/ s = view[d].pending /\ s # 0
                         \/ \E i \in 1..Len(view[d].queue) : view[d].queue[i] = s
      BY <1>0, <2>3, OpenMeans
    <3>2. d \in Connections /\ view[d].queue \in Seq(Stamps) /\ Len(view[d].queue) \in Nat
      BY <1>0, ViewFields
    <3>3. Busy(d)
      BY <3>1, <3>2, EmptySeq DEF Busy
    <3>4. d = c
      BY <1>0, <2>2, <3>2, <3>3 DEF Sole
    <3>5. QED
      BY <1>5, <3>4
  <2>4. QED
    BY <2>2, <2>3
<1>6. Placed'
  <2> SUFFICES ASSUME NEW c \in Connections
               PROVE  /\ \A i \in 1..Len(view'[c].queue) : req'[view'[c].queue[i]].status = "queued"
                                                           /\ req'[view'[c].queue[i]].conn = c
                      /\ view'[c].pending # 0 => /\ req'[view'[c].pending].status = "issued"
                                                 /\ req'[view'[c].pending].conn = c
                                                 /\ req'[view'[c].pending].gen = native'.target
    BY DEF Placed
  <2>1. CASE c \in C
    BY <1>1, <2>1
  <2>2. CASE c \notin C
    <3>1. view'[c] = view[c]
      BY <1>1, <2>2
    <3>2. ASSUME NEW i \in 1..Len(view[c].queue)
          PROVE  req'[view[c].queue[i]].status = "queued" /\ req'[view[c].queue[i]].conn = c
      <4>1. view[c].queue[i] \notin OpenOf(C) /\ view[c].queue[i] \in Stamps
        BY <1>5, <2>2
      <4>2. QED
        BY <1>0, <1>1, <4>1 DEF Placed
    <3>3. ASSUME view[c].pending # 0
          PROVE  /\ req'[view[c].pending].status = "issued" /\ req'[view[c].pending].conn = c
                 /\ req'[view[c].pending].gen = native'.target
      <4>1. view[c].pending \notin OpenOf(C) /\ view[c].pending \in Stamps /\ Busy(c)
        BY <1>5, <2>2, <3>3
      <4>2. c \in attached
        BY <1>0, <4>1 DEF Sole, PlaceOK, Connections
      <4>3. native'.target = native.target
        BY <2>2, <4>2 DEF Gone
      <4>4. QED
        BY <1>0, <1>1, <3>3, <4>1, <4>3 DEF Placed
    <3>4. QED
      BY <3>1, <3>2, <3>3
  <2>3. QED
    BY <2>1, <2>2
\* what was open had neither reply nor end, and belonged to a viewer that is cleared
<1>7. ASSUME NEW s \in Stamps, s \in OpenOf(C)
      PROVE  /\ req[s].status \in {"queued", "issued"} /\ req[s].replies = 0 /\ req[s].conn \in C
             /\ req'[s].status \in {"refused", "failed"}
  <2>1. PICK d \in C : \/ s = view[d].pending /\ s # 0
                       \/ \E i \in 1..Len(view[d].queue) : view[d].queue[i] = s
    BY <1>0, <1>7, OpenMeans
  <2>2. req[s].status \in {"queued", "issued"} /\ req[s].conn = d
    BY <1>0, <2>1 DEF Placed
  <2>3. req[s].replies = 0
    BY <1>0, <2>2 DEF Replying, Waits
  <2>4. req'[s].status \in {"refused", "failed"}
    BY <1>1, <1>7, <2>2 DEF GivenUp
  <2>5. QED
    BY <2>2, <2>3, <2>4
<1>8. Found'
  <2> SUFFICES ASSUME NEW s \in Stamps
               PROVE  /\ req'[s].status = "queued" =>
                           \E c \in Connections : \E i \in 1..Len(view'[c].queue) : view'[c].queue[i] = s
                      /\ req'[s].status = "issued" => \E c \in Connections : view'[c].pending = s
    BY DEF Found
  <2>1. CASE s \in OpenOf(C)
    BY <1>7, <2>1
  <2>2. CASE s \notin OpenOf(C)
    <3>1. req'[s] = req[s]
      BY <1>1, <2>2
    <3>2. \A c \in C : /\ \A i \in 1..Len(view[c].queue) : view[c].queue[i] # s
                       /\ view[c].pending # s
      BY <1>0, <2>2, OpenMeans DEF Stamps
    <3>3. ASSUME req[s].status = "queued"
          PROVE  \E c \in Connections : \E i \in 1..Len(view'[c].queue) : view'[c].queue[i] = s
      <4>1. PICK c \in Connections : \E i \in 1..Len(view[c].queue) : view[c].queue[i] = s
        BY <1>0, <3>3 DEF Found
      <4>2. view'[c] = view[c]
        BY <1>1, <3>2, <4>1
      <4>3. QED
        BY <4>1, <4>2
    <3>4. ASSUME req[s].status = "issued"
          PROVE  \E c \in Connections : view'[c].pending = s
      <4>1. PICK c \in Connections : view[c].pending = s
        BY <1>0, <3>4 DEF Found
      <4>2. view'[c] = view[c]
        BY <1>1, <3>2, <4>1
      <4>3. QED
        BY <4>1, <4>2
    <3>5. QED
      BY <3>1, <3>3, <3>4
  <2>3. QED
    BY <2>1, <2>2
<1>9. Replying'
  <2> SUFFICES ASSUME NEW s \in Stamps
               PROVE  /\ req'[s].status \in {"none", "queued", "issued"} => req'[s].replies = 0
                      /\ req'[s].status # "none" => req'[s].conn \in 1..connections'
                      /\ req'[s].status \in {"confirmed", "failed", "refused"} =>
                           req'[s].replies = 1 \/ (req'[s].replies = 0 /\ req'[s].conn \notin attached')
    BY DEF Replying, Waits
  <2>0. connections \in Nat /\ connections' \in Nat /\ connections' >= connections
    BY <1>0 DEF PlaceOK, Gone
  <2>1. CASE s \in OpenOf(C)
    <3>1. /\ req[s].status \in {"queued", "issued"} /\ req[s].replies = 0 /\ req[s].conn \in C
          /\ req'[s].status \in {"refused", "failed"}
          /\ req'[s].conn = req[s].conn /\ req'[s].replies = req[s].replies + (IF replied THEN 1 ELSE 0)
      BY <1>1, <1>7, <2>1
    <3>2. req[s].conn \in 1..connections
      BY <1>0, <3>1 DEF Replying
    <3>3. CASE replied
      BY <2>0, <3>1, <3>2, <3>3
    <3>4. CASE ~replied
      <4>1. req'[s].replies = 0
        BY <3>1, <3>4
      <4>2. req'[s].conn \notin attached'
        BY <3>1, <3>4 DEF Gone
      <4>3. QED
        BY <2>0, <3>1, <3>2, <4>1, <4>2
    <3>5. QED
      BY <3>3, <3>4
  <2>2. CASE s \notin OpenOf(C)
    <3>1. req'[s] = req[s]
      BY <1>1, <2>2
    <3>2. req[s].status # "none" => req[s].conn \in 1..connections
      BY <1>0 DEF Replying
    <3>3. req[s].status \in {"confirmed", "failed", "refused"} =>
            req[s].replies = 1 \/ (req[s].replies = 0 /\ req[s].conn \notin attached')
      BY <1>0, <3>2 DEF Replying, Gone
    <3>4. req[s].status \in {"none", "queued", "issued"} => req[s].replies = 0
      BY <1>0 DEF Replying, Waits
    <3>5. QED
      BY <2>0, <3>1, <3>2, <3>3, <3>4
  <2>3. QED
    BY <2>1, <2>2
<1>10. Numbered'
  <2>1. \A s \in Stamps : req'[s].status # "none" <=> req[s].status # "none"
    BY <1>1, <1>7
  <2>2. QED
    BY <1>0, <2>1 DEF Numbered
<1>11. Adapting'
  <2>1. \A c \in Connections : view[c].pending \in Opt
    BY <1>0, ViewFields
  <2>2. /\ ctx'.op = IF ctx.op \in OpenOf(C) THEN 0 ELSE ctx.op
        /\ clip'.op = IF clip.op \in OpenOf(C) THEN 0 ELSE clip.op
    BY DEF Gone, Cleared
  <2>3. ASSUME NEW c \in Connections, view'[c].pending # 0 PROVE view'[c].pending \in {ctx'.op, clip'.op}
    <3>1. c \notin C /\ view'[c] = view[c]
      BY <1>1, <2>3
    <3>2. view[c].pending \notin OpenOf(C)
      BY <1>5, <2>3, <3>1
    <3>3. view[c].pending \in {ctx.op, clip.op}
      BY <1>0, <2>3, <3>1 DEF Adapting
    <3>4. QED
      BY <2>2, <3>1, <3>2, <3>3
  <2>4. ASSUME NEW s \in {ctx'.op, clip'.op}, s # 0 PROVE \E c \in Connections : view'[c].pending = s
    <3>1. s \in {ctx.op, clip.op} /\ s \notin OpenOf(C)
      BY <2>2, <2>4
    <3>2. PICK c \in Connections : view[c].pending = s
      BY <1>0, <2>4, <3>1 DEF Adapting
    <3>3. c \notin C
      BY <1>0, <2>4, <3>1, <3>2, OpenMeans
    <3>4. QED
      BY <1>1, <3>2, <3>3
  <2>5. ctx'.op = 0 \/ clip'.op = 0
    BY <1>0, <2>2 DEF Adapting
  <2>6. QED
    BY <2>3, <2>4, <2>5 DEF Adapting
<1>12. Draining'
  BY <1>1 DEF Draining
<1>13. QED
  BY <1>1, <1>3, <1>4, <1>6, <1>8, <1>9, <1>10, <1>11, <1>12 DEF Books

\* The moves that leave the requests alone: a paint, the first viewer, and all
\* that the others do.
Calm ==
  /\ ViewOK' /\ UNCHANGED <<req, draining>>
  /\ \A c \in Connections : /\ view'[c].queue = view[c].queue /\ view'[c].pending = view[c].pending
                            /\ view'[c].failed = view[c].failed
  /\ \A c \in Connections : Busy(c) => c = controller'
  /\ ctx'.op = ctx.op /\ clip'.op = clip.op /\ native'.target = native.target
  /\ connections' >= connections /\ connections' \in Nat
  /\ \A d \in 1..connections : d \in attached' => d \in attached

\* Steps that answer nothing leave the scheduling as it was.
LEMMA Calming ==
  ASSUME Core, Rests \/ Paints \/ ComesFirst
  PROVE  Calm
<1>0. /\ connections \in Nat /\ attached \subseteq 1..connections /\ controller \in attached \cup {0}
      /\ ViewOK /\ NativeOK /\ \A d \in Connections : Busy(d) => d = controller /\ d # 0
  BY DEF Core, Grounds, PlaceOK, Sole, Connections
<1>1. CASE Rests
  BY <1>0, <1>1 DEF Rests, place, Calm, ViewOK
<1>2. CASE Paints
  <2>1. PICK c \in attached : native.target # 0 /\ view' = [view EXCEPT ![c].ready = native.target]
    BY <1>2 DEF Paints
  <2>2. UNCHANGED <<place, req, draining, native, ctx, clip>>
    BY <1>2 DEF Paints
  <2>3. ASSUME NEW d \in Connections
        PROVE  /\ view'[d] \in Views /\ view'[d].queue = view[d].queue /\ view'[d].pending = view[d].pending
               /\ view'[d].failed = view[d].failed
    <3>1. view[d] \in Views /\ native.target \in 0..MaxScenes
      BY <1>0, ViewFields DEF NativeOK
    <3>2. view'[d] = IF d = c THEN [view[d] EXCEPT !.ready = native.target] ELSE view[d]
      BY <1>0, <2>1 DEF ViewOK
    <3>3. QED
      BY <3>1, <3>2 DEF Views
  <2>4. view' \in [Connections -> Views]
    <3>1. view' = [d \in Connections |-> view'[d]]
      BY <1>0, <2>1 DEF ViewOK
    <3>2. QED
      BY <2>3, <3>1
  <2>5. ViewOK'
    <3>1. \A d \in Connections : Len(view'[d].queue) <= MaxQueue
      BY <1>0, <2>3, ViewFields
    <3>2. QED
      BY <2>4, <3>1 DEF ViewOK
  <2>6. QED
    BY <1>0, <2>2, <2>3, <2>5 DEF Calm, place
<1>3. CASE ComesFirst
  <2>1. /\ attached = {} /\ connections' = connections + 1 /\ attached' = attached \cup {connections + 1}
        /\ native' = [native EXCEPT !.epoch = connections + 1]
        /\ UNCHANGED <<view, req, draining, ctx, clip>>
    BY <1>3 DEF ComesFirst, Arrives
  <2>2. \A d \in Connections : ~Busy(d)
    BY <1>0, <2>1
  <2>3. native'.target = native.target /\ ViewOK'
    BY <1>0, <2>1 DEF NativeOK, ViewOK
  <2>4. QED
    BY <1>0, <2>1, <2>2, <2>3 DEF Calm
<1>4. QED
  BY <1>1, <1>2, <1>3

\* Such a step keeps the books.
LEMMA CalmKeeps ==
  ASSUME Core, Calm
  PROVE  Books'
<1>0. /\ PlaceOK /\ ViewOK /\ ReqOK /\ Sole /\ Adapting /\ Once /\ Placed /\ Found /\ Replying /\ Numbered
      /\ Draining
  BY DEF Core, Grounds
<1>1. /\ \A c \in Connections : /\ view'[c].queue = view[c].queue /\ view'[c].pending = view[c].pending
                                /\ view'[c].failed = view[c].failed
      /\ UNCHANGED <<req, draining>> /\ native'.target = native.target /\ ViewOK'
      /\ ctx'.op = ctx.op /\ clip'.op = clip.op
  BY DEF Calm
<1>2. Sole'
  BY <1>0, <1>1 DEF Sole, Busy, Calm
<1>3. Once'
  BY <1>0, <1>1 DEF Once
<1>4. Placed'
  BY <1>0, <1>1 DEF Placed
<1>5. Found'
  BY <1>0, <1>1 DEF Found
<1>6. Replying'
  <2>1. connections \in Nat /\ connections' \in Nat /\ connections' >= connections
    BY <1>0 DEF PlaceOK, Calm
  <2> SUFFICES ASSUME NEW s \in Stamps
               PROVE  /\ req[s].status = "none" \/ Waits(s) => req[s].replies = 0
                      /\ req[s].status # "none" => req[s].conn \in 1..connections'
                      /\ req[s].status \in {"confirmed", "failed", "refused"} =>
                           req[s].replies = 1 \/ (req[s].replies = 0 /\ req[s].conn \notin attached')
    BY <1>1 DEF Replying, Waits
  <2>2. req[s].status # "none" => req[s].conn \in 1..connections /\ req[s].conn \in 1..connections'
    BY <1>0, <2>1 DEF Replying
  <2>3. QED
    BY <1>0, <2>2 DEF Replying, Calm
<1>7. Numbered'
  BY <1>0, <1>1 DEF Numbered
<1>8. Adapting'
  BY <1>0, <1>1 DEF Adapting
<1>9. Draining'
  <2>1. draining # 0 => draining \in Connections
    BY <1>0, Bounds DEF Core, Grounds, PlaceOK, Connections
  <2>2. QED
    BY <1>0, <1>1, <2>1 DEF Draining
<1>10. ReqOK'
  BY <1>0, <1>1 DEF ReqOK
<1>11. QED
  BY <1>1, <1>2, <1>3, <1>4, <1>5, <1>6, <1>7, <1>8, <1>9, <1>10 DEF Books

\* A window is asked to close at once.
LEMMA CloseKeeps ==
  ASSUME Core, Closes
  PROVE  Books'
<1>0. /\ PlaceOK /\ ViewOK /\ ReqOK /\ Sole /\ Adapting /\ Once /\ Placed /\ Found /\ Replying /\ Numbered
      /\ Draining /\ attached \subseteq Connections
  BY Bounds DEF Core, Grounds, PlaceOK, Connections
<1>1. PICK c \in attached, status \in {"confirmed", "refused"} :
        /\ Cardinality(Made) < MaxRequests
        /\ req' = [req EXCEPT ![NewStamp] = New(c, "close", status, 1)]
        /\ UNCHANGED <<place, view, draining, native, ctx, clip>>
  BY DEF Closes
<1>2. /\ NewStamp \in Stamps /\ req[NewStamp].status = "none"
      /\ \A s \in Stamps : req[s].status # "none" <=> s < NewStamp
      /\ \A d \in Connections : view[d].pending # NewStamp
           /\ \A i \in 1..Len(view[d].queue) : view[d].queue[i] # NewStamp
  BY <1>1, NewFacts
<1>3. New(c, "close", status, 1) = [conn |-> c, kind |-> "close", gen |-> 0, status |-> status, replies |-> 1]
  BY DEF New
<1>4. New(c, "close", status, 1) \in Requests
  BY <1>0, <1>3, Bounds DEF Requests, Connections, Statuses
<1>5. /\ req'[NewStamp] = New(c, "close", status, 1) /\ \A s \in Stamps : s # NewStamp => req'[s] = req[s]
      /\ ReqOK'
  BY <1>0, <1>1, <1>2, <1>4 DEF ReqOK
<1>6. /\ req'[NewStamp].conn = c /\ req'[NewStamp].status = status /\ req'[NewStamp].replies = 1
  BY <1>3, <1>5
<1>7. UNCHANGED <<connections, attached, controller, view, draining, native, ctx, clip>>
  BY <1>1 DEF place
<1>8. ViewOK' /\ Sole' /\ Once' /\ Draining' /\ Adapting'
  BY <1>0, <1>7 DEF ViewOK, Sole, Busy, Once, Draining, Adapting
<1>9. Placed'
  <2> SUFFICES ASSUME NEW d \in Connections
               PROVE  /\ \A i \in 1..Len(view[d].queue) : req'[view[d].queue[i]].status = "queued"
                                                          /\ req'[view[d].queue[i]].conn = d
                      /\ view[d].pending # 0 => /\ req'[view[d].pending].status = "issued"
                                                /\ req'[view[d].pending].conn = d
                                                /\ req'[view[d].pending].gen = native.target
    BY <1>7 DEF Placed
  <2>1. /\ \A i \in 1..Len(view[d].queue) : view[d].queue[i] \in Stamps
        /\ view[d].pending # 0 => view[d].pending \in Stamps
    BY <1>0, ViewFields DEF Opt
  <2>2. QED
    BY <1>0, <1>2, <1>5, <2>1 DEF Placed
<1>10. Found'
  BY <1>0, <1>1, <1>5, <1>6, <1>7 DEF Found
<1>11. Replying'
  <2> SUFFICES ASSUME NEW s \in Stamps
               PROVE  /\ req'[s].status \in {"none", "queued", "issued"} => req'[s].replies = 0
                      /\ req'[s].status # "none" => req'[s].conn \in 1..connections
                      /\ req'[s].status \in {"confirmed", "failed", "refused"} =>
                           req'[s].replies = 1 \/ (req'[s].replies = 0 /\ req'[s].conn \notin attached)
    BY <1>7 DEF Replying, Waits
  <2>1. CASE s = NewStamp
    BY <1>0, <1>1, <1>6, <2>1 DEF PlaceOK
  <2>2. CASE s # NewStamp
    BY <1>0, <1>5, <2>2 DEF Replying, Waits
  <2>3. QED
    BY <2>1, <2>2
<1>12. Numbered'
  <2>1. \A s \in Stamps : req'[s].status # "none" <=> s <= NewStamp
    BY <1>1, <1>2, <1>5, <1>6 DEF Stamps
  <2>2. QED
    BY <1>2, <2>1 DEF Numbered, Stamps
<1>13. QED
  BY <1>5, <1>8, <1>9, <1>10, <1>11, <1>12 DEF Books

\* A request joins the queue of its viewer.
LEMMA QueueKeeps ==
  ASSUME Core, Queues
  PROVE  Books'
<1>0. /\ PlaceOK /\ ViewOK /\ ReqOK /\ Sole /\ Adapting /\ Once /\ Placed /\ Found /\ Replying /\ Numbered
      /\ NativeOK /\ attached \subseteq Connections
  BY Bounds DEF Core, Grounds, PlaceOK, Connections
<1>1. PICK c \in attached, k \in Kinds :
        /\ draining = 0 /\ Cardinality(Made) < MaxRequests
        /\ Admissible(c, k) /\ Len(view[c].queue) < MaxQueue
        /\ view' = [view EXCEPT ![c] = [view[c] EXCEPT !.queue = Append(@, NewStamp)]]
        /\ draining' = Drains(c, [view[c] EXCEPT !.queue = Append(@, NewStamp)])
        /\ req' = [req EXCEPT ![NewStamp] = New(c, k, "queued", 0)]
        /\ UNCHANGED <<place, native, ctx, clip>>
  BY DEF Queues
<1>2. /\ NewStamp \in Stamps /\ req[NewStamp].status = "none"
      /\ \A s \in Stamps : req[s].status # "none" <=> s < NewStamp
      /\ \A d \in Connections : view[d].pending # NewStamp
           /\ \A i \in 1..Len(view[d].queue) : view[d].queue[i] # NewStamp
  BY <1>1, NewFacts
<1>3. c \in Connections /\ view[c] \in Views /\ view[c].queue \in Seq(Stamps) /\ Len(view[c].queue) \in Nat
  BY <1>0, ViewFields
<1> DEFINE q == Append(view[c].queue, NewStamp)
<1>4. /\ q \in Seq(Stamps) /\ Len(q) = Len(view[c].queue) + 1
      /\ \A i \in 1..Len(view[c].queue) : q[i] = view[c].queue[i]
      /\ q[Len(view[c].queue) + 1] = NewStamp
  BY <1>2, <1>3, AppendProperties
<1>5. /\ view'[c].queue = q /\ view'[c].pending = view[c].pending /\ view'[c].failed = view[c].failed
      /\ view'[c] \in Views
      /\ \A d \in Connections : d # c => view'[d] = view[d]
  <2> HIDE DEF q
  <2>1. view'[c] = [view[c] EXCEPT !.queue = q]
    BY <1>0, <1>1, <1>3 DEF ViewOK, q
  <2>2. \A d \in Connections : d # c => view'[d] = view[d]
    BY <1>0, <1>1 DEF ViewOK
  <2>3. QED
    BY <1>3, <1>4, <2>1, <2>2 DEF Views
<1> HIDE DEF q
<1>6. ViewOK'
  <2>1. view' = [d \in Connections |-> view'[d]]
    BY <1>0, <1>1 DEF ViewOK
  <2>2. \A d \in Connections : d # c => view'[d] \in Views /\ Len(view'[d].queue) <= MaxQueue
    BY <1>0, <1>5, ViewFields
  <2>3. view'[c] \in Views /\ Len(view'[c].queue) <= MaxQueue
    <3>1. Len(q) <= MaxQueue
      BY <1>1, <1>3, <1>4, Bounds
    <3>2. QED
      BY <1>5, <3>1
  <2>4. QED
    BY <2>1, <2>2, <2>3 DEF ViewOK
<1>7. c = controller /\ ~view[c].failed
  BY <1>1 DEF Admissible, Authorized, Controllable
<1>8. /\ New(c, k, "queued", 0).conn = c /\ New(c, k, "queued", 0).status = "queued"
      /\ New(c, k, "queued", 0).replies = 0 /\ New(c, k, "queued", 0) \in Requests
  <2>1. PICK g \in 0..MaxScenes : g = IF k = "close" THEN 0 ELSE view[c].ready
    BY <1>3, Bounds DEF Views
  <2>2. New(c, k, "queued", 0) = [conn |-> c, kind |-> k, gen |-> g, status |-> "queued", replies |-> 0]
    BY <2>1 DEF New
  <2>3. k \in {"down", "up", "text", "clip", "close"} /\ c \in 0..MaxConnections
    BY <1>3, KindsAssumption DEF Connections
  <2>4. QED
    BY <2>2, <2>3 DEF Requests, Statuses
<1>9. /\ req'[NewStamp].conn = c /\ req'[NewStamp].status = "queued" /\ req'[NewStamp].replies = 0
      /\ \A s \in Stamps : s # NewStamp => req'[s] = req[s]
      /\ ReqOK'
  BY <1>0, <1>1, <1>2, <1>8 DEF ReqOK
<1>10. UNCHANGED <<connections, attached, controller, native, ctx, clip>>
  BY <1>1 DEF place
<1>11. Sole'
  BY <1>0, <1>5, <1>7, <1>10 DEF Sole, Busy
<1>12. Once'
  <2> SUFFICES ASSUME NEW d \in Connections
               PROVE  /\ \A i, j \in 1..Len(view'[d].queue) : view'[d].queue[i] = view'[d].queue[j] => i = j
                      /\ \A i \in 1..Len(view'[d].queue) : view'[d].queue[i] # view'[d].pending
    BY DEF Once
  <2>1. CASE d = c
    <3>1. \A i, j \in 1..Len(q) : q[i] = q[j] => i = j
      <4> SUFFICES ASSUME NEW i \in 1..Len(q), NEW j \in 1..Len(q), q[i] = q[j] PROVE i = j
        OBVIOUS
      <4>1. \/ i \in 1..Len(view[c].queue)
            \/ i = Len(view[c].queue) + 1
        BY <1>3, <1>4
      <4>2. \/ j \in 1..Len(view[c].queue)
            \/ j = Len(view[c].queue) + 1
        BY <1>3, <1>4
      <4>3. QED
        BY <1>0, <1>2, <1>3, <1>4, <4>1, <4>2 DEF Once
    <3>2. \A i \in 1..Len(q) : q[i] # view[c].pending
      <4> SUFFICES ASSUME NEW i \in 1..Len(q) PROVE q[i] # view[c].pending
        OBVIOUS
      <4>1. \/ i \in 1..Len(view[c].queue)
            \/ i = Len(view[c].queue) + 1
        BY <1>3, <1>4
      <4>2. QED
        BY <1>0, <1>2, <1>3, <1>4, <4>1 DEF Once
    <3>3. QED
      BY <1>5, <2>1, <3>1, <3>2
  <2>2. CASE d # c
    BY <1>0, <1>5, <2>2 DEF Once
  <2>3. QED
    BY <2>1, <2>2
<1>13. Placed'
  <2> SUFFICES ASSUME NEW d \in Connections
               PROVE  /\ \A i \in 1..Len(view'[d].queue) : req'[view'[d].queue[i]].status = "queued"
                                                           /\ req'[view'[d].queue[i]].conn = d
                      /\ view'[d].pending # 0 => /\ req'[view'[d].pending].status = "issued"
                                                 /\ req'[view'[d].pending].conn = d
                                                 /\ req'[view'[d].pending].gen = native.target
    BY <1>10 DEF Placed
  <2>1. /\ \A i \in 1..Len(view[d].queue) : /\ req'[view[d].queue[i]].status = "queued"
                                            /\ req'[view[d].queue[i]].conn = d
        /\ view[d].pending # 0 => /\ req'[view[d].pending].status = "issued"
                                  /\ req'[view[d].pending].conn = d
                                  /\ req'[view[d].pending].gen = native.target
    <3>1. /\ \A i \in 1..Len(view[d].queue) : view[d].queue[i] \in Stamps
          /\ view[d].pending # 0 => view[d].pending \in Stamps
      BY <1>0, ViewFields DEF Opt
    <3>2. QED
      BY <1>0, <1>2, <1>9, <3>1 DEF Placed
  <2>2. CASE d # c
    BY <1>5, <2>1, <2>2
  <2>3. CASE d = c
    <3>1. ASSUME NEW i \in 1..Len(q) PROVE req'[q[i]].status = "queued" /\ req'[q[i]].conn = c
      <4>1. \/ i \in 1..Len(view[c].queue)
            \/ i = Len(view[c].queue) + 1
        BY <1>3, <1>4
      <4>2. QED
        BY <1>4, <1>9, <2>1, <2>3, <4>1
    <3>2. QED
      BY <1>5, <2>1, <2>3, <3>1
  <2>4. QED
    BY <2>2, <2>3
<1>14. Found'
  <2> SUFFICES ASSUME NEW s \in Stamps
               PROVE  /\ req'[s].status = "queued" =>
                           \E d \in Connections : \E i \in 1..Len(view'[d].queue) : view'[d].queue[i] = s
                      /\ req'[s].status = "issued" => \E d \in Connections : view'[d].pending = s
    BY DEF Found
  <2>1. CASE s = NewStamp
    <3>1. Len(view[c].queue) + 1 \in 1..Len(q)
      BY <1>3, <1>4
    <3>2. QED
      BY <1>3, <1>4, <1>5, <1>9, <2>1, <3>1
  <2>2. CASE s # NewStamp
    <3>1. req'[s] = req[s]
      BY <1>9, <2>2
    <3>2. ASSUME req[s].status = "queued"
          PROVE  \E d \in Connections : \E i \in 1..Len(view'[d].queue) : view'[d].queue[i] = s
      <4>0. PICK d \in Connections : \E i \in 1..Len(view[d].queue) : view[d].queue[i] = s
        BY <1>0, <3>2 DEF Found
      <4>1. PICK i \in 1..Len(view[d].queue) : view[d].queue[i] = s
        BY <4>0
      <4>2. i \in 1..Len(view'[d].queue) /\ view'[d].queue[i] = s
        BY <1>3, <1>4, <1>5, <4>1
      <4>3. QED
        BY <4>2
    <3>3. ASSUME req[s].status = "issued" PROVE \E d \in Connections : view'[d].pending = s
      BY <1>0, <1>5, <3>3 DEF Found
    <3>4. QED
      BY <3>1, <3>2, <3>3
  <2>3. QED
    BY <2>1, <2>2
<1>15. Replying'
  <2> SUFFICES ASSUME NEW s \in Stamps
               PROVE  /\ req'[s].status \in {"none", "queued", "issued"} => req'[s].replies = 0
                      /\ req'[s].status # "none" => req'[s].conn \in 1..connections
                      /\ req'[s].status \in {"confirmed", "failed", "refused"} =>
                           req'[s].replies = 1 \/ (req'[s].replies = 0 /\ req'[s].conn \notin attached)
    BY <1>10 DEF Replying, Waits
  <2>1. CASE s = NewStamp
    BY <1>0, <1>1, <1>9, <2>1 DEF PlaceOK
  <2>2. CASE s # NewStamp
    BY <1>0, <1>9, <2>2 DEF Replying, Waits
  <2>3. QED
    BY <2>1, <2>2
<1>16. Numbered'
  <2>1. \A s \in Stamps : req'[s].status # "none" <=> s <= NewStamp
    BY <1>2, <1>9 DEF Stamps
  <2>2. QED
    BY <1>2, <2>1 DEF Numbered, Stamps
<1>17. Adapting'
  BY <1>0, <1>5, <1>10 DEF Adapting
<1>18. Draining'
  <2>1. draining' # 0 => draining' = c /\ view'[c].queue # <<>> /\ view'[c].pending = 0
    BY <1>0, <1>1, <1>3 DEF Drains, ViewOK
  <2>2. QED
    BY <2>1 DEF Draining
<1>19. QED
  BY <1>6, <1>9, <1>11, <1>12, <1>13, <1>14, <1>15, <1>16, <1>17, <1>18 DEF Books

\* A step that changes one viewer.
LEMMA ViewChange ==
  ASSUME ViewOK, NEW c \in Connections, NEW v \in Views, Len(v.queue) <= MaxQueue,
         view' = [view EXCEPT ![c] = v]
  PROVE  ViewOK' /\ view'[c] = v /\ \A d \in Connections : d # c => view'[d] = view[d]
<1>1. view'[c] = v /\ \A d \in Connections : d # c => view'[d] = view[d]
  BY DEF ViewOK
<1>2. view' \in [Connections -> Views]
  BY DEF ViewOK
<1>3. \A d \in Connections : Len(view'[d].queue) <= MaxQueue
  BY <1>1, ViewFields
<1>4. QED
  BY <1>1, <1>2, <1>3 DEF ViewOK

\* A step that settles one request with a reply.
LEMMA Settles ==
  ASSUME Core, NEW s \in Stamps, Waits(s), NEW status \in {"confirmed", "refused"},
         req' = [req EXCEPT ![s].status = status, ![s].replies = @ + 1]
  PROVE  /\ ReqOK' /\ \A t \in Stamps : t # s => req'[t] = req[t]
         /\ req'[s].status = status /\ req'[s].replies = 1 /\ req'[s].conn = req[s].conn
         /\ Numbered'
         /\ UNCHANGED place => Replying'
<1>0. ReqOK /\ Replying /\ Numbered
  BY DEF Core
<1>1. req[s].replies = 0
  BY <1>0 DEF Replying
<1>2. req' = [req EXCEPT ![s].status = status, ![s].replies = 1]
  BY <1>0, <1>1 DEF ReqOK, Requests
<1>3. /\ ReqOK' /\ \A t \in Stamps : t # s => req'[t] = req[t]
      /\ req'[s].status = status /\ req'[s].replies = 1 /\ req'[s].conn = req[s].conn
  <2>1. req[s] \in Requests /\ status \in Statuses /\ 1 \in Nat
    BY <1>0 DEF ReqOK, Statuses
  <2>2. PICK r \in Requests : /\ r = [req[s] EXCEPT !.status = status, !.replies = 1]
                             /\ r.status = status /\ r.replies = 1 /\ r.conn = req[s].conn
    <3>1. /\ [req[s] EXCEPT !.status = status, !.replies = 1] \in Requests
          /\ [req[s] EXCEPT !.status = status, !.replies = 1].status = status
          /\ [req[s] EXCEPT !.status = status, !.replies = 1].replies = 1
          /\ [req[s] EXCEPT !.status = status, !.replies = 1].conn = req[s].conn
      BY <2>1 DEF Requests
    <3>2. QED
      BY <3>1, Zenon
  <2>3. req' = [req EXCEPT ![s] = r]
    BY <1>0, <1>2, <2>2 DEF ReqOK
  <2>4. QED
    BY <1>0, <2>2, <2>3, ReqChange
<1>4. Numbered'
  <2>1. \A t \in Stamps : req'[t].status # "none" <=> req[t].status # "none"
    BY <1>3 DEF Waits
  <2>2. QED
    BY <1>0, <2>1 DEF Numbered
<1>5. ASSUME UNCHANGED place PROVE Replying'
  <2> SUFFICES ASSUME NEW t \in Stamps
               PROVE  /\ req'[t].status \in {"none", "queued", "issued"} => req'[t].replies = 0
                      /\ req'[t].status # "none" => req'[t].conn \in 1..connections
                      /\ req'[t].status \in {"confirmed", "failed", "refused"} =>
                           req'[t].replies = 1 \/ (req'[t].replies = 0 /\ req'[t].conn \notin attached)
    BY <1>5 DEF Replying, Waits, place
  <2>1. CASE t = s
    BY <1>0, <1>3, <2>1 DEF Replying, Waits
  <2>2. CASE t # s
    BY <1>0, <1>3, <2>2 DEF Replying, Waits
  <2>3. QED
    BY <2>1, <2>2
<1>6. QED
  BY <1>3, <1>4, <1>5

\* The pending operation of a viewer succeeds.
LEMMA ConfirmKeeps ==
  ASSUME Core, Confirms
  PROVE  Books'
<1>0. /\ PlaceOK /\ ViewOK /\ ReqOK /\ Sole /\ Adapting /\ Once /\ Placed /\ Found /\ Replying /\ Numbered
      /\ attached \subseteq Connections
  BY Bounds DEF Core, Grounds, PlaceOK, Connections
<1>1. PICK c \in attached :
        /\ view[c].pending # 0 /\ Succeed(c)
        /\ ctx'.op = IF ctx.op = view[c].pending THEN 0 ELSE ctx.op
        /\ clip'.op = IF clip.op = view[c].pending THEN 0 ELSE clip.op
        /\ UNCHANGED <<place, native>>
  BY DEF Confirms
<1>2. c \in Connections /\ view[c] \in Views /\ view[c].pending \in Stamps
      /\ view[c].queue \in Seq(Stamps) /\ Len(view[c].queue) \in Nat /\ Len(view[c].queue) <= MaxQueue
  BY <1>0, <1>1, ViewFields DEF Opt
<1>3. PICK s \in Stamps : s = view[c].pending
  BY <1>2
<1>4. req[s].status = "issued" /\ req[s].conn = c /\ Waits(s)
  BY <1>0, <1>1, <1>2, <1>3 DEF Placed, Waits
<1>5. PICK v \in Views : /\ v = [view[c] EXCEPT !.pending = 0] /\ v.pending = 0
                         /\ v.queue = view[c].queue /\ v.failed = view[c].failed
  <2>1. /\ [view[c] EXCEPT !.pending = 0].pending = 0
        /\ [view[c] EXCEPT !.pending = 0].queue = view[c].queue
        /\ [view[c] EXCEPT !.pending = 0].failed = view[c].failed
        /\ [view[c] EXCEPT !.pending = 0] \in Views
    BY <1>2 DEF Views, Opt
  <2>2. QED
    BY <2>1, Zenon
<1>6. /\ view' = [view EXCEPT ![c] = v] /\ draining' = Drains(c, v)
      /\ req' = [req EXCEPT ![s].status = "confirmed", ![s].replies = @ + 1]
  BY <1>1, <1>3, <1>5 DEF Succeed
<1>7. /\ ViewOK' /\ view'[c] = v /\ \A d \in Connections : d # c => view'[d] = view[d]
  BY <1>0, <1>2, <1>5, <1>6, ViewChange
<1>8. /\ ReqOK' /\ \A t \in Stamps : t # s => req'[t] = req[t]
      /\ req'[s].status = "confirmed" /\ req'[s].replies = 1 /\ req'[s].conn = req[s].conn
      /\ Numbered' /\ (UNCHANGED place => Replying')
  BY <1>4, <1>6, Settles
<1>9. UNCHANGED <<connections, attached, controller, native>>
  BY <1>1 DEF place
<1>10. c = controller /\ ~view[c].failed /\ \A d \in Connections : d # c => ~Busy(d)
  BY <1>0, <1>1, <1>2 DEF Sole, Busy
<1>11. Sole'
  BY <1>0, <1>5, <1>7, <1>9, <1>10 DEF Sole, Busy
<1>12. Once'
  <2> SUFFICES ASSUME NEW d \in Connections
               PROVE  /\ \A i, j \in 1..Len(view'[d].queue) : view'[d].queue[i] = view'[d].queue[j] => i = j
                      /\ \A i \in 1..Len(view'[d].queue) : view'[d].queue[i] # view'[d].pending
    BY DEF Once
  <2>0. 0 \notin Stamps
    BY DEF Stamps
  <2>1. \A i \in 1..Len(view[c].queue) : view[c].queue[i] \in Stamps /\ view[c].queue[i] # 0
    BY <1>2, <2>0
  <2>2. CASE d = c
    <3>1. view'[d].queue = view[c].queue /\ view'[d].pending = 0
      BY <1>5, <1>7, <2>2
    <3>2. \A i, j \in 1..Len(view[c].queue) : view[c].queue[i] = view[c].queue[j] => i = j
      BY <1>0, <1>2 DEF Once
    <3>3. QED
      BY <2>1, <3>1, <3>2
  <2>3. CASE d # c
    BY <1>0, <1>7, <2>3 DEF Once
  <2>4. QED
    BY <2>2, <2>3
\* a queue holds other requests than the one that is confirmed
<1>13. ASSUME NEW d \in Connections, NEW i \in 1..Len(view[d].queue)
       PROVE  view[d].queue[i] \in Stamps /\ view[d].queue[i] # s
  <2>1. view[d].queue[i] \in Stamps
    BY <1>0, ViewFields
  <2>2. req[view[d].queue[i]].status = "queued"
    BY <1>0 DEF Placed
  <2>3. QED
    BY <1>4, <2>1, <2>2
<1>14. Placed'
  <2> SUFFICES ASSUME NEW d \in Connections
               PROVE  /\ \A i \in 1..Len(view'[d].queue) : req'[view'[d].queue[i]].status = "queued"
                                                           /\ req'[view'[d].queue[i]].conn = d
                      /\ view'[d].pending = 0
    BY DEF Placed
  <2>1. view'[d].pending = 0 /\ view'[d].queue = view[d].queue
    BY <1>5, <1>7, <1>10 DEF Busy
  <2>2. QED
    BY <1>0, <1>8, <1>13, <2>1 DEF Placed
<1>15. Found'
  <2> SUFFICES ASSUME NEW t \in Stamps
               PROVE  /\ req'[t].status = "queued" =>
                           \E d \in Connections : \E i \in 1..Len(view'[d].queue) : view'[d].queue[i] = t
                      /\ req'[t].status = "issued" => \E d \in Connections : view'[d].pending = t
    BY DEF Found
  <2>1. CASE t = s
    BY <1>8, <2>1
  <2>2. CASE t # s
    <3>1. req'[t] = req[t]
      BY <1>8, <2>2
    <3>2. req[t].status # "issued"
      <4>1. \A d \in Connections : view[d].pending # t
        BY <1>3, <1>10, <2>2 DEF Busy, Stamps
      <4>2. QED
        BY <1>0, <4>1 DEF Found
    <3>3. \A d \in Connections : view'[d].queue = view[d].queue
      BY <1>5, <1>7
    <3>4. QED
      BY <1>0, <3>1, <3>2, <3>3 DEF Found
  <2>3. QED
    BY <2>1, <2>2
<1>16. Adapting'
  <2>1. \A d \in Connections : view'[d].pending = 0
    BY <1>5, <1>7, <1>10 DEF Busy
  <2>2. ctx'.op = 0 /\ clip'.op = 0
    <3>1. ASSUME NEW t \in {ctx.op, clip.op}, t # 0 PROVE t = s
      <4>1. PICK d \in Connections : view[d].pending = t
        BY <1>0, <3>1 DEF Adapting
      <4>2. QED
        BY <1>3, <1>10, <3>1, <4>1 DEF Busy
    <3>2. QED
      BY <1>1, <1>3, <3>1
  <2>3. QED
    BY <2>1, <2>2 DEF Adapting
<1>17. Draining'
  <2>1. draining' # 0 => draining' = c /\ v.queue # <<>> /\ v.pending = 0
    BY <1>6 DEF Drains
  <2>2. QED
    BY <1>7, <2>1 DEF Draining
<1>18. QED
  BY <1>7, <1>8, <1>9, <1>11, <1>12, <1>14, <1>15, <1>16, <1>17 DEF Books, place

\* What is behind the head of a queue.
LEMMA Behind1 ==
  ASSUME Core, NEW c \in attached, Turn(c)
  PROVE  /\ \A i \in 1..Len(Popped(c).queue) :
              /\ Popped(c).queue[i] \in Stamps /\ Popped(c).queue[i] # Op(c)
              /\ req[Popped(c).queue[i]].status = "queued" /\ req[Popped(c).queue[i]].conn = c
         /\ \A i, j \in 1..Len(Popped(c).queue) : Popped(c).queue[i] = Popped(c).queue[j] => i = j
         /\ \A i \in 1..Len(view[c].queue) : view[c].queue[i] = Op(c)
              \/ \E j \in 1..Len(Popped(c).queue) : Popped(c).queue[j] = view[c].queue[i]
<1>0. /\ c \in Connections /\ Len(view[c].queue) > 0
      /\ Len(Popped(c).queue) = Len(view[c].queue) - 1
      /\ \A i \in 1..Len(Popped(c).queue) : Popped(c).queue[i] = view[c].queue[i + 1]
  BY TurnFacts
<1>1. /\ Once /\ Placed /\ view[c].queue \in Seq(Stamps) /\ Len(view[c].queue) \in Nat
  BY <1>0, ViewFields DEF Core, Grounds
<1>2. \A i \in 1..Len(Popped(c).queue) : i + 1 \in 1..Len(view[c].queue) /\ i + 1 # 1
  BY <1>0, <1>1
<1>3. 1 \in 1..Len(view[c].queue) /\ Op(c) = view[c].queue[1]
  BY <1>0, <1>1 DEF Op
<1>4. \A i, j \in 1..Len(view[c].queue) : view[c].queue[i] = view[c].queue[j] => i = j
  BY <1>0, <1>1 DEF Once
<1>5. \A i \in 1..Len(Popped(c).queue) : /\ Popped(c).queue[i] \in Stamps /\ Popped(c).queue[i] # Op(c)
                                         /\ req[Popped(c).queue[i]].status = "queued"
                                         /\ req[Popped(c).queue[i]].conn = c
  <2> SUFFICES ASSUME NEW i \in 1..Len(Popped(c).queue)
               PROVE  /\ view[c].queue[i + 1] \in Stamps /\ view[c].queue[i + 1] # view[c].queue[1]
                      /\ req[view[c].queue[i + 1]].status = "queued" /\ req[view[c].queue[i + 1]].conn = c
    BY <1>0, <1>3
  <2>1. i + 1 \in 1..Len(view[c].queue) /\ i + 1 # 1
    BY <1>2
  <2>2. view[c].queue[i + 1] # view[c].queue[1]
    BY <1>3, <1>4, <2>1
  <2>3. view[c].queue[i + 1] \in Stamps
    BY <1>1, <2>1
  <2>4. QED
    BY <1>0, <1>1, <2>1, <2>2, <2>3 DEF Placed
<1>6. \A i, j \in 1..Len(Popped(c).queue) : Popped(c).queue[i] = Popped(c).queue[j] => i = j
  <2> SUFFICES ASSUME NEW i \in 1..Len(Popped(c).queue), NEW j \in 1..Len(Popped(c).queue),
                      view[c].queue[i + 1] = view[c].queue[j + 1]
               PROVE  i = j
    BY <1>0
  <2>1. i + 1 = j + 1
    BY <1>2, <1>4
  <2>2. QED
    BY <2>1
<1>7. \A i \in 1..Len(view[c].queue) : view[c].queue[i] = Op(c)
         \/ \E j \in 1..Len(Popped(c).queue) : Popped(c).queue[j] = view[c].queue[i]
  <2> SUFFICES ASSUME NEW i \in 1..Len(view[c].queue), i # 1
               PROVE  \E j \in 1..Len(Popped(c).queue) : Popped(c).queue[j] = view[c].queue[i]
    BY <1>3
  <2>1. PICK j \in Int : j = i - 1
    OBVIOUS
  <2>2. j \in 1..Len(Popped(c).queue) /\ j + 1 = i
    BY <1>0, <1>1, <2>1
  <2>3. QED
    BY <1>0, <2>2
<1>8. QED
  BY <1>5, <1>6, <1>7

\* The request at the head of a queue is answered at once.
LEMMA ReplyKeeps ==
  ASSUME Core, Replies
  PROVE  Books'
<1>0. /\ PlaceOK /\ ViewOK /\ ReqOK /\ Sole /\ Adapting /\ Once /\ Placed /\ Found /\ Replying /\ Numbered
      /\ attached \subseteq Connections
  BY Bounds DEF Core, Grounds, PlaceOK, Connections
<1>1. PICK c \in attached, status \in {"confirmed", "refused"} :
        Turn(c) /\ Replied(c, status) /\ UNCHANGED <<place, native>>
  BY DEF Replies
<1>2. /\ c \in Connections /\ c = controller /\ view[c].pending = 0
      /\ Len(view[c].queue) > 0 /\ Op(c) \in Stamps /\ req[Op(c)].status = "queued"
      /\ Popped(c) \in Views /\ Len(Popped(c).queue) = Len(view[c].queue) - 1
      /\ Popped(c).pending = 0 /\ Popped(c).failed = view[c].failed
  BY <1>1, TurnFacts
<1>3. /\ \A i \in 1..Len(Popped(c).queue) :
              /\ Popped(c).queue[i] \in Stamps /\ Popped(c).queue[i] # Op(c)
              /\ req[Popped(c).queue[i]].status = "queued" /\ req[Popped(c).queue[i]].conn = c
      /\ \A i, j \in 1..Len(Popped(c).queue) : Popped(c).queue[i] = Popped(c).queue[j] => i = j
      /\ \A i \in 1..Len(view[c].queue) : view[c].queue[i] = Op(c)
            \/ \E j \in 1..Len(Popped(c).queue) : Popped(c).queue[j] = view[c].queue[i]
  BY <1>1, Behind1
<1>4. Len(view[c].queue) \in Nat /\ Len(view[c].queue) <= MaxQueue /\ Len(Popped(c).queue) <= MaxQueue
  BY <1>0, <1>2, ViewFields, Bounds
<1>5. /\ view' = [view EXCEPT ![c] = Popped(c)] /\ draining' = Drains(c, Popped(c))
      /\ req' = [req EXCEPT ![Op(c)].status = status, ![Op(c)].replies = @ + 1]
      /\ UNCHANGED <<ctx, clip>>
  BY <1>1 DEF Replied
<1>6. /\ ViewOK' /\ view'[c] = Popped(c) /\ \A d \in Connections : d # c => view'[d] = view[d]
  BY <1>0, <1>2, <1>4, <1>5, ViewChange
<1>7. /\ ReqOK' /\ \A t \in Stamps : t # Op(c) => req'[t] = req[t]
      /\ req'[Op(c)].status = status /\ req'[Op(c)].conn = req[Op(c)].conn
      /\ Numbered' /\ (UNCHANGED place => Replying')
  <2>1. Waits(Op(c))
    BY <1>2 DEF Waits
  <2>2. PICK s \in Stamps : s = Op(c)
    BY <1>2
  <2>3. req' = [req EXCEPT ![s].status = status, ![s].replies = @ + 1]
    BY <1>5, <2>2
  <2>4. /\ ReqOK' /\ \A t \in Stamps : t # s => req'[t] = req[t]
        /\ req'[s].status = status /\ req'[s].conn = req[s].conn
        /\ Numbered' /\ (UNCHANGED place => Replying')
    BY <2>1, <2>2, <2>3, Settles
  <2>5. QED
    BY <2>2, <2>4
<1>8. UNCHANGED <<connections, attached, controller, native>>
  BY <1>1 DEF place
<1>9. \A d \in Connections : d # c => ~Busy(d)
  BY <1>0, <1>2 DEF Sole
<1>10. ~view[c].failed
  <2>1. view[c].queue # <<>>
    BY <1>1 DEF Turn, Core, Grounds, Draining
  <2>2. QED
    BY <1>0, <1>2, <2>1 DEF Sole, Busy
<1>11. Sole'
  BY <1>2, <1>6, <1>8, <1>9, <1>10 DEF Sole, Busy
<1>12. Once'
  <2> SUFFICES ASSUME NEW d \in Connections
               PROVE  /\ \A i, j \in 1..Len(view'[d].queue) : view'[d].queue[i] = view'[d].queue[j] => i = j
                      /\ \A i \in 1..Len(view'[d].queue) : view'[d].queue[i] # view'[d].pending
    BY DEF Once
  <2>1. CASE d = c
    <3>1. 0 \notin Stamps
      BY DEF Stamps
    <3>2. view'[d] = Popped(c) /\ Popped(c).pending = 0
      BY <1>2, <1>6, <2>1
    <3>3. \A i \in 1..Len(Popped(c).queue) : Popped(c).queue[i] # 0
      BY <1>3, <3>1
    <3>4. QED
      BY <1>3, <3>2, <3>3
  <2>2. CASE d # c
    BY <1>0, <1>6, <2>2 DEF Once
  <2>3. QED
    BY <2>1, <2>2
<1>13. Placed'
  <2> SUFFICES ASSUME NEW d \in Connections
               PROVE  /\ \A i \in 1..Len(view'[d].queue) : req'[view'[d].queue[i]].status = "queued"
                                                           /\ req'[view'[d].queue[i]].conn = d
                      /\ view'[d].pending = 0
    BY DEF Placed
  <2>1. CASE d = c
    BY <1>2, <1>3, <1>6, <1>7, <2>1
  <2>2. CASE d # c
    <3>1. view'[d].queue = <<>> /\ view'[d].pending = 0 /\ Len(<<>>) = 0
      BY <1>6, <1>9, <2>2, EmptySeq DEF Busy
    <3>2. QED
      BY <3>1
  <2>3. QED
    BY <2>1, <2>2
<1>14. Found'
  <2> SUFFICES ASSUME NEW t \in Stamps
               PROVE  /\ req'[t].status = "queued" =>
                           \E d \in Connections : \E i \in 1..Len(view'[d].queue) : view'[d].queue[i] = t
                      /\ req'[t].status = "issued" => \E d \in Connections : view'[d].pending = t
    BY DEF Found
  <2>1. CASE t = Op(c)
    BY <1>7, <2>1
  <2>2. CASE t # Op(c)
    <3>1. req'[t] = req[t]
      BY <1>7, <2>2
    <3>2. ASSUME req[t].status = "queued"
          PROVE  \E d \in Connections : \E i \in 1..Len(view'[d].queue) : view'[d].queue[i] = t
      <4>1. PICK d \in Connections : \E i \in 1..Len(view[d].queue) : view[d].queue[i] = t
        BY <1>0, <3>2 DEF Found
      <4>2. PICK i \in 1..Len(view[d].queue) : view[d].queue[i] = t
        BY <4>1
      <4>3. CASE d = c
        BY <1>2, <1>3, <1>6, <2>2, <4>2, <4>3
      <4>4. CASE d # c
        BY <1>6, <4>2, <4>4
      <4>5. QED
        BY <4>3, <4>4
    <3>3. ASSUME req[t].status = "issued" PROVE \E d \in Connections : view'[d].pending = t
      <4>1. PICK d \in Connections : view[d].pending = t
        BY <1>0, <3>3 DEF Found
      <4>2. d # c
        BY <1>2, <4>1 DEF Stamps
      <4>3. QED
        BY <1>6, <4>1, <4>2
    <3>4. QED
      BY <3>1, <3>2, <3>3
  <2>3. QED
    BY <2>1, <2>2
<1>15. Adapting'
  <2>1. \A d \in Connections : view'[d].pending = view[d].pending
    BY <1>2, <1>6
  <2>2. QED
    BY <1>0, <1>5, <2>1 DEF Adapting
<1>16. Draining'
  <2>1. draining' # 0 => draining' = c /\ Popped(c).queue # <<>>
    BY <1>5 DEF Drains
  <2>2. QED
    BY <1>2, <1>6, <2>1 DEF Draining
<1>17. QED
  BY <1>6, <1>7, <1>8, <1>11, <1>12, <1>13, <1>14, <1>15, <1>16 DEF Books, place

\* The request at the head of a queue waits for an adapter.
LEMMA SuspendKeeps ==
  ASSUME Core, Suspends
  PROVE  Books'
<1>0. /\ PlaceOK /\ ViewOK /\ ReqOK /\ Sole /\ Adapting /\ Once /\ Placed /\ Found /\ Replying /\ Numbered
      /\ attached \subseteq Connections
  BY Bounds DEF Core, Grounds, PlaceOK, Connections
<1>1. PICK c \in attached :
        /\ Turn(c) /\ Admitted(c) /\ Pends(c) /\ ctx.op = 0 /\ clip.op = 0
        /\ \/ ctx'.op = Op(c) /\ clip'.op = 0
           \/ ctx'.op = 0 /\ clip'.op = Op(c)
        /\ UNCHANGED <<place, native>>
  BY DEF Suspends
<1>2. /\ c \in Connections /\ c = controller /\ view[c].pending = 0
      /\ Len(view[c].queue) > 0 /\ Op(c) \in Stamps /\ req[Op(c)].status = "queued"
      /\ req[Op(c)].conn = c /\ req[Op(c)].replies = 0
      /\ Popped(c) \in Views /\ Len(Popped(c).queue) = Len(view[c].queue) - 1
      /\ Popped(c).failed = view[c].failed
  BY <1>1, TurnFacts
<1>3. /\ \A i \in 1..Len(Popped(c).queue) :
              /\ Popped(c).queue[i] \in Stamps /\ Popped(c).queue[i] # Op(c)
              /\ req[Popped(c).queue[i]].status = "queued" /\ req[Popped(c).queue[i]].conn = c
      /\ \A i, j \in 1..Len(Popped(c).queue) : Popped(c).queue[i] = Popped(c).queue[j] => i = j
      /\ \A i \in 1..Len(view[c].queue) : view[c].queue[i] = Op(c)
            \/ \E j \in 1..Len(Popped(c).queue) : Popped(c).queue[j] = view[c].queue[i]
  BY <1>1, Behind1
<1>4. Len(view[c].queue) \in Nat /\ Len(view[c].queue) <= MaxQueue /\ Len(Popped(c).queue) <= MaxQueue
  BY <1>0, <1>2, ViewFields, Bounds
<1>5. PICK s \in Stamps : s = Op(c)
  BY <1>2
<1>6. s # 0 /\ s \in Opt
  BY DEF Opt, Stamps
<1>7. PICK v \in Views : /\ v = [Popped(c) EXCEPT !.pending = s] /\ v.pending = s
                         /\ v.queue = Popped(c).queue /\ v.failed = view[c].failed
  <2>1. /\ [Popped(c) EXCEPT !.pending = s].pending = s
        /\ [Popped(c) EXCEPT !.pending = s].queue = Popped(c).queue
        /\ [Popped(c) EXCEPT !.pending = s].failed = view[c].failed
        /\ [Popped(c) EXCEPT !.pending = s] \in Views
    BY <1>2, <1>6 DEF Views
  <2>2. QED
    BY <2>1, Zenon
<1>8. /\ view' = [view EXCEPT ![c] = v] /\ draining' = 0
      /\ req' = [req EXCEPT ![s].status = "issued"]
  BY <1>1, <1>5, <1>7 DEF Pends
<1>9. /\ ViewOK' /\ view'[c] = v /\ \A d \in Connections : d # c => view'[d] = view[d]
  <2>1. Len(v.queue) <= MaxQueue
    BY <1>4, <1>7
  <2>2. QED
    BY <1>0, <1>2, <1>8, <2>1, ViewChange
<1>10. PICK r \in Requests : /\ r = [req[s] EXCEPT !.status = "issued"] /\ r.status = "issued"
                             /\ r.replies = 0 /\ r.conn = c /\ r.gen = req[s].gen
  <2>1. req[s] \in Requests /\ req[s].replies = 0 /\ req[s].conn = c
    BY <1>0, <1>2, <1>5 DEF ReqOK
  <2>2. /\ [req[s] EXCEPT !.status = "issued"].status = "issued"
        /\ [req[s] EXCEPT !.status = "issued"].replies = 0
        /\ [req[s] EXCEPT !.status = "issued"].conn = c
        /\ [req[s] EXCEPT !.status = "issued"].gen = req[s].gen
        /\ [req[s] EXCEPT !.status = "issued"] \in Requests
    BY <2>1 DEF Requests, Statuses
  <2>3. QED
    BY <2>2, Zenon
<1>11. ReqOK' /\ req'[s] = r /\ \A t \in Stamps : t # s => req'[t] = req[t]
  <2>1. req' = [req EXCEPT ![s] = r]
    BY <1>8, <1>10
  <2>2. QED
    BY <1>0, <2>1, ReqChange
<1>12. UNCHANGED <<connections, attached, controller, native>>
  BY <1>1 DEF place
<1>13. \A d \in Connections : d # c => ~Busy(d)
  BY <1>0, <1>2 DEF Sole
<1>14. ~view[c].failed
  <2>1. view[c].queue # <<>>
    BY <1>1 DEF Turn, Core, Grounds, Draining
  <2>2. QED
    BY <1>0, <1>2, <2>1 DEF Sole, Busy
<1>15. Sole'
  BY <1>2, <1>7, <1>9, <1>12, <1>13, <1>14 DEF Sole, Busy
<1>16. Once'
  <2> SUFFICES ASSUME NEW d \in Connections
               PROVE  /\ \A i, j \in 1..Len(view'[d].queue) : view'[d].queue[i] = view'[d].queue[j] => i = j
                      /\ \A i \in 1..Len(view'[d].queue) : view'[d].queue[i] # view'[d].pending
    BY DEF Once
  <2>1. CASE d = c
    <3>1. view'[d].queue = Popped(c).queue /\ view'[d].pending = s
      BY <1>7, <1>9, <2>1
    <3>2. QED
      BY <1>3, <1>5, <3>1
  <2>2. CASE d # c
    BY <1>0, <1>9, <2>2 DEF Once
  <2>3. QED
    BY <2>1, <2>2
<1>17. Placed'
  <2> SUFFICES ASSUME NEW d \in Connections
               PROVE  /\ \A i \in 1..Len(view'[d].queue) : req'[view'[d].queue[i]].status = "queued"
                                                           /\ req'[view'[d].queue[i]].conn = d
                      /\ view'[d].pending # 0 => /\ req'[view'[d].pending].status = "issued"
                                                 /\ req'[view'[d].pending].conn = d
                                                 /\ req'[view'[d].pending].gen = native.target
    BY <1>12 DEF Placed
  <2>1. CASE d = c
    <3>1. view'[d].queue = Popped(c).queue /\ view'[d].pending = s
      BY <1>7, <1>9, <2>1
    <3>2. req[s].gen = native.target
      BY <1>1, <1>5 DEF Admitted
    <3>3. \A i \in 1..Len(Popped(c).queue) : req'[Popped(c).queue[i]] = req[Popped(c).queue[i]]
      BY <1>3, <1>5, <1>11
    <3>4. ASSUME NEW i \in 1..Len(Popped(c).queue)
          PROVE  req'[Popped(c).queue[i]].status = "queued" /\ req'[Popped(c).queue[i]].conn = d
      BY <1>3, <2>1, <3>3
    <3>5. req'[s].status = "issued" /\ req'[s].conn = d /\ req'[s].gen = native.target
      BY <1>10, <1>11, <2>1, <3>2
    <3>6. QED
      BY <3>1, <3>4, <3>5
  <2>2. CASE d # c
    <3>1. view'[d].queue = <<>> /\ view'[d].pending = 0 /\ Len(<<>>) = 0
      BY <1>9, <1>13, <2>2, EmptySeq DEF Busy
    <3>2. QED
      BY <3>1
  <2>3. QED
    BY <2>1, <2>2
<1>18. Found'
  <2> SUFFICES ASSUME NEW t \in Stamps
               PROVE  /\ req'[t].status = "queued" =>
                           \E d \in Connections : \E i \in 1..Len(view'[d].queue) : view'[d].queue[i] = t
                      /\ req'[t].status = "issued" => \E d \in Connections : view'[d].pending = t
    BY DEF Found
  <2>1. CASE t = s
    BY <1>2, <1>7, <1>9, <1>10, <1>11, <2>1
  <2>2. CASE t # s
    <3>1. req'[t] = req[t]
      BY <1>11, <2>2
    <3>2. ASSUME req[t].status = "queued"
          PROVE  \E d \in Connections : \E i \in 1..Len(view'[d].queue) : view'[d].queue[i] = t
      <4>1. PICK d \in Connections : \E i \in 1..Len(view[d].queue) : view[d].queue[i] = t
        BY <1>0, <3>2 DEF Found
      <4>2. PICK i \in 1..Len(view[d].queue) : view[d].queue[i] = t
        BY <4>1
      <4>3. CASE d = c
        <5>1. PICK j \in 1..Len(Popped(c).queue) : Popped(c).queue[j] = t
          BY <1>3, <1>5, <2>2, <4>2, <4>3
        <5>2. view'[c].queue = Popped(c).queue
          BY <1>7, <1>9
        <5>3. QED
          BY <1>2, <5>1, <5>2
      <4>4. CASE d # c
        BY <1>9, <4>2, <4>4
      <4>5. QED
        BY <4>3, <4>4
    <3>3. ASSUME req[t].status = "issued" PROVE FALSE
      <4>1. PICK d \in Connections : view[d].pending = t
        BY <1>0, <3>3 DEF Found
      <4>2. d # c
        BY <1>2, <4>1 DEF Stamps
      <4>3. t # 0
        BY DEF Stamps
      <4>4. QED
        BY <1>13, <4>1, <4>2, <4>3 DEF Busy
    <3>4. QED
      BY <3>1, <3>2, <3>3
  <2>3. QED
    BY <2>1, <2>2
<1>19. Replying'
  <2> SUFFICES ASSUME NEW t \in Stamps
               PROVE  /\ req'[t].status \in {"none", "queued", "issued"} => req'[t].replies = 0
                      /\ req'[t].status # "none" => req'[t].conn \in 1..connections
                      /\ req'[t].status \in {"confirmed", "failed", "refused"} =>
                           req'[t].replies = 1 \/ (req'[t].replies = 0 /\ req'[t].conn \notin attached)
    BY <1>12 DEF Replying, Waits
  <2>1. CASE t = s
    <3>1. c \in 1..connections
      BY <1>0 DEF PlaceOK
    <3>2. QED
      BY <1>10, <1>11, <2>1, <3>1
  <2>2. CASE t # s
    BY <1>0, <1>11, <2>2 DEF Replying, Waits
  <2>3. QED
    BY <2>1, <2>2
<1>20. Numbered'
  <2>1. \A t \in Stamps : req'[t].status # "none" <=> req[t].status # "none"
    BY <1>2, <1>5, <1>10, <1>11
  <2>2. QED
    BY <1>0, <2>1 DEF Numbered
<1>21. Adapting'
  <2>1. \A d \in Connections : view'[d].pending = IF d = c THEN s ELSE 0
    BY <1>7, <1>9, <1>13 DEF Busy
  <2>2. \/ ctx'.op = s /\ clip'.op = 0
        \/ ctx'.op = 0 /\ clip'.op = s
    BY <1>1, <1>5
  <2>3. QED
    BY <1>2, <1>6, <2>1, <2>2 DEF Adapting
<1>22. Draining'
  BY <1>8 DEF Draining
<1>23. QED
  BY <1>9, <1>11, <1>15, <1>16, <1>17, <1>18, <1>19, <1>20, <1>21, <1>22 DEF Books

\* Whatever the step, the books stay in order.
LEMMA BooksKept ==
  ASSUME Core, Moves
  PROVE  Books'
<1>1. CASE Rests \/ Paints \/ ComesFirst
  BY <1>1, Calming, CalmKeeps
<1>2. CASE TakesOver \/ Leaves \/ Clears
  <2>1. PICK C \in SUBSET attached, replied \in BOOLEAN : Gone(C, replied)
    BY <1>2, Clearing
  <2>2. QED
    BY <2>1, GoneKeeps
<1>3. QED
  BY <1>1, <1>2, CloseKeeps, QueueKeeps, ConfirmKeeps, ReplyKeeps, SuspendKeeps DEF Moves

----------------------------------------------------------------------------
(* Types of what the helper and the compositor hold *)

Ranges == /\ PlaceOK /\ ViewOK /\ NativeOK /\ TextOK /\ Staged /\ ClipOK /\ SlotsOK /\ ReqOK
          /\ CompOK /\ LinesOK /\ RecordsOK /\ AppOK /\ Sole /\ Adapting /\ Draining

\* A sequence of one
LEMMA OneIn ==
  ASSUME NEW S, NEW x \in S
  PROVE  <<x>> \in Seq(S)
  OBVIOUS

\* The parts of a line to the compositor have their types.
LEMMA LineOK ==
  ASSUME NEW to \in Told, NEW e \in 0..MaxConnections, NEW gen \in 0..MaxScenes, NEW n \in Nat, NEW s \in Opt
  PROVE  Line(to, e, gen, n, s) \in Lines /\ <<Line(to, e, gen, n, s)>> \in Seq(Lines)
<1>1. Line(to, e, gen, n, s) \in Lines
  BY DEF Line, Lines
<1>2. QED
  BY <1>1, OneIn

\* A command of the helper is a line of the channel,
LEMMA CommandOK ==
  ASSUME NativeOK, NEW to \in Told, NEW n \in Nat
  PROVE  <<Command(to, n)>> \in Seq(Lines)
<1>1. native.epoch \in 0..MaxConnections /\ 0 \in 0..MaxScenes /\ 0 \in Opt
  BY Bounds DEF NativeOK, Opt
<1>2. QED
  BY <1>1, LineOK DEF Command

\* and so is an input for the current target,
LEMMA InputOK ==
  ASSUME NativeOK, NEW to \in Told, NEW n \in Nat, NEW s \in Opt
  PROVE  Input(to, native.target, n, s) \in Lines /\ <<Input(to, native.target, n, s)>> \in Seq(Lines)
<1>1. native.epoch \in 0..MaxConnections /\ native.target \in 0..MaxScenes
  BY DEF NativeOK
<1>2. QED
  BY <1>1, LineOK DEF Input

\* and the lines that are sent follow those that are on their way.
LEMMA SentOK ==
  ASSUME LinesOK, NEW lines \in Seq(Lines)
  PROVE  Sent(lines) \in Seq(Lines)
  BY ConcatProperties DEF LinesOK, Sent

\* The release of what is held is sent by itself or after a cancellation.
LEMMA ReleaseOK ==
  ASSUME NativeOK, TextOK, NEW C
  PROVE  Release \in Seq(Lines) /\ Cancelling(C) \in Seq(Lines) /\ <<>> \in Seq(Lines)
<1>1. Release \in Seq(Lines)
  BY CommandOK DEF Release, Told
<1>2. <<>> \in Seq(Lines)
  BY EmptySeq
<1>3. ctx.request \in Nat
  BY DEF TextOK, Texts
<1>4. Cancelling(C) \in Seq(Lines)
  <2>1. <<Command("cancel", ctx.request)>> \in Seq(Lines)
    BY <1>3, CommandOK DEF Told
  <2>2. Cancelling(C) = <<Command("cancel", ctx.request)>> \/ Cancelling(C) = <<>>
    BY Zenon DEF Cancelling
  <2>3. QED
    BY <1>2, <2>1, <2>2, Zenon
<1>5. QED
  BY <1>1, <1>2, <1>4

\* What revoking input sends
LEMMA RevokeOK ==
  ASSUME LinesOK, NativeOK, TextOK, NEW C, NEW lines \in Seq(Lines)
  PROVE  Sent(Cancelling(C) \o lines) \in Seq(Lines)
<1>1. PICK more \in Seq(Lines) : more = Cancelling(C)
  BY ReleaseOK
<1>2. more \o lines \in Seq(Lines)
  BY ConcatProperties
<1>3. QED
  BY <1>1, <1>2, SentOK

\* A viewer whose operation fails, and
LEMMA ErrorOK ==
  ASSUME LinesOK, NativeOK, TextOK, NEW c, Error(c) \/ Abort(c)
  PROVE  LinesOK'
<1>1. Error(c)
  BY DEF Abort
<1>2. toComp' = Sent(Cancelling({c}) \o Release)
  BY <1>1 DEF Error, Revoke
<1>3. QED
  BY <1>2, RevokeOK, ReleaseOK DEF LinesOK

\* a viewer that goes, send lines.
LEMMA LeaveOK ==
  ASSUME LinesOK, NativeOK, TextOK, NEW c, Leave(c)
  PROVE  LinesOK'
<1>1. PICK lines \in {<<Command("detach", 0)>>, <<>>} : toComp' = Sent(Cancelling({c}) \o lines)
  BY DEF Leave, Revoke
<1>2. lines \in Seq(Lines)
  <2>1. <<Command("detach", 0)>> \in Seq(Lines)
    BY CommandOK DEF Told
  <2>2. <<>> \in Seq(Lines)
    BY EmptySeq
  <2>3. QED
    BY <2>1, <2>2, Zenon
<1>3. QED
  BY <1>1, <1>2, RevokeOK DEF LinesOK

\* What a viewer causes to be sent
LEMMA ViewerLines ==
  ASSUME Ranges, NEW c \in Connections, ViewerStep(c)
  PROVE  LinesOK'
<1>0. LinesOK /\ NativeOK /\ TextOK
  BY DEF Ranges
<1>1. CASE Disconnect(c)
  BY <1>0, <1>1, LeaveOK DEF Disconnect
<1>2. CASE Paint(c)
  BY <1>0, <1>2 DEF Paint, LinesOK
<1>3. CASE Asking(c)
  <2>1. PICK k \in Kinds : Enqueue(c, k) \/ Overflow(c, k)
    BY <1>3 DEF Asking
  <2>2. CASE Enqueue(c, k)
    BY <1>0, <2>2 DEF Enqueue, LinesOK
  <2>3. CASE Overflow(c, k)
    BY <1>0, <2>3, LeaveOK DEF Overflow
  <2>4. QED
    BY <2>1, <2>2, <2>3
<1>4. CASE CloseAtOnce(c)
  <2>1. toComp' = toComp \/ toComp' = Sent(<<Command("close", 0)>>)
    BY <1>4 DEF CloseAtOnce
  <2>2. <<Command("close", 0)>> \in Seq(Lines)
    BY <1>0, CommandOK DEF Told
  <2>3. Sent(<<Command("close", 0)>>) \in Seq(Lines)
    BY <1>0, <2>2, SentOK, Zenon
  <2>4. QED
    BY <1>0, <2>1, <2>3 DEF LinesOK
<1>5. CASE ReleaseInput(c) \/ CaptureFailed(c)
  <2>1. toComp' = Sent(Cancelling({c}) \o Release)
    BY <1>5 DEF ReleaseInput, CaptureFailed, Revoke
  <2>2. QED
    BY <1>0, <2>1, RevokeOK, ReleaseOK DEF LinesOK
<1>6. CASE SelectWindow(c)
  <2>1. PICK known \in BOOLEAN : toComp' = Sent(Cancelling({c}) \o (Release \o Selecting(known)))
    BY <1>6 DEF SelectWindow, Revoke
  <2>2. Selecting(known) \in Seq(Lines)
    <3>1. <<Command("select", 0)>> \in Seq(Lines)
      BY <1>0, CommandOK DEF Told
    <3>2. Selecting(known) = <<Command("select", 0)>> \/ Selecting(known) = <<>>
      BY Zenon DEF Selecting
    <3>3. <<>> \in Seq(Lines)
      BY EmptySeq
    <3>4. QED
      BY <3>1, <3>2, <3>3, Zenon
  <2>3. Release \o Selecting(known) \in Seq(Lines)
    BY <1>0, <2>2, ReleaseOK, ConcatProperties
  <2>4. QED
    BY <1>0, <2>1, <2>3, RevokeOK DEF LinesOK
<1>7. CASE Terminate(c)
  <2>1. toComp' = Sent(Cancelling({c}) \o Release)
    BY <1>7 DEF Terminate, Fall
  <2>2. QED
    BY <1>0, <2>1, RevokeOK, ReleaseOK DEF LinesOK
<1>8. QED
  BY <1>1, <1>2, <1>3, <1>4, <1>5, <1>6, <1>7 DEF ViewerStep

\* Of a set of free codes the one that is farther round than none is free.
LEMMA FirstFreeIn ==
  ASSUME FreeCodes # {}, ctx.next \in Nat
  PROVE  FirstFree \in FreeCodes /\ FirstFree \in Codes
<1> DEFINE far(k) == (k - ctx.next + SlotCount) % SlotCount
           T == {far(k) : k \in FreeCodes}
<1>1. FreeCodes \subseteq Codes
  BY DEF FreeCodes
<1>2. \A k \in FreeCodes : far(k) \in Nat
  <2> SUFFICES ASSUME NEW k \in FreeCodes PROVE far(k) \in Nat
    OBVIOUS
  <2>1. k - ctx.next + SlotCount \in Int
    BY <1>1, Bounds DEF Codes
  <2>2. QED
    BY <2>1, Bounds
<1> HIDE DEF far
<1>3. T \subseteq Nat /\ T # {}
  BY <1>2
<1>4. \E x \in T : \A y \in T : x <= y
  <2> HIDE DEF T
  <2>1. QED
    BY <1>3, Least
<1>5. \E k \in FreeCodes : \A l \in FreeCodes : far(k) <= far(l)
  BY <1>4
<1>6. FirstFree = CHOOSE k \in FreeCodes : \A l \in FreeCodes : far(k) <= far(l)
  BY DEF FirstFree, far
<1>7. QED
  BY <1>1, <1>5, <1>6

\* What an adapter works for is a request.
LEMMA OpTypes ==
  ASSUME Ranges
  PROVE  /\ ctx.op \in Opt /\ ctx.request \in Nat /\ ctx.requests \in Nat /\ ctx.seq \in Nat /\ ctx.next \in Nat
         /\ ctx.code \in Codes /\ clip.op \in Opt /\ clip.seq \in Nat /\ native.target \in 0..MaxScenes
         /\ ctx \in Texts
  BY DEF Ranges, TextOK, Texts, ClipOK, NativeOK

\* What a turn of the queue finds.
LEMMA TurnTypes ==
  ASSUME Ranges, NEW c \in Connections, Turn(c)
  PROVE  Op(c) \in Stamps /\ Op(c) \in Opt /\ view[c].queue # <<>> /\ view[c].pending = 0 /\ c \in attached
<1>1. view[c].queue # <<>> /\ view[c].pending = 0
  BY DEF Ranges, Draining, Turn
<1>2. view[c].queue \in Seq(Stamps)
  BY ViewFields DEF Ranges
<1>3. Op(c) \in Stamps
  BY <1>1, <1>2, HeadTailProperties, EmptySeq, LenProperties DEF Op
<1>4. c \in attached
  BY DEF Ranges, PlaceOK, Turn
<1>5. QED
  BY <1>1, <1>3, <1>4 DEF Opt

\* What draining a queue sends, and the deadline of a delivery
LEMMA DrainLines ==
  ASSUME Ranges, NEW c \in Connections, Drain(c) \/ Expire(c)
  PROVE  LinesOK'
<1>0. LinesOK /\ NativeOK /\ TextOK
  BY DEF Ranges
<1>a. Abort(c) => LinesOK'
  BY <1>0, ErrorOK
<1>b. 0 \in Opt /\ Codes \subseteq Nat
  BY Bounds DEF Opt, Codes
<1>1. CASE Expire(c)
  BY <1>1, <1>a DEF Expire
<1>2. CASE DrainClose(c)
  <2>1. Abort(c) \/ toComp' = Sent(<<Command("close", 0)>>)
    BY <1>2 DEF DrainClose
  <2>2. <<Command("close", 0)>> \in Seq(Lines)
    BY <1>0, CommandOK DEF Told
  <2>3. Sent(<<Command("close", 0)>>) \in Seq(Lines)
    BY <1>0, <2>2, SentOK, Zenon
  <2>4. QED
    BY <1>a, <2>1, <2>3 DEF LinesOK
<1>3. CASE DrainKey(c)
  <2>1. CASE Admitted(c)
    <3>1. PICK to \in Told : to = KindOf(c)
      BY <1>3, <2>1 DEF DrainKey, Told
    <3>2. PICK s \in Opt : s = Op(c)
      BY <1>3, TurnTypes DEF DrainKey
    <3>3. toComp' = Sent(<<Input(to, native.target, 0, s)>>)
      BY <1>3, <2>1, <3>1, <3>2 DEF DrainKey, Deliver
    <3>4. <<Input(to, native.target, 0, s)>> \in Seq(Lines)
      BY <1>0, InputOK
    <3>5. QED
      BY <1>0, <3>3, <3>4, SentOK DEF LinesOK
  <2>2. CASE ~Admitted(c)
    BY <1>0, <1>3, <2>2 DEF DrainKey, LinesOK
  <2>3. QED
    BY <2>1, <2>2
<1>4. CASE DrainMarker(c)
  <2>1. PICK k \in Nat : k = FirstFree
    BY <1>4, <1>b, FirstFreeIn, OpTypes DEF DrainMarker
  <2>2. PICK s \in Opt : s = Op(c)
    BY <1>4, TurnTypes DEF DrainMarker
  <2>3. toComp' = Sent(<<Input("press", native.target, k, s), Input("lift", native.target, k, 0)>>)
    BY <1>4, <2>1, <2>2 DEF DrainMarker
  <2>4. Input("press", native.target, k, s) \in Lines /\ Input("lift", native.target, k, 0) \in Lines
    BY <1>0, <1>b, InputOK DEF Told
  <2>5. <<Input("press", native.target, k, s), Input("lift", native.target, k, 0)>> \in Seq(Lines)
    BY <2>4
  <2>6. QED
    BY <1>0, <2>3, <2>5, SentOK DEF LinesOK
<1>5. CASE DrainWayland(c)
  <2>1. PICK n \in Nat : n = ctx.requests + 1
    BY OpTypes
  <2>2. toComp' = Sent(<<Input("barrier", native.target, n, 0)>>)
    <3>1. ctx'.request = n
      BY <1>5, <2>1, OpTypes DEF DrainWayland, TextOperation, Texts
    <3>2. QED
      BY <1>5, <3>1 DEF DrainWayland
  <2>3. <<Input("barrier", native.target, n, 0)>> \in Seq(Lines)
    BY <1>0, <1>b, InputOK DEF Told
  <2>4. QED
    BY <1>0, <2>2, <2>3, SentOK DEF LinesOK
<1>6. CASE DrainNoContext(c)
  BY <1>6, <1>a DEF DrainNoContext
<1>7. CASE DrainClip(c)
  <2>1. CASE Abort(c)
    BY <1>a, <2>1
  <2>2. CASE ~Abort(c)
    <3>1. PICK n \in Nat : n = clip.seq + 1
      BY OpTypes
    <3>2. toComp' = Sent(<<Input("clip", native.target, n, 0)>>)
      <4>1. clip'.seq = n
        BY <1>7, <2>2, <3>1 DEF DrainClip
      <4>2. QED
        BY <1>7, <2>2, <4>1 DEF DrainClip
    <3>3. <<Input("clip", native.target, n, 0)>> \in Seq(Lines)
      BY <1>0, <1>b, InputOK DEF Told
    <3>4. QED
      BY <1>0, <3>2, <3>3, SentOK DEF LinesOK
  <2>3. QED
    BY <2>1, <2>2
<1>8. QED
  BY <1>1, <1>2, <1>3, <1>4, <1>5, <1>6, <1>7 DEF Drain

\* What the records of the compositor make the helper send
LEMMA RecordLines ==
  ASSUME Ranges, RecordStep
  PROVE  LinesOK'
<1>0. LinesOK /\ NativeOK /\ TextOK /\ 0 \in Opt
  BY DEF Ranges, Opt
<1>1. CASE ReadScene
  <2>1. PICK lines \in {<<>>, Release} : toComp' = Sent(Cancelling(attached) \o lines)
    BY <1>1 DEF ReadScene, Changed, Revoke
  <2>2. lines \in Seq(Lines)
    BY <1>0, ReleaseOK
  <2>3. QED
    BY <1>0, <2>1, <2>2, RevokeOK DEF LinesOK
<1>2. CASE ReadTextReply
  <2>1. \/ Abort(Holder(ctx.op))
        \/ \E stage \in {"text", "after"} :
             /\ ctx' = TextOperation(stage)
             /\ toComp' = Sent(<<Input(IF stage = "text" THEN "text" ELSE "barrier",
                                       native.target, ctx'.request, ctx.op)>>)
        \/ UNCHANGED toComp
    BY <1>2 DEF ReadTextReply
  <2>2. CASE Abort(Holder(ctx.op))
    BY <1>0, <2>2, ErrorOK
  <2>3. ASSUME NEW stage \in {"text", "after"}, ctx' = TextOperation(stage),
               toComp' = Sent(<<Input(IF stage = "text" THEN "text" ELSE "barrier",
                                      native.target, ctx'.request, ctx.op)>>)
        PROVE  LinesOK'
    <3>1. PICK n \in Nat : n = ctx.requests + 1
      BY OpTypes
    <3>2. ctx'.request = n
      BY <2>3, <3>1, OpTypes DEF TextOperation, Texts
    <3>3. PICK to \in Told : to = IF stage = "text" THEN "text" ELSE "barrier"
      BY DEF Told
    <3>4. PICK s \in Opt : s = ctx.op
      BY OpTypes
    <3>5. <<Input(to, native.target, n, s)>> \in Seq(Lines)
      BY <1>0, InputOK
    <3>6. toComp' = Sent(<<Input(to, native.target, n, s)>>)
      BY <2>3, <3>2, <3>3, <3>4
    <3>7. QED
      BY <1>0, <3>5, <3>6, SentOK DEF LinesOK
  <2>4. QED
    BY <1>0, <2>1, <2>2, <2>3 DEF LinesOK
<1>3. CASE ReadClip
  <2>1. UNCHANGED toComp \/ Abort(Holder(clip.op))
    BY <1>3 DEF ReadClip
  <2>2. QED
    BY <1>0, <2>1, ErrorOK DEF LinesOK
<1>4. CASE ReadLate
  BY <1>0, <1>4 DEF ReadLate, LinesOK
<1>5. CASE ReadLost
  <2>1. toComp' = Sent(<<>>)
    BY <1>5 DEF ReadLost, Fall
  <2>2. <<>> \in Seq(Lines)
    BY EmptySeq
  <2>3. QED
    BY <1>0, <2>1, <2>2, SentOK DEF LinesOK
<1>6. QED
  BY <1>1, <1>2, <1>3, <1>4, <1>5 DEF RecordStep

\* What the calls of the application make the helper send
LEMMA BusLines ==
  ASSUME Ranges, BusStep
  PROVE  LinesOK'
<1>0. LinesOK /\ NativeOK /\ TextOK
  BY DEF Ranges
<1>1. UNCHANGED toComp \/ Error(Holder(ctx.op)) \/ Abort(Holder(ctx.op))
  BY DEF BusStep, Take, Released, Done, FailedCall, Unregister, Complete
<1>2. QED
  BY <1>0, <1>1, ErrorOK DEF LinesOK

\* Every step leaves lines in the channel to the compositor.
LEMMA LinesKept ==
  ASSUME Ranges, [Next]_vars
  PROVE  LinesOK'
<1>0. LinesOK /\ NativeOK /\ TextOK /\ PlaceOK
  BY DEF Ranges
<1>1. CASE Connect
  <2>1. CASE attached = {}
    <3>1. PICK e \in 0..MaxConnections : e = connections + 1
      BY <1>0, <1>1, Bounds DEF Connect, Admits, PlaceOK
    <3>2. toComp' = Sent(<<Line("connection", e, 0, 0, 0)>>)
      BY <1>1, <2>1, <3>1 DEF Connect
    <3>3. <<Line("connection", e, 0, 0, 0)>> \in Seq(Lines)
      <4>1. 0 \in 0..MaxScenes /\ 0 \in Opt /\ "connection" \in Told
        BY Bounds DEF Opt, Told
      <4>2. QED
        BY <4>1, LineOK
    <3>4. QED
      BY <1>0, <3>2, <3>3, SentOK DEF LinesOK
  <2>2. CASE attached # {}
    <3>1. toComp' = Sent(Cancelling({controller} \cap attached) \o Release)
      BY <1>1, <2>2 DEF Connect, Takeover, Revoke
    <3>2. QED
      BY <1>0, <3>1, RevokeOK, ReleaseOK DEF LinesOK
  <2>3. QED
    BY <2>1, <2>2
<1>2. CASE CompStep
  <2>1. toComp' = toComp \/ (toComp # <<>> /\ toComp' = Tail(toComp)) \/ toComp' = <<>>
    BY <1>2 DEF CompStep, CompConnection, CompDetach, CompRelease, CompCancel, CompClose, CompReject,
                CompKey, CompMarker, CompClip, CompBarrier, CompText, SceneChange, CompSelect, PingTimeout,
                CompLost, Accepts, Gets
  <2>2. QED
    BY <1>0, <2>1, HeadTailProperties, EmptySeq DEF LinesOK
<1>3. CASE AppStep
  BY <1>0, <1>3 DEF AppStep, AppKey, AppText, AppPing, AppPress, AppLift, AppInsert, AppRefuse, AppGiveUp,
                    AppDone, AppGone, apped, LinesOK
<1>4. CASE UNCHANGED vars
  BY <1>0, <1>4 DEF vars, LinesOK
<1>5. QED
  BY <1>1, <1>2, <1>3, <1>4, RecordLines, BusLines, ViewerLines, DrainLines DEF Next

\* A record has its type, alone and behind others.
LEMMA RecordOK ==
  ASSUME NEW rec \in {"scene", "barrier", "text", "clip", "lost"}, NEW n \in Nat, NEW ok \in BOOLEAN,
         rec = "scene" => n <= MaxScenes
  PROVE  Record(rec, n, ok) \in Records /\ <<Record(rec, n, ok)>> \in Seq(Records)
<1>1. Record(rec, n, ok) \in Records
  BY DEF Record, Records
<1>2. QED
  BY <1>1, OneIn

\* A connection that was lost says nothing more.
LEMMA HeardOK ==
  ASSUME RecordsOK, NEW records \in Seq(Records)
  PROVE  Heard(records) \in Seq(Records)
  BY ConcatProperties DEF RecordsOK, Heard

\* The record of a barrier that is cancelled
LEMMA BarrierOK ==
  ASSUME CompOK
  PROVE  BarrierCancelled \in Seq(Records) /\ <<>> \in Seq(Records)
<1>1. <<>> \in Seq(Records)
  BY EmptySeq
<1>2. PICK n \in Nat : n = comp.barrier
  BY DEF CompOK, Comps
<1>3. <<Record("barrier", n, FALSE)>> \in Seq(Records)
  BY RecordOK
<1>4. BarrierCancelled = <<Record("barrier", n, FALSE)>> \/ BarrierCancelled = <<>>
  BY <1>2, Zenon DEF BarrierCancelled
<1>5. QED
  BY <1>1, <1>3, <1>4, Zenon

\* The record that the end of the connection and a change of scene add
LEMMA BarrierThenOK ==
  ASSUME CompOK, NEW r \in Records
  PROVE  BarrierCancelled \o <<r>> \in Seq(Records)
<1>1. PICK a \in Seq(Records) : a = BarrierCancelled
  BY BarrierOK
<1>2. <<r>> \in Seq(Records)
  BY OneIn
<1>3. a \o <<r>> \in Seq(Records)
  BY <1>2, ConcatProperties
<1>4. QED
  BY <1>1, <1>3

\* What the compositor holds after it has let go of all input
LEMMA EmptyOK ==
  ASSUME CompOK
  PROVE  /\ Empty(comp) \in Comps /\ Empty(comp).scene = comp.scene /\ Empty(comp).lost = comp.lost
         /\ Empty(comp).live = comp.live /\ Empty(comp).pinged = comp.pinged
         /\ Empty(comp).held = 0 /\ Empty(comp).connection = comp.connection
         /\ Empty(comp).mark = -1 /\ Empty(comp).barrier = 0
<1>1. comp \in Comps /\ 0 \in Opt /\ -1 \in Int /\ 0 \in Nat
  BY DEF CompOK, Opt
<1>2. Empty(comp) = [comp EXCEPT !.held = 0, !.mark = -1, !.barrier = 0]
  BY DEF Empty
<1>3. Empty(comp) \in Comps
  BY <1>1, <1>2 DEF Comps
<1>4. QED
  BY <1>1, <1>2, <1>3 DEF Comps

\* What the compositor reads next
LEMMA HeadLine ==
  ASSUME LinesOK, toComp # <<>>
  PROVE  toComp[1] \in Lines /\ toComp[1].n \in Nat /\ toComp[1].s \in Opt /\ toComp[1].e \in 0..MaxConnections
<1>1. toComp[1] \in Lines
  BY HeadTailProperties, LenProperties, EmptySeq DEF LinesOK
<1>2. QED
  BY <1>1 DEF Lines

\* A new scene stays within the bound and is announced.
LEMMA NewSceneOK ==
  ASSUME CompOK, RecordsOK, NEW live \in BOOLEAN, NewScene(live)
  PROVE  CompOK' /\ RecordsOK'
<1>1. PICK n \in Nat : n = comp.scene + 1 /\ n <= MaxScenes /\ n \in 1..MaxScenes
  BY Bounds DEF NewScene, CompOK, Comps
<1>2. Record("scene", n, live) \in Records
  BY <1>1, RecordOK
<1>3. BarrierCancelled \o <<Record("scene", n, live)>> \in Seq(Records)
  BY <1>2, BarrierThenOK
<1>4. /\ comp' = [Empty(comp) EXCEPT !.scene = Empty(comp).scene + 1, !.live = live]
      /\ toHelper' = Heard(BarrierCancelled \o <<Record("scene", n, live)>>)
  BY <1>1 DEF NewScene, Emits
<1>5. CompOK'
  <2>1. Empty(comp) \in Comps /\ Empty(comp).scene + 1 = n
    BY <1>1, EmptyOK
  <2>2. comp' = [Empty(comp) EXCEPT !.scene = n, !.live = live]
    BY <1>4, <2>1
  <2>3. QED
    BY <1>1, <2>1, <2>2 DEF CompOK, Comps
<1>6. QED
  BY <1>3, <1>4, <1>5, HeardOK DEF RecordsOK

\* A step of the compositor that sends one record, or none
LEMMA EmitsOK ==
  ASSUME RecordsOK, NEW k \in Comps, NEW events, NEW records \in Seq(Records), Emits(k, events, records)
  PROVE  CompOK' /\ RecordsOK'
  BY HeardOK DEF Emits, CompOK, RecordsOK

\* Every step of the compositor keeps it and its records.
LEMMA CompKept ==
  ASSUME Ranges, CompStep
  PROVE  CompOK' /\ RecordsOK'
<1>0. CompOK /\ RecordsOK /\ LinesOK /\ comp \in Comps
  BY DEF Ranges, CompOK
<1>n. <<>> \in Seq(Records) /\ BarrierCancelled \in Seq(Records)
  BY <1>0, BarrierOK
<1>1. CASE CompConnection
  <2>1. toComp[1].e \in 0..MaxConnections
    BY <1>0, <1>1, HeadLine DEF CompConnection, Gets
  <2>2. [Empty(comp) EXCEPT !.connection = toComp[1].e] \in Comps
    BY <1>0, <2>1, EmptyOK DEF Comps
  <2>3. Emits([Empty(comp) EXCEPT !.connection = toComp[1].e], Lifts, BarrierCancelled)
    BY <1>1 DEF CompConnection
  <2>4. QED
    BY <1>0, <1>n, <2>2, <2>3, EmitsOK
<1>2. CASE CompDetach
  <2>1. [Empty(comp) EXCEPT !.connection = 0] \in Comps
    BY <1>0, EmptyOK, Bounds DEF Comps
  <2>2. Emits([Empty(comp) EXCEPT !.connection = 0], Lifts, BarrierCancelled)
    BY <1>2 DEF CompDetach
  <2>3. QED
    BY <1>0, <1>n, <2>1, <2>2, EmitsOK
<1>3. CASE CompRelease
  <2>1. Emits(Empty(comp), Lifts, BarrierCancelled)
    BY <1>3 DEF CompRelease
  <2>2. QED
    BY <1>0, <1>n, <2>1, EmptyOK, EmitsOK
<1>4. CASE CompCancel
  <2>1. PICK k \in Comps : Emits(k, <<>>, <<>>)
    <3>1. [comp EXCEPT !.barrier = 0] \in Comps
      BY <1>0 DEF Comps
    <3>2. QED
      BY <1>0, <1>4, <3>1 DEF CompCancel
  <2>2. QED
    BY <1>0, <1>n, <2>1, EmitsOK
<1>5. CASE CompClose \/ CompReject
  <2>1. Emits(comp, <<>>, <<>>)
    BY <1>5 DEF CompClose, CompReject
  <2>2. QED
    BY <1>0, <1>n, <2>1, EmitsOK
<1>6. CASE CompKey
  <2>1. toComp[1].s \in Opt /\ 0 \in Opt
    BY <1>0, <1>6, HeadLine DEF CompKey, Accepts, Gets, Opt
  <2>2. PICK h \in Opt : h = IF toComp[1].to = "down" THEN toComp[1].s ELSE 0
    BY <2>1
  <2>3. [comp EXCEPT !.held = h] \in Comps
    BY <1>0 DEF Comps
  <2>4. Emits([comp EXCEPT !.held = h], <<Event(toComp[1].to, 0, toComp[1].s)>>, <<>>)
    BY <1>6, <2>2 DEF CompKey
  <2>5. QED
    BY <1>0, <1>n, <2>3, <2>4, EmitsOK
<1>7. CASE CompMarker
  <2>1. toComp[1].n \in Nat
    BY <1>0, <1>7, HeadLine DEF CompMarker, Accepts, Gets
  <2>2. PICK m \in Int : m = IF toComp[1].to = "press" THEN toComp[1].n ELSE -1
    BY <2>1
  <2>3. [comp EXCEPT !.mark = m] \in Comps
    BY <1>0 DEF Comps
  <2>4. Emits([comp EXCEPT !.mark = m], <<Event(toComp[1].to, toComp[1].n, toComp[1].s)>>, <<>>)
    BY <1>7, <2>2 DEF CompMarker
  <2>5. QED
    BY <1>0, <1>n, <2>3, <2>4, EmitsOK
<1>8. CASE CompClip
  <2>1. PICK n \in Nat : n = toComp[1].n
    BY <1>0, <1>8, HeadLine DEF CompClip, Accepts, Gets
  <2>2. PICK ok \in BOOLEAN : Emits(comp, <<>>, <<Record("clip", n, ok)>>)
    BY <1>8, <2>1 DEF CompClip
  <2>3. <<Record("clip", n, ok)>> \in Seq(Records)
    BY RecordOK
  <2>4. QED
    BY <1>0, <2>2, <2>3, EmitsOK
<1>9. CASE CompBarrier
  <2>1. PICK n \in Nat : n = toComp[1].n
    BY <1>0, <1>9, HeadLine DEF CompBarrier, Accepts, Gets
  <2>2. [comp EXCEPT !.barrier = n, !.pinged = TRUE] \in Comps
    BY <1>0 DEF Comps
  <2>3. <<Record("barrier", n, FALSE)>> \in Seq(Records)
    BY RecordOK
  <2>4. \/ Emits([comp EXCEPT !.barrier = n, !.pinged = TRUE], <<Event("ping", n, 0)>>, <<>>)
        \/ Emits(comp, <<>>, <<Record("barrier", n, FALSE)>>)
    BY <1>9, <2>1 DEF CompBarrier
  <2>5. QED
    BY <1>0, <1>n, <2>2, <2>3, <2>4, EmitsOK
<1>10. CASE CompText
  <2>1. PICK n \in Nat : n = toComp[1].n
    BY <1>0, <1>10, HeadLine DEF CompText, Accepts, Gets
  <2>2. PICK ok \in BOOLEAN : Emits(comp, IF ok THEN <<Event("text", 0, toComp[1].s)>> ELSE <<>>,
                                    <<Record("text", n, ok)>>)
    BY <1>10, <2>1 DEF CompText
  <2>3. <<Record("text", n, ok)>> \in Seq(Records)
    BY RecordOK
  <2>4. QED
    BY <1>0, <2>2, <2>3, EmitsOK
<1>11. CASE SceneChange
  BY <1>0, <1>11, NewSceneOK DEF SceneChange
<1>12. CASE CompSelect
  BY <1>0, <1>12, NewSceneOK DEF CompSelect
<1>13. CASE PingTimeout
  <2>1. PICK n \in Nat : n = comp.barrier
    BY <1>0 DEF Comps
  <2>2. [comp EXCEPT !.barrier = 0] \in Comps
    BY <1>0 DEF Comps
  <2>3. Emits([comp EXCEPT !.barrier = 0], <<>>, <<Record("barrier", n, FALSE)>>)
    BY <1>13, <2>1 DEF PingTimeout
  <2>4. <<Record("barrier", n, FALSE)>> \in Seq(Records)
    BY RecordOK
  <2>5. QED
    BY <1>0, <2>2, <2>3, <2>4, EmitsOK
<1>14. CASE CompLost
  <2>0. Empty(comp) \in Comps /\ 0 \in 0..MaxConnections
    BY <1>0, EmptyOK, Bounds
  <2>1. [Empty(comp) EXCEPT !.connection = 0, !.lost = TRUE] \in Comps
    BY <2>0 DEF Comps
  <2>2. Emits([Empty(comp) EXCEPT !.connection = 0, !.lost = TRUE], Lifts,
              BarrierCancelled \o <<Record("lost", 0, TRUE)>>)
    BY <1>14 DEF CompLost
  <2>3. Record("lost", 0, TRUE) \in Records
    BY RecordOK
  <2>4. BarrierCancelled \o <<Record("lost", 0, TRUE)>> \in Seq(Records)
    BY <1>0, <2>3, BarrierThenOK
  <2>5. QED
    BY <1>0, <2>1, <2>2, <2>4, EmitsOK
<1>15. QED
  BY <1>1, <1>2, <1>3, <1>4, <1>5, <1>6, <1>7, <1>8, <1>9, <1>10, <1>11, <1>12, <1>13, <1>14 DEF CompStep

----------------------------------------------------------------------------
(* The adapters keep their types *)

\* A text transaction that ends, or goes on, is one.
LEMMA TextsOK ==
  ASSUME Ranges
  PROVE  /\ TextEnded \in Texts /\ TextEnded.stage = "none"
         /\ \A C : TextCancelled(C) \in Texts /\ (TextCancelled(C).stage # "none" => TextCancelled(C).op # 0)
         /\ \A stage \in {"before", "text", "after"} :
              /\ TextOperation(stage) \in Texts /\ TextOperation(stage).op = ctx.op
              /\ TextOperation(stage).seq = ctx.seq
         /\ \A b \in BOOLEAN :
              /\ [ctx EXCEPT !.taken = b] \in Texts /\ [ctx EXCEPT !.done = b] \in Texts
              /\ [ctx EXCEPT !.taken = b].op = ctx.op /\ [ctx EXCEPT !.done = b].op = ctx.op
<1>1. /\ ctx \in Texts /\ ctx.requests \in Nat /\ ctx.seq \in Nat /\ ctx.next \in Nat
      /\ ctx.stage # "none" => ctx.op # 0
  BY OpTypes DEF Ranges, Staged
<1>2. 0 \in Codes /\ 0 \in Opt
  BY Bounds DEF Codes, Opt
<1>3. NoText \in Texts
  BY <1>2 DEF NoText, Texts
<1>4. TextEnded \in Texts /\ TextEnded.stage = "none"
  BY <1>1, <1>3 DEF TextEnded, NoText, Texts
<1>5. \A C : TextCancelled(C) \in Texts /\ (TextCancelled(C).stage # "none" => TextCancelled(C).op # 0)
  BY <1>1, <1>4 DEF TextCancelled
<1>6. ASSUME NEW stage \in {"before", "text", "after"}
      PROVE  /\ TextOperation(stage) \in Texts /\ TextOperation(stage).op = ctx.op
             /\ TextOperation(stage).seq = ctx.seq
  <2>1. PICK n \in Nat : n = ctx.requests + 1
    BY <1>1
  <2>2. TextOperation(stage) = [ctx EXCEPT !.stage = stage, !.request = n, !.requests = n]
    BY <2>1 DEF TextOperation
  <2>3. QED
    BY <1>1, <2>2 DEF Texts
<1>7. ASSUME NEW b \in BOOLEAN
      PROVE  /\ [ctx EXCEPT !.taken = b] \in Texts /\ [ctx EXCEPT !.done = b] \in Texts
             /\ [ctx EXCEPT !.taken = b].op = ctx.op /\ [ctx EXCEPT !.done = b].op = ctx.op
  BY <1>1 DEF Texts
<1>8. QED
  BY <1>4, <1>5, <1>6, <1>7

\* The transaction of the next step
TextSafe == TextOK /\ Staged

\* What revoking does to the adapters
LEMMA AdaptersRevoked ==
  ASSUME Ranges, NEW C, ctx' = TextCancelled(C), clip' = ClipCancelled(C)
  PROVE  TextSafe' /\ ClipOK'
<1>1. TextSafe'
  BY TextsOK DEF TextSafe, TextOK, Staged
<1>2. clip \in [op : Opt, seq : Nat] /\ 0 \in Opt
  BY DEF Ranges, ClipOK, Opt
<1>3. ClipOK'
  BY <1>2 DEF ClipCancelled, ClipOK
<1>4. QED
  BY <1>1, <1>3

\* The adapters after an operation failed,
LEMMA AdaptersError ==
  ASSUME Ranges, NEW c, Error(c) \/ Abort(c)
  PROVE  TextSafe' /\ ClipOK'
  BY AdaptersRevoked DEF Abort, Error, Revoke

\* when they are left alone,
LEMMA AdaptersSame ==
  ASSUME Ranges, ctx' = ctx \/ ctx' = TextEnded, clip' = clip \/ clip' = [clip EXCEPT !.op = 0]
  PROVE  TextSafe' /\ ClipOK'
<1>1. TextSafe'
  BY TextsOK DEF TextSafe, TextOK, Staged, Ranges
<1>2. clip \in [op : Opt, seq : Nat] /\ 0 \in Opt
  BY DEF Ranges, ClipOK, Opt
<1>3. ClipOK'
  BY <1>2 DEF ClipOK
<1>4. QED
  BY <1>1, <1>3

\* and when the desktop is lost
LEMMA AdaptersFall ==
  ASSUME Ranges, NEW lines, NEW already, Fall(lines, already)
  PROVE  TextSafe' /\ ClipOK'
<1>1. ctx' = TextCancelled(attached) /\ clip' = [clip EXCEPT !.op = 0]
  BY DEF Fall, ClipClosed
<1>2. TextSafe'
  BY <1>1, TextsOK DEF TextSafe, TextOK, Staged
<1>3. clip \in [op : Opt, seq : Nat] /\ 0 \in Opt
  BY DEF Ranges, ClipOK, Opt
<1>4. ClipOK'
  BY <1>1, <1>3 DEF ClipOK
<1>5. QED
  BY <1>2, <1>4

\* Turns of the queue
LEMMA DrainAdapters ==
  ASSUME Ranges, NEW c \in Connections, Drain(c) \/ Expire(c)
  PROVE  TextSafe' /\ ClipOK'
<1>a. ASSUME Abort(c) PROVE TextSafe' /\ ClipOK'
  BY <1>a, AdaptersError
<1>b. ASSUME UNCHANGED <<ctx, clip>> PROVE TextSafe' /\ ClipOK'
  BY <1>b, AdaptersSame
<1>1. CASE Expire(c)
  BY <1>1, <1>a DEF Expire
<1>2. CASE DrainClose(c)
  BY <1>2, <1>a, <1>b DEF DrainClose, Replied
<1>3. CASE DrainKey(c)
  BY <1>3, <1>b DEF DrainKey, Deliver, Replied
<1>4. CASE DrainMarker(c)
  <2>1. PICK s \in Opt : s = Op(c) /\ s # 0
    BY <1>4, TurnTypes DEF DrainMarker, Stamps
  <2>2. PICK k \in Codes : k = FirstFree
    BY <1>4, FirstFreeIn, OpTypes DEF DrainMarker
  <2>3. PICK q \in Nat : q = ctx.seq + 1
    BY OpTypes
  <2>4. PICK n \in Nat : n = (k + 1) % SlotCount
    BY Bounds DEF Codes
  <2>5. ctx' = [NoText EXCEPT !.op = s, !.stage = "marker", !.code = k, !.seq = q,
                              !.requests = ctx.requests, !.next = n]
    BY <1>4, <2>1, <2>2, <2>3, <2>4 DEF DrainMarker
  <2>6. ctx' = [op |-> s, stage |-> "marker", code |-> k, taken |-> FALSE, done |-> FALSE,
                request |-> 0, seq |-> q, requests |-> ctx.requests, next |-> n]
    BY <2>5 DEF NoText
  <2>7. TextSafe'
    BY <2>1, <2>6, OpTypes DEF TextSafe, TextOK, Staged, Texts
  <2>8. ClipOK'
    BY <1>4 DEF DrainMarker, Ranges, ClipOK
  <2>9. QED
    BY <2>7, <2>8
<1>5. CASE DrainWayland(c)
  <2>1. PICK s \in Opt : s = Op(c) /\ s # 0
    BY <1>5, TurnTypes DEF DrainWayland, Stamps
  <2>2. PICK t \in Texts : t = TextOperation("before")
    BY TextsOK
  <2>3. PICK q \in Nat : q = t.seq + 1
    BY <2>2 DEF Texts
  <2>4. ctx' = [t EXCEPT !.op = s, !.seq = q]
    BY <1>5, <2>1, <2>2, <2>3 DEF DrainWayland
  <2>5. TextSafe'
    BY <2>1, <2>4 DEF TextSafe, TextOK, Staged, Texts
  <2>6. ClipOK'
    BY <1>5 DEF DrainWayland, Ranges, ClipOK
  <2>7. QED
    BY <2>5, <2>6
<1>6. CASE DrainNoContext(c)
  BY <1>6, <1>a DEF DrainNoContext
<1>7. CASE DrainClip(c)
  <2>1. CASE Abort(c)
    BY <1>a, <2>1
  <2>2. CASE ~Abort(c)
    <3>1. PICK s \in Opt : s = Op(c)
      BY <1>7, TurnTypes DEF DrainClip
    <3>2. PICK q \in Nat : q = clip.seq + 1
      BY OpTypes
    <3>3. clip' = [op |-> s, seq |-> q] /\ UNCHANGED ctx
      BY <1>7, <2>2, <3>1, <3>2 DEF DrainClip
    <3>4. QED
      BY <3>3 DEF Ranges, TextSafe, TextOK, Staged, ClipOK
  <2>3. QED
    BY <2>1, <2>2
<1>8. QED
  BY <1>1, <1>2, <1>3, <1>4, <1>5, <1>6, <1>7 DEF Drain

\* Viewers
LEMMA ViewerAdapters ==
  ASSUME Ranges, NEW c \in Connections, ViewerStep(c)
  PROVE  TextSafe' /\ ClipOK'
<1>a. ASSUME UNCHANGED <<ctx, clip>> PROVE TextSafe' /\ ClipOK'
  BY <1>a, AdaptersSame
<1>b. ASSUME Leave(c) PROVE TextSafe' /\ ClipOK'
  BY <1>b, AdaptersRevoked DEF Leave, Revoke
<1>1. CASE Disconnect(c)
  BY <1>1, <1>b DEF Disconnect
<1>2. CASE Paint(c)
  BY <1>2, <1>a DEF Paint
<1>3. CASE Asking(c)
  <2>1. UNCHANGED <<ctx, clip>> \/ Leave(c)
    BY <1>3 DEF Asking, Enqueue, Overflow
  <2>2. QED
    BY <1>a, <1>b, <2>1
<1>4. CASE CloseAtOnce(c)
  BY <1>4, <1>a DEF CloseAtOnce
<1>5. CASE ReleaseInput(c) \/ CaptureFailed(c) \/ SelectWindow(c)
  BY <1>5, AdaptersRevoked DEF ReleaseInput, CaptureFailed, SelectWindow, Revoke
<1>6. CASE Terminate(c)
  BY <1>6, AdaptersFall DEF Terminate
<1>7. QED
  BY <1>1, <1>2, <1>3, <1>4, <1>5, <1>6 DEF ViewerStep

\* Records
LEMMA RecordAdapters ==
  ASSUME Ranges, RecordStep
  PROVE  TextSafe' /\ ClipOK'
<1>1. CASE ReadScene
  BY <1>1, AdaptersRevoked DEF ReadScene, Changed, Revoke
<1>2. CASE ReadTextReply
  <2>1. \/ Abort(Holder(ctx.op))
        \/ /\ \E stage \in {"text", "after"} : ctx' = TextOperation(stage)
           /\ UNCHANGED clip
        \/ ctx' = TextEnded /\ UNCHANGED clip
    BY <1>2 DEF ReadTextReply
  <2>2. CASE Abort(Holder(ctx.op))
    BY <2>2, AdaptersError
  <2>3. CASE (\E stage \in {"text", "after"} : ctx' = TextOperation(stage)) /\ UNCHANGED clip
    <3>1. ctx.op # 0
      BY <1>2 DEF ReadTextReply, Answers, Ranges, Staged
    <3>2. ctx' \in Texts /\ ctx'.op = ctx.op
      BY <2>3, TextsOK
    <3>3. QED
      BY <2>3, <3>1, <3>2 DEF TextSafe, TextOK, Staged, Ranges, ClipOK
  <2>4. CASE ctx' = TextEnded /\ UNCHANGED clip
    BY <2>4, AdaptersSame
  <2>5. QED
    BY <2>1, <2>2, <2>3, <2>4
<1>3. CASE ReadClip
  <2>1. (clip' = [clip EXCEPT !.op = 0] /\ UNCHANGED ctx) \/ Abort(Holder(clip.op))
    BY <1>3 DEF ReadClip
  <2>2. QED
    BY <2>1, AdaptersError, AdaptersSame
<1>4. CASE ReadLate
  BY <1>4, AdaptersSame DEF ReadLate
<1>5. CASE ReadLost
  BY <1>5, AdaptersFall DEF ReadLost
<1>6. QED
  BY <1>1, <1>2, <1>3, <1>4, <1>5 DEF RecordStep

\* Calls of the application
LEMMA BusAdapters ==
  ASSUME Ranges, BusStep
  PROVE  TextSafe' /\ ClipOK'
<1>0. ctx.done \in BOOLEAN
  BY OpTypes DEF Texts
<1>1. \/ Error(Holder(ctx.op)) \/ Abort(Holder(ctx.op))
      \/ ctx' \in {ctx, TextEnded} /\ UNCHANGED clip
      \/ (\E b \in BOOLEAN : ctx.op # 0 /\ ctx' = [ctx EXCEPT !.done = b]) /\ UNCHANGED clip
      \/ ctx.op # 0 /\ ctx' = [ctx EXCEPT !.taken = TRUE] /\ UNCHANGED clip
  BY <1>0 DEF BusStep, Take, Released, Done, FailedCall, Unregister, Complete, Waiting
<1>2. CASE Error(Holder(ctx.op)) \/ Abort(Holder(ctx.op))
  BY <1>2, AdaptersError
<1>3. CASE ctx' \in {ctx, TextEnded} /\ UNCHANGED clip
  BY <1>3, AdaptersSame
<1>4. CASE (\E b \in BOOLEAN : ctx.op # 0 /\ ctx' = [ctx EXCEPT !.done = b]) /\ UNCHANGED clip
  BY <1>4, TextsOK DEF TextSafe, TextOK, Staged, Ranges, ClipOK
<1>5. CASE ctx.op # 0 /\ ctx' = [ctx EXCEPT !.taken = TRUE] /\ UNCHANGED clip
  BY <1>5, TextsOK DEF TextSafe, TextOK, Staged, Ranges, ClipOK
<1>6. QED
  BY <1>1, <1>2, <1>3, <1>4, <1>5

\* All
LEMMA AdaptersKept ==
  ASSUME Ranges, [Next]_vars
  PROVE  TextSafe' /\ ClipOK'
<1>a. ASSUME UNCHANGED <<ctx, clip>> PROVE TextSafe' /\ ClipOK'
  BY <1>a, AdaptersSame
<1>1. CASE Connect
  BY <1>1, <1>a, AdaptersRevoked DEF Connect, Takeover, Revoke
<1>2. CASE CompStep
  BY <1>2, <1>a DEF CompStep, CompConnection, CompDetach, CompRelease, CompCancel, CompClose, CompReject,
                CompKey, CompMarker, CompClip, CompBarrier, CompText, SceneChange, CompSelect, PingTimeout,
                CompLost, comped, helperVars
<1>3. CASE AppStep
  BY <1>3, <1>a DEF AppStep, AppKey, AppText, AppPing, AppPress, AppLift, AppInsert, AppRefuse, AppGiveUp,
                AppDone, AppGone, apped, helperVars
<1>4. CASE UNCHANGED vars
  BY <1>4, <1>a DEF vars, helperVars
<1>5. QED
  BY <1>1, <1>2, <1>3, <1>4, RecordAdapters, BusAdapters, ViewerAdapters, DrainAdapters DEF Next

----------------------------------------------------------------------------
(* The markers keep their types *)

Slots == [used : BOOLEAN, text : Opt, pressed : BOOLEAN]

\* Taking the text from the markers leaves markers.
LEMMA MarkersRevoked ==
  ASSUME NEW m \in [Codes -> Slots], NEW C
  PROVE  Revoked(C, m) \in [Codes -> Slots]
<1>1. \A k \in Codes : [m[k] EXCEPT !.text = 0] \in Slots
  BY DEF Slots, Opt
<1>2. QED
  BY <1>1 DEF Revoked

\* A press uses a marker up, its release frees it, an owner that goes frees all.
LEMMA MarkersOK ==
  ASSUME Ranges
  PROVE  /\ slots \in [Codes -> Slots] /\ Removed \in [Codes -> Slots]
         /\ \A k : Pressed(k) \in [Codes -> Slots] /\ Lifted(k) \in [Codes -> Slots]
<1>1. slots \in [Codes -> Slots]
  BY DEF Ranges, SlotsOK, Slots
<1>2. NoSlot \in Slots
  BY DEF NoSlot, Slots, Opt
<1>3. Removed \in [Codes -> Slots]
  BY <1>2 DEF Removed
<1>4. ASSUME NEW k PROVE Lifted(k) \in [Codes -> Slots]
  BY <1>1, <1>2 DEF Lifted
<1>5. ASSUME NEW k PROVE Pressed(k) \in [Codes -> Slots]
  <2>1. CASE k \in Codes
    <3>1. slots[k] \in Slots
      BY <1>1, <2>1
    <3>2. [slots[k] EXCEPT !.pressed = TRUE] \in Slots
      BY <3>1 DEF Slots
    <3>3. [[slots[k] EXCEPT !.pressed = TRUE] EXCEPT !.text = 0] \in Slots
      BY <3>2 DEF Slots, Opt
    <3>4. Pressed(k) = [slots EXCEPT ![k] = [[slots[k] EXCEPT !.pressed = TRUE] EXCEPT !.text = 0]]
      BY <1>1, <2>1 DEF Pressed
    <3>5. QED
      BY <1>1, <3>3, <3>4
  <2>2. CASE k \notin Codes
    BY <1>1, <2>2 DEF Pressed
  <2>3. QED
    BY <2>1, <2>2
<1>6. QED
  BY <1>1, <1>3, <1>4, <1>5

\* What a call of the application does to the markers
LEMMA BusMarkers ==
  ASSUME Ranges, BusStep
  PROVE  slots' \in [Codes -> Slots]
<1>0. /\ slots \in [Codes -> Slots] /\ Removed \in [Codes -> Slots]
      /\ \A k : Pressed(k) \in [Codes -> Slots] /\ Lifted(k) \in [Codes -> Slots]
  BY MarkersOK
<1>1. ASSUME NEW m \in [Codes -> Slots], NEW done, Complete(m, done) PROVE slots' \in [Codes -> Slots]
  <2>1. slots' = m \/ \E c : slots' = Revoked({c}, m)
    BY <1>1 DEF Complete
  <2>2. QED
    BY <2>1, MarkersRevoked
<1>2. ASSUME NEW c, Abort(c) PROVE slots' \in [Codes -> Slots]
  BY <1>0, <1>2, MarkersRevoked DEF Abort
<1>3. CASE Take
  <2>1. PICK m \in {slots} \cup {Pressed(toBus[1].n)} : slots' = m \/ \E c : slots' = Revoked({c}, m)
    BY <1>3 DEF Take
  <2>2. m \in [Codes -> Slots]
    BY <1>0
  <2>3. QED
    BY <2>1, <2>2, MarkersRevoked
<1>4. CASE Released
  <2>1. PICK m \in [Codes -> Slots] : m = Lifted(toBus[1].n)
    BY <1>0
  <2>2. Complete(m, ctx.done)
    BY <1>4, <2>1 DEF Released
  <2>3. QED
    BY <1>1, <2>2
<1>5. CASE Done
  <2>1. slots' = slots \/ Complete(slots, TRUE) \/ Abort(Holder(ctx.op))
    BY <1>5 DEF Done
  <2>2. QED
    BY <1>0, <1>1, <1>2, <2>1
<1>6. CASE FailedCall
  BY <1>0, <1>2, <1>6 DEF FailedCall
<1>7. CASE Unregister
  BY <1>0, <1>7 DEF Unregister
<1>8. QED
  BY <1>3, <1>4, <1>5, <1>6, <1>7 DEF BusStep

\* A marker is taken for the text at the head of the queue.
LEMMA DrainMarkers ==
  ASSUME Ranges, NEW c \in Connections, Drain(c) \/ Expire(c)
  PROVE  slots' \in [Codes -> Slots]
<1>0. slots \in [Codes -> Slots]
  BY MarkersOK
<1>a. ASSUME Abort(c) PROVE slots' \in [Codes -> Slots]
  BY <1>0, <1>a, MarkersRevoked DEF Abort
<1>1. CASE DrainMarker(c)
  <2>1. PICK s \in Opt : s = Op(c)
    BY <1>1, TurnTypes DEF DrainMarker
  <2>2. [used |-> TRUE, text |-> s, pressed |-> FALSE] \in Slots
    BY DEF Slots
  <2>3. slots' = [slots EXCEPT ![FirstFree] = [used |-> TRUE, text |-> s, pressed |-> FALSE]]
    BY <1>1, <2>1 DEF DrainMarker
  <2>4. QED
    BY <1>0, <2>2, <2>3
<1>2. CASE ~DrainMarker(c)
  <2>1. slots' = slots \/ Abort(c)
    BY <1>2 DEF Drain, Expire, DrainClose, DrainKey, Deliver, Replied, DrainWayland, DrainNoContext, DrainClip
  <2>2. QED
    BY <1>0, <1>a, <2>1
<1>3. QED
  BY <1>1, <1>2

\* Every step leaves markers.
LEMMA SlotsKept ==
  ASSUME Ranges, [Next]_vars
  PROVE  SlotsOK'
<1>0. slots \in [Codes -> Slots]
  BY MarkersOK
<1> SUFFICES slots' \in [Codes -> Slots]
  BY DEF SlotsOK, Slots
<1>a. ASSUME slots' = slots \/ \E C : slots' = Revoked(C, slots) PROVE slots' \in [Codes -> Slots]
  BY <1>0, <1>a, MarkersRevoked
<1>b. ASSUME NEW c, Abort(c) PROVE slots' \in [Codes -> Slots]
  BY <1>a, <1>b DEF Abort
<1>1. CASE Connect
  BY <1>1, <1>a DEF Connect, Takeover
<1>2. CASE CompStep
  BY <1>2, <1>a DEF CompStep, CompConnection, CompDetach, CompRelease, CompCancel, CompClose, CompReject,
                CompKey, CompMarker, CompClip, CompBarrier, CompText, SceneChange, CompSelect, PingTimeout,
                CompLost, comped, helperVars
<1>3. CASE AppStep
  BY <1>3, <1>a DEF AppStep, AppKey, AppText, AppPing, AppPress, AppLift, AppInsert, AppRefuse, AppGiveUp,
                AppDone, AppGone, apped, helperVars
<1>4. CASE UNCHANGED vars
  BY <1>4, <1>a DEF vars, helperVars
<1>5. CASE RecordStep
  <2>1. \/ slots' = slots \/ (\E C : slots' = Revoked(C, slots))
        \/ \E c : Abort(c)
    BY <1>5 DEF RecordStep, ReadScene, Changed, ReadTextReply, ReadClip, ReadLate, ReadLost, Fall
  <2>2. QED
    BY <1>a, <1>b, <2>1
<1>6. ASSUME NEW c \in Connections, ViewerStep(c) PROVE slots' \in [Codes -> Slots]
  BY <1>6, <1>a DEF ViewerStep, Disconnect, Paint, Asking, Enqueue, Overflow, Leave, CloseAtOnce, ReleaseInput,
                    SelectWindow, CaptureFailed, Terminate, Fall
<1>7. QED
  BY <1>1, <1>2, <1>3, <1>4, <1>5, <1>6, BusMarkers, DrainMarkers DEF Next

----------------------------------------------------------------------------
(* The native desktop, its records, and the application's context *)

\* The target is one that a record announced, or none.
LEMMA NativeKept ==
  ASSUME Ranges, [Next]_vars
  PROVE  NativeOK'
<1>0. NativeOK /\ RecordsOK /\ PlaceOK /\ 0 \in 0..MaxScenes /\ 0 \in 0..MaxConnections
  BY Bounds DEF Ranges
<1>a. ASSUME native' = native PROVE NativeOK'
  BY <1>0, <1>a DEF NativeOK
<1>b. ASSUME native' = [epoch |-> 0, target |-> 0, closed |-> TRUE] PROVE NativeOK'
  <2>1. [epoch |-> 0, target |-> 0, closed |-> TRUE] \in [epoch : 0..MaxConnections, target : 0..MaxScenes, closed : BOOLEAN]
    BY <1>0
  <2>2. QED
    BY <1>b, <2>1 DEF NativeOK
<1>c. ASSUME native' = [native EXCEPT !.epoch = 0] PROVE NativeOK'
  BY <1>0, <1>c DEF NativeOK
<1>1. CASE Connect
  <2>1. native' = native \/ (native' = [native EXCEPT !.epoch = connections + 1] /\ connections < MaxConnections)
    BY <1>1 DEF Connect, Admits
  <2>2. QED
    BY <1>0, <2>1, Bounds DEF NativeOK, PlaceOK
<1>2. CASE ReadScene
  <2>1. toHelper # <<>> /\ toHelper[1].rec = "scene"
    BY <1>2 DEF ReadScene, Read
  <2>2. toHelper[1] \in Records
    BY <1>0, <2>1, HeadTailProperties, LenProperties, EmptySeq DEF RecordsOK
  <2>3. PICK n \in 0..MaxScenes : n = IF toHelper[1].ok THEN toHelper[1].n ELSE 0
    BY <1>0, <2>1, <2>2 DEF Records
  <2>4. native' = [native EXCEPT !.target = n]
    BY <1>2, <2>3 DEF ReadScene
  <2>5. QED
    BY <1>0, <2>4 DEF NativeOK
<1>3. CASE RecordStep /\ ~ReadScene
  <2>1. native' = native \/ native' = [epoch |-> 0, target |-> 0, closed |-> TRUE]
    BY <1>3 DEF RecordStep, ReadTextReply, ReadClip, ReadLate, ReadLost, Fall
  <2>2. QED
    BY <1>a, <1>b, <2>1
<1>4. CASE BusStep
  BY <1>0, <1>4 DEF BusStep, Take, Released, Done, FailedCall, Unregister, quiet, NativeOK
<1>5. CASE CompStep
  BY <1>0, <1>5 DEF CompStep, CompConnection, CompDetach, CompRelease, CompCancel, CompClose, CompReject,
                CompKey, CompMarker, CompClip, CompBarrier, CompText, SceneChange, CompSelect, PingTimeout,
                CompLost, comped, helperVars, NativeOK
<1>6. CASE AppStep
  BY <1>0, <1>6 DEF AppStep, AppKey, AppText, AppPing, AppPress, AppLift, AppInsert, AppRefuse, AppGiveUp,
                AppDone, AppGone, apped, helperVars, NativeOK
<1>7. CASE UNCHANGED vars
  BY <1>0, <1>7 DEF vars, helperVars, NativeOK
<1>8. ASSUME NEW c \in Connections, ViewerStep(c) PROVE NativeOK'
  <2>1. \/ native' = native \/ native' = [native EXCEPT !.epoch = 0]
        \/ native' = [epoch |-> 0, target |-> 0, closed |-> TRUE]
    BY <1>8 DEF ViewerStep, Disconnect, Paint, Asking, Enqueue, Overflow, Leave, CloseAtOnce, ReleaseInput,
                    SelectWindow, CaptureFailed, Terminate, Fall
  <2>2. QED
    BY <1>a, <1>b, <1>c, <2>1
<1>9. ASSUME NEW c \in Connections, Drain(c) \/ Expire(c) PROVE NativeOK'
  BY <1>0, <1>9 DEF Drain, Expire, DrainClose, DrainKey, DrainMarker, DrainWayland, DrainNoContext, DrainClip,
                    drained, NativeOK
<1>10. QED
  BY <1>1, <1>2, <1>3, <1>4, <1>5, <1>6, <1>7, <1>8, <1>9 DEF Next

\* The compositor and the channel back, in every step
LEMMA CompAndRecordsKept ==
  ASSUME Ranges, [Next]_vars
  PROVE  CompOK' /\ RecordsOK'
<1>0. CompOK /\ RecordsOK /\ <<>> \in Seq(Records)
  BY EmptySeq DEF Ranges
<1>a. ASSUME UNCHANGED comp, UNCHANGED toHelper \/ toHelper' = <<>> \/ (toHelper # <<>> /\ toHelper' = Tail(toHelper))
      PROVE  CompOK' /\ RecordsOK'
  BY <1>0, <1>a, HeadTailProperties DEF CompOK, RecordsOK
<1>1. CASE Connect
  BY <1>1, <1>a DEF Connect, outside
<1>2. CASE RecordStep
  BY <1>2, <1>a DEF RecordStep, ReadScene, ReadTextReply, ReadClip, ReadLate, ReadLost, Answers, Read, heard
<1>3. CASE BusStep
  BY <1>3, <1>a DEF BusStep, Take, Released, Done, FailedCall, Unregister, quiet
<1>4. CASE AppStep /\ ~AppPing
  BY <1>4, <1>a DEF AppStep, AppKey, AppText, AppPress, AppLift, AppInsert, AppRefuse, AppGiveUp,
                    AppDone, AppGone
<1>5. CASE AppPing
  <2>1. PICK n \in Nat : n = comp.barrier
    BY <1>0 DEF CompOK, Comps
  <2>2. Record("barrier", n, TRUE) \in Records
    BY RecordOK
  <2>3. toHelper' = toHelper \/ toHelper' = Append(toHelper, Record("barrier", n, TRUE))
    BY <1>5, <2>1 DEF AppPing
  <2>4. PICK r \in Records : r = Record("barrier", n, TRUE)
    BY <2>2
  <2>a. Append(toHelper, r) \in Seq(Records)
    BY <1>0, AppendProperties DEF RecordsOK
  <2>b. RecordsOK'
    BY <1>0, <2>3, <2>4, <2>a DEF RecordsOK
  <2>5. CompOK'
    BY <1>0, <1>5 DEF AppPing, CompOK, Comps
  <2>6. QED
    BY <2>b, <2>5
<1>6. CASE UNCHANGED vars
  BY <1>6, <1>a DEF vars
<1>7. ASSUME NEW c \in Connections, ViewerStep(c) PROVE CompOK' /\ RecordsOK'
  BY <1>7, <1>a DEF ViewerStep, Disconnect, Paint, Asking, Enqueue, Overflow, CloseAtOnce, ReleaseInput,
                    SelectWindow, CaptureFailed, Terminate, unasked, outside
<1>8. ASSUME NEW c \in Connections, Drain(c) \/ Expire(c) PROVE CompOK' /\ RecordsOK'
  BY <1>8, <1>a DEF Drain, Expire, DrainClose, DrainKey, DrainMarker, DrainWayland, DrainNoContext, DrainClip,
                    drained, unasked, outside
<1>9. QED
  BY <1>1, <1>2, <1>3, <1>4, <1>5, <1>6, <1>7, <1>8, CompKept DEF Next

\* The input context of the application, in every step
LEMMA AppKept ==
  ASSUME Ranges, [Next]_vars
  PROVE  AppOK'
<1>0. AppOK
  BY DEF Ranges
<1>a. ASSUME UNCHANGED app PROVE AppOK'
  BY <1>0, <1>a DEF AppOK
<1>b. ASSUME NEW state \in {"idle", "asking", "got", "gone"}, NEW mark, NEW seq, NEW text, NEW dones,
             app' = [state |-> state, mark |-> mark, seq |-> seq, text |-> text, dones |-> dones]
      PROVE  AppOK'
  BY <1>b DEF AppOK
<1>1. CASE Connect
  BY <1>1, <1>a DEF Connect, outside
<1>2. CASE RecordStep
  BY <1>2, <1>a DEF RecordStep, ReadScene, ReadTextReply, ReadClip, ReadLate, ReadLost, heard
<1>3. CASE Take
  <2>1. ASSUME NEW text, app' = Hands(text) PROVE AppOK'
    <3>1. \/ UNCHANGED app
          \/ app' = [state |-> "idle", mark |-> 0, seq |-> app.seq, text |-> app.text, dones |-> app.dones]
          \/ app' = [state |-> "got", mark |-> app.mark, seq |-> ctx.seq, text |-> text, dones |-> app.dones]
      BY <1>0, <2>1 DEF Hands, AppOK
    <3>2. QED
      BY <1>a, <1>b, <3>1
  <2>2. \E text : app' = Hands(text)
    BY <1>3 DEF Take
  <2>3. QED
    BY <2>1, <2>2
<1>4. CASE BusStep /\ ~Take
  BY <1>4, <1>a DEF BusStep, Released, Done, FailedCall, Unregister
<1>5. CASE CompStep
  BY <1>5, <1>a DEF CompStep, CompConnection, CompDetach, CompRelease, CompCancel, CompClose, CompReject,
                CompKey, CompMarker, CompClip, CompBarrier, CompText, SceneChange, CompSelect, PingTimeout,
                CompLost, comped
<1>6. CASE AppStep
  <2>0. /\ app = [state |-> app.state, mark |-> app.mark, seq |-> app.seq, text |-> app.text, dones |-> app.dones]
        /\ app.state \in {"idle", "asking", "got", "gone"}
    BY <1>0 DEF AppOK
  <2>1. Back = [state |-> "idle", mark |-> 0, seq |-> 0, text |-> 0, dones |-> app.dones]
    <3>1. Back = [app EXCEPT !.state = "idle", !.mark = 0, !.seq = 0, !.text = 0]
      BY Zenon DEF Back
    <3>2. QED
      BY <2>0, <3>1
  <2>2. CASE AppPress
    <3>1. app' = [state |-> "asking", mark |-> toApp[1].s, seq |-> app.seq, text |-> app.text, dones |-> app.dones]
      BY <2>0, <2>2 DEF AppPress
    <3>2. QED
      BY <1>b, <3>1
  <2>3. CASE AppInsert
    <3>1. app' = [state |-> "idle", mark |-> 0, seq |-> 0, text |-> 0, dones |-> app.dones \cup {app.seq}]
      BY <2>1, <2>3 DEF AppInsert
    <3>2. QED
      BY <1>b, <3>1
  <2>4. CASE AppRefuse \/ AppGiveUp
    <3>1. app' = [state |-> "idle", mark |-> 0, seq |-> 0, text |-> 0, dones |-> app.dones]
      BY <2>1, <2>4 DEF AppRefuse, AppGiveUp
    <3>2. QED
      BY <1>b, <3>1
  <2>5. CASE AppDone
    <3>1. PICK q : app' = [app EXCEPT !.dones = @ \ {q}]
      BY <2>5 DEF AppDone
    <3>2. app' = [state |-> app.state, mark |-> app.mark, seq |-> app.seq, text |-> app.text, dones |-> app.dones \ {q}]
      BY <2>0, <3>1
    <3>3. QED
      BY <1>b, <2>0, <3>2
  <2>6. CASE AppGone
    <3>1. app' = [state |-> "gone", mark |-> 0, seq |-> 0, text |-> 0, dones |-> {}]
      BY <2>1, <2>6 DEF AppGone
    <3>2. QED
      BY <1>b, <3>1
  <2>7. CASE AppKey \/ AppText \/ AppPing \/ AppLift
    BY <2>7, <1>a DEF AppKey, AppText, AppPing, AppLift
  <2>8. QED
    BY <1>6, <2>2, <2>3, <2>4, <2>5, <2>6, <2>7 DEF AppStep
<1>7. CASE UNCHANGED vars
  BY <1>7, <1>a DEF vars
<1>8. ASSUME NEW c \in Connections, ViewerStep(c) PROVE AppOK'
  BY <1>8, <1>a DEF ViewerStep, Disconnect, Paint, Asking, Enqueue, Overflow, CloseAtOnce, ReleaseInput,
                    SelectWindow, CaptureFailed, Terminate, unasked, outside
<1>9. ASSUME NEW c \in Connections, Drain(c) \/ Expire(c) PROVE AppOK'
  BY <1>9, <1>a DEF Drain, Expire, DrainClose, DrainKey, DrainMarker, DrainWayland, DrainNoContext, DrainClip,
                    drained, unasked, outside
<1>10. QED
  BY <1>1, <1>2, <1>3, <1>4, <1>5, <1>6, <1>7, <1>8, <1>9 DEF Next

----------------------------------------------------------------------------
(* Every request is answered once *)

\* The inductive invariant
IInv == Ranges /\ Books

\* What the lemmas above start from
LEMMA IInvParts ==
  ASSUME IInv
  PROVE  Ranges /\ Core
BY DEF IInv, Ranges, Books, Core, Grounds

\* The invariant holds before anything is asked.
LEMMA InitIInv ==
  ASSUME Init
  PROVE  IInv
<1>0. /\ 0 \in 0..MaxConnections /\ 0 \in 0..MaxScenes /\ 1 \in 0..MaxScenes /\ 1 \in 1..MaxScenes /\ 0 \in Nat
      /\ 0 \in Opt /\ 0 \in Codes /\ 0 \in 0..MaxRequests /\ 0 \in 0..MaxQueue
  BY Bounds DEF Opt, Codes
<1>1. PlaceOK
  BY <1>0 DEF Init, PlaceOK
<1>2. ViewOK /\ \A c \in Connections : view[c] = NoView /\ ~Busy(c) /\ Len(view[c].queue) = 0
  <2>1. NoView \in Views /\ NoView.queue = <<>> /\ Len(NoView.queue) = 0 /\ NoView.pending = 0
    BY <1>0, EmptySeq DEF NoView, Views
  <2>2. \A c \in Connections : view[c] = NoView
    BY DEF Init
  <2>3. view \in [Connections -> Views]
    BY <2>1 DEF Init
  <2>4. QED
    BY <1>0, <2>1, <2>2, <2>3, Bounds DEF ViewOK, Busy
<1>3. NativeOK
  BY <1>0 DEF Init, NativeOK
<1>4. TextOK /\ ctx.op = 0 /\ ctx.stage = "none"
  BY <1>0 DEF Init, NoText, TextOK, Texts
<1>5. ClipOK /\ clip.op = 0
  BY <1>0 DEF Init, ClipOK
<1>6. SlotsOK
  <2>1. NoSlot \in [used : BOOLEAN, text : Opt, pressed : BOOLEAN]
    BY <1>0 DEF NoSlot
  <2>2. QED
    BY <2>1 DEF Init, SlotsOK
<1>7. ReqOK /\ \A s \in Stamps : req[s].status = "none" /\ req[s].replies = 0
  <2>1. NoRequest \in Requests
    BY <1>0 DEF NoRequest, Requests, Statuses
  <2>2. NoRequest.status = "none" /\ NoRequest.replies = 0
    BY DEF NoRequest
  <2>3. QED
    BY <2>1, <2>2 DEF Init, ReqOK
<1>8. CompOK
  <2>1. -1 \in Int /\ TRUE \in BOOLEAN /\ FALSE \in BOOLEAN
    OBVIOUS
  <2>2. QED
    BY <1>0, <2>1 DEF Init, CompOK, Comps
<1>9. LinesOK /\ RecordsOK
  BY EmptySeq DEF Init, LinesOK, RecordsOK
<1>10. AppOK
  BY DEF Init, AppOK
<1>11. Sole /\ Draining /\ Staged
  BY <1>2, <1>4 DEF Sole, Draining, Staged, Init
<1>12. Adapting
  BY <1>2, <1>4, <1>5 DEF Adapting, Busy
<1>13. Once /\ Placed
  BY <1>2 DEF Once, Placed, Busy
<1>14. Found /\ Replying
  BY <1>7 DEF Found, Replying, Waits
<1>15. Numbered
  BY <1>0, <1>7 DEF Numbered, Stamps
<1>16. QED
  BY <1>1, <1>2, <1>3, <1>4, <1>5, <1>6, <1>7, <1>8, <1>9, <1>10, <1>11, <1>12, <1>13, <1>14, <1>15
     DEF IInv, Ranges, Books

\* Every step keeps it.
LEMMA NextIInv ==
  ASSUME IInv, [Next]_vars
  PROVE  IInv'
<1>1. Ranges /\ Core /\ Grounds
  BY IInvParts DEF Core
<1>2. Moves
  BY <1>1, StepMoves
<1>3. PlaceOK' /\ Books'
  BY <1>1, <1>2, PlaceMoves, BooksKept
<1>4. LinesOK' /\ CompOK' /\ RecordsOK' /\ TextSafe' /\ ClipOK' /\ SlotsOK' /\ NativeOK' /\ AppOK'
  BY <1>1, LinesKept, CompAndRecordsKept, AdaptersKept, SlotsKept, NativeKept, AppKept
<1>5. QED
  BY <1>3, <1>4 DEF IInv, Ranges, Books, TextSafe

\* What one viewer has open
LEMMA OpenHere ==
  ASSUME IInv, NEW c \in Connections, NEW s \in Stamps
  PROVE  s \in Open(c) <=> view[c].pending = s \/ \E i \in 1..Len(view[c].queue) : view[c].queue[i] = s
<1>1. view[c].queue \in Seq(Stamps) /\ s # 0
  BY ViewFields DEF IInv, Ranges, Stamps
<1>2. s \in ToSet(view[c].queue) <=> \E i \in 1..Len(view[c].queue) : view[c].queue[i] = s
  BY <1>1, Elements
<1>3. QED
  BY <1>1, <1>2 DEF Open

\* A viewer with something open is attached.
LEMMA OpenAttached ==
  ASSUME IInv, NEW c \in Connections, Busy(c)
  PROVE  c \in attached
<1>1. c = controller /\ c # 0
  BY DEF IInv, Books, Sole, Connections
<1>2. QED
  BY <1>1 DEF IInv, Ranges, PlaceOK

\* The type invariant of the module follows,
LEMMA TypesMeant ==
  ASSUME IInv
  PROVE  TypeOK
<1>1. connections \in 0..MaxConnections /\ attached \subseteq 1..connections /\ controller \in attached \cup {0}
      /\ draining \in attached \cup {0}
  BY DEF IInv, Ranges, PlaceOK
<1>2. view \in [Connections -> [ready : 0..MaxScenes, failed : BOOLEAN,
                                queue : BoundedSeq(Stamps, MaxQueue), pending : Stamps \cup {0}]]
  <2>1. ASSUME NEW q \in Seq(Stamps), Len(q) <= MaxQueue
        PROVE  q \in BoundedSeq(Stamps, MaxQueue)
    <3>1. q \in [1..Len(q) -> Stamps] /\ Len(q) \in 0..MaxQueue
      BY <2>1, LenProperties, Bounds
    <3>2. QED
      BY <3>1 DEF BoundedSeq, SeqOf
  <2>2. ASSUME NEW c \in Connections
        PROVE  view[c] \in [ready : 0..MaxScenes, failed : BOOLEAN,
                            queue : BoundedSeq(Stamps, MaxQueue), pending : Stamps \cup {0}]
    <3>1. view[c] \in Views /\ Len(view[c].queue) <= MaxQueue
      BY DEF IInv, Ranges, ViewOK
    <3>2. view[c].queue \in BoundedSeq(Stamps, MaxQueue)
      BY <2>1, <3>1 DEF Views
    <3>3. QED
      BY <3>1, <3>2 DEF Views, Opt
  <2>3. view \in [Connections -> Views]
    BY DEF IInv, Ranges, ViewOK
  <2>4. QED
    BY <2>2, <2>3
<1>3. native \in [epoch : 0..MaxConnections, target : 0..MaxScenes, closed : BOOLEAN]
  BY DEF IInv, Ranges, NativeOK
<1>4. ctx.stage \in {"none", "marker", "before", "text", "after"} /\ ctx.code \in Codes
  BY DEF IInv, Ranges, TextOK, Texts
<1>5. slots \in [Codes -> [used : BOOLEAN, text : Stamps \cup {0}, pressed : BOOLEAN]]
  BY DEF IInv, Ranges, SlotsOK, Opt
<1>6. app.state \in {"idle", "asking", "got", "gone"}
  BY DEF IInv, Ranges, AppOK
<1>7. req \in [Stamps -> [conn : 0..MaxConnections, kind : {"none", "down", "up", "text", "clip", "close"},
                         gen : 0..MaxScenes, replies : 0..1,
                         status : {"none", "queued", "issued", "confirmed", "failed", "refused"}]]
  <2>1. ASSUME NEW s \in Stamps
        PROVE  req[s] \in [conn : 0..MaxConnections, kind : {"none", "down", "up", "text", "clip", "close"},
                           gen : 0..MaxScenes, replies : 0..1,
                           status : {"none", "queued", "issued", "confirmed", "failed", "refused"}]
    <3>1. req[s] \in Requests
      BY DEF IInv, Ranges, ReqOK
    <3>2. req[s].replies \in 0..1
      BY <3>1 DEF IInv, Books, Replying, Waits, Requests, Statuses
    <3>3. QED
      BY <3>1, <3>2 DEF Requests, Statuses
  <2>2. req \in [Stamps -> Requests]
    BY DEF IInv, Ranges, ReqOK
  <2>3. QED
    BY <2>1, <2>2
<1>8. QED
  BY <1>1, <1>2, <1>3, <1>4, <1>5, <1>6, <1>7 DEF TypeOK

\* and so does what a request is promised.
LEMMA AnswersMeant ==
  ASSUME IInv
  PROVE  AnsweredOnce
<1>0. attached \subseteq Connections
  BY Bounds DEF IInv, Ranges, PlaceOK, Connections
<1>1. ASSUME NEW s \in Stamps
      PROVE  /\ req[s].status \in {"queued", "issued"} <=> \E c \in attached : s \in Open(c)
             /\ req[s].status \in {"queued", "issued"} => req[s].replies = 0
             /\ req[s].status \in {"confirmed", "failed", "refused"} /\ req[s].conn \in attached
                  => req[s].replies = 1
  <2>1. ASSUME req[s].status \in {"queued", "issued"} PROVE \E c \in attached : s \in Open(c)
    <3>1. PICK c \in Connections : view[c].pending = s \/ \E i \in 1..Len(view[c].queue) : view[c].queue[i] = s
      BY <2>1 DEF IInv, Books, Found
    <3>2. s \in Open(c) /\ s # 0
      BY <3>1, OpenHere DEF Stamps
    <3>3. Busy(c)
      BY <3>1, <3>2, EmptySeq DEF Busy
    <3>4. QED
      BY <3>2, <3>3, OpenAttached
  <2>2. ASSUME NEW c \in attached, s \in Open(c) PROVE req[s].status \in {"queued", "issued"}
    <3>1. view[c].pending = s \/ \E i \in 1..Len(view[c].queue) : view[c].queue[i] = s
      BY <1>0, <2>2, OpenHere
    <3>2. c \in Connections /\ s # 0
      BY <1>0 DEF Stamps
    <3>3. QED
      BY <3>1, <3>2 DEF IInv, Books, Placed
  <2>3. /\ req[s].status \in {"queued", "issued"} => req[s].replies = 0
        /\ req[s].status \in {"confirmed", "failed", "refused"} /\ req[s].conn \in attached
             => req[s].replies = 1
    BY DEF IInv, Books, Replying, Waits
  <2>4. QED
    BY <2>1, <2>2, <2>3
<1>2. {view[c].pending : c \in attached} \ {0} = {ctx.op, clip.op} \ {0}
  <2>1. ASSUME NEW c \in attached, view[c].pending # 0 PROVE view[c].pending \in {ctx.op, clip.op}
    BY <1>0, <2>1 DEF IInv, Books, Adapting
  <2>2. ASSUME NEW s \in {ctx.op, clip.op}, s # 0 PROVE \E c \in attached : view[c].pending = s
    <3>1. PICK c \in Connections : view[c].pending = s
      BY <2>2 DEF IInv, Books, Adapting
    <3>2. QED
      BY <2>2, <3>1, OpenAttached DEF Busy
  <2>3. QED
    BY <2>1, <2>2
<1>3. QED
  BY <1>1, <1>2, TypesMeant DEF AnsweredOnce

\* A request is open exactly while a scheduler has it and a settled one has its
\* one reply, whatever the compositor and the application do (cancel_input,
\* NativeAttachment's answers, the adapters' transactions).
THEOREM AnsweredOnceHolds == Spec => []AnsweredOnce
<1>1. Init => IInv
  BY InitIInv
<1>2. IInv /\ [Next]_vars => IInv'
  BY NextIInv
<1>3. IInv => AnsweredOnce
  BY AnswersMeant
<1>4. QED
  BY <1>1, <1>2, <1>3, PTL DEF Spec

----------------------------------------------------------------------------
(* Keys and control *)

\* A request that was made, one of a viewer that is attached, and one of a viewer
\* that does not control or finds the desktop lost
Known(s) == s \in Stamps /\ req[s].status # "none"
Own(s) == Known(s) /\ req[s].conn \in attached
Foreign(s) == req[s].conn # controller \/ native.closed
KnownNext(s) == s \in Stamps /\ req'[s].status # "none"
OwnNext(s) == KnownNext(s) /\ req'[s].conn \in attached'
ForeignNext(s) == req'[s].conn # controller' \/ native'.closed

\* From line i on, q has a release that the connection e accepts.
Frees(q, i, e) == \E j \in i..Len(q) : q[j].to = "release" /\ q[j].e = e

\* Lines and held keys are of requests that were made, and those of the viewers
\* that are attached belong to the native epoch.
Asked == /\ \A i \in 1..Len(toComp) : toComp[i].s # 0 => Known(toComp[i].s)
         /\ comp.held # 0 => Known(comp.held)
Carried == ~native.closed =>
  /\ \A i \in 1..Len(toComp) : Own(toComp[i].s) => toComp[i].e = native.epoch
  /\ Own(comp.held) => comp.connection = native.epoch

\* A key of a viewer that does not control has its release behind it.
Lifting == ~comp.lost =>
  /\ \A i \in 1..Len(toComp) : toComp[i].to = "down" /\ Own(toComp[i].s) /\ Foreign(toComp[i].s)
       => Frees(toComp, i + 1, toComp[i].e)
  /\ Own(comp.held) /\ Foreign(comp.held) => Frees(toComp, 1, comp.connection)
Plain == {r \in Records : r.rec # "lost"}
Ending == /\ comp.lost => comp.held = 0
          /\ comp.held # 0 => comp.connection # 0
          /\ ~comp.lost => toHelper \in Seq(Plain)
Keys == Asked /\ Carried /\ Lifting /\ Ending

\* Requests stay made and stay those of their viewers; no viewer comes back.
LEMMA Grown ==
  ASSUME Core, Moves, NEW s \in Stamps, Known(s)
  PROVE  KnownNext(s) /\ req'[s].conn = req[s].conn /\ (OwnNext(s) => Own(s))
<1>0. /\ connections \in Nat /\ attached \subseteq 1..connections /\ attached \subseteq Connections
      /\ ViewOK /\ ReqOK
  BY Bounds DEF Core, Grounds, PlaceOK, Connections
<1>1. req[s].conn \in 1..connections /\ req[s].status # "none"
  BY DEF Core, Replying, Known
<1>2. req'[s].status # "none" /\ req'[s].conn = req[s].conn
  <2>1. CASE Rests \/ Paints \/ ComesFirst
    BY <1>1, <2>1 DEF Rests, Paints, ComesFirst
  <2>2. CASE TakesOver \/ Leaves \/ Clears
    <3>1. PICK C \in SUBSET attached, replied \in BOOLEAN : Gone(C, replied)
      BY <2>2, Clearing
    <3>2. /\ req'[s].conn = req[s].conn /\ (s \notin OpenOf(C) => req'[s] = req[s])
          /\ (s \in OpenOf(C) => req'[s].status = GivenUp(req[s].status))
      BY <1>0, <3>1, ClearedFacts DEF Gone
    <3>3. QED
      BY <1>1, <3>2 DEF GivenUp
  <2>3. CASE Queues \/ Closes
    <3>1. PICK r : Cardinality(Made) < MaxRequests /\ req' = [req EXCEPT ![NewStamp] = r]
      BY <2>3 DEF Queues, Closes
    <3>2. s # NewStamp
      BY <1>1, <3>1, NewFacts
    <3>3. QED
      BY <1>0, <1>1, <3>1, <3>2 DEF ReqOK
  <2>4. CASE Confirms
    <3>1. PICK c \in attached : /\ req' = [req EXCEPT ![view[c].pending].status = "confirmed",
                                                       ![view[c].pending].replies = @ + 1]
      BY <2>4 DEF Confirms, Succeed
    <3>2. QED
      BY <1>0, <1>1, <3>1 DEF ReqOK, Requests
  <2>5. CASE Replies
    <3>1. PICK c \in attached, status \in {"confirmed", "refused"} :
            req' = [req EXCEPT ![Op(c)].status = status, ![Op(c)].replies = @ + 1]
      BY <2>5 DEF Replies, Replied
    <3>2. QED
      BY <1>0, <1>1, <3>1 DEF ReqOK, Requests
  <2>6. CASE Suspends
    <3>1. PICK c \in attached : req' = [req EXCEPT ![Op(c)].status = "issued"]
      BY <2>6 DEF Suspends, Pends
    <3>2. QED
      BY <1>0, <1>1, <3>1 DEF ReqOK, Requests
  <2>7. QED
    BY <2>1, <2>2, <2>3, <2>4, <2>5, <2>6 DEF Moves
<1>3. req[s].conn \in attached' => req[s].conn \in attached
  <2>1. CASE ComesFirst \/ TakesOver
    <3>1. attached' = attached \cup {connections + 1}
      BY <2>1 DEF ComesFirst, TakesOver, Arrives
    <3>2. req[s].conn # connections + 1
      BY <1>0, <1>1
    <3>3. QED
      BY <3>1, <3>2
  <2>2. CASE Leaves
    BY <2>2 DEF Leaves, Without
  <2>3. CASE Rests \/ Paints \/ Clears \/ Queues \/ Closes \/ Confirms \/ Replies \/ Suspends
    BY <2>3 DEF Rests, Paints, Clears, Queues, Closes, Confirms, Replies, Suspends, place
  <2>4. QED
    BY <2>1, <2>2, <2>3 DEF Moves
<1>4. QED
  BY <1>1, <1>2, <1>3 DEF Known, KnownNext, Own, OwnNext

\* What the helper may send while the keys stay in order: what belongs to a
\* request is the controller's and of the native epoch; where a request becomes
\* foreign a release is sent behind it.
Speech(q) ==
  /\ toComp' = toComp \o q
  /\ \A i \in 1..Len(q) : q[i].s # 0 =>
       /\ KnownNext(q[i].s) /\ ~ForeignNext(q[i].s) /\ q[i].e = native'.epoch
  /\ native'.closed \/ native'.epoch = native.epoch \/ \A s \in Stamps : Known(s) => ~OwnNext(s)
  /\ native.closed => native'.closed
  /\ \/ comp.lost
     \/ ~native.closed /\ Frees(q, 1, native.epoch)
     \/ \A s \in Stamps : Known(s) /\ OwnNext(s) /\ ForeignNext(s) => Foreign(s)

\* Then the keys stay in order.
LEMMA SpeechKeeps ==
  ASSUME Core, Moves, LinesOK, CompOK, Keys, NEW q \in Seq(Lines), Speech(q), UNCHANGED comp,
         ~comp.lost => toHelper' \in Seq(Plain)
  PROVE  Keys'
<1>1. /\ Len(toComp \o q) = Len(toComp) + Len(q) /\ Len(toComp) \in Nat /\ Len(q) \in Nat
      /\ \A i \in 1..Len(toComp) : (toComp \o q)[i] = toComp[i]
      /\ \A i \in 1..Len(q) : (toComp \o q)[Len(toComp) + i] = q[i]
  BY ConcatProperties, LenProperties DEF LinesOK
<1>2. toComp' = toComp \o q
  BY DEF Speech
<1>3. ASSUME NEW i \in 1..Len(toComp')
      PROVE  \/ i \in 1..Len(toComp) /\ toComp'[i] = toComp[i]
             \/ \E j \in 1..Len(q) : i = Len(toComp) + j /\ toComp'[i] = q[j]
  <2>1. CASE i <= Len(toComp)
    BY <1>1, <1>2, <2>1
  <2>2. CASE ~(i <= Len(toComp))
    <3>1. PICK j \in 1..Len(q) : i = Len(toComp) + j
      <4>1. i - Len(toComp) \in 1..Len(q) /\ i = Len(toComp) + (i - Len(toComp))
        BY <1>1, <1>2, <2>2
      <4>2. QED
        BY <4>1
    <3>2. QED
      BY <1>1, <1>2, <3>1
  <2>3. QED
    BY <2>1, <2>2
<1>4. ASSUME NEW i \in Nat, NEW e, i >= 1, i <= Len(toComp) + 1, Frees(toComp, i, e) \/ Frees(q, 1, e)
      PROVE  Frees(toComp', i, e)
  <2>1. CASE Frees(toComp, i, e)
    <3>1. PICK j \in i..Len(toComp) : toComp[j].to = "release" /\ toComp[j].e = e
      BY <2>1 DEF Frees
    <3>2. j \in i..Len(toComp') /\ toComp'[j] = toComp[j]
      BY <1>1, <1>2, <1>4, <3>1
    <3>3. QED
      BY <3>1, <3>2 DEF Frees
  <2>2. CASE Frees(q, 1, e)
    <3>1. PICK j \in 1..Len(q) : q[j].to = "release" /\ q[j].e = e
      BY <2>2 DEF Frees
    <3>2. Len(toComp) + j \in i..Len(toComp') /\ toComp'[Len(toComp) + j] = q[j]
      BY <1>1, <1>2, <1>4, <3>1
    <3>3. QED
      BY <3>1, <3>2 DEF Frees
  <2>3. QED
    BY <1>4, <2>1, <2>2
<1>5. \A s \in Stamps : Known(s) => KnownNext(s) /\ req'[s].conn = req[s].conn /\ (OwnNext(s) => Own(s))
  BY Grown
<1>6. Asked'
  <2>1. ASSUME NEW i \in 1..Len(toComp'), toComp'[i].s # 0 PROVE KnownNext(toComp'[i].s)
    <3>1. CASE i \in 1..Len(toComp) /\ toComp'[i] = toComp[i]
      BY <1>5, <2>1, <3>1 DEF Keys, Asked, Known
    <3>2. CASE \E j \in 1..Len(q) : i = Len(toComp) + j /\ toComp'[i] = q[j]
      BY <2>1, <3>2 DEF Speech
    <3>3. QED
      BY <1>3, <3>1, <3>2
  <2>2. comp'.held # 0 => KnownNext(comp'.held)
    BY <1>5 DEF Keys, Asked, Known
  <2>3. QED
    BY <2>1, <2>2 DEF Asked, Known, KnownNext
<1>7. Carried'
  <2> SUFFICES ASSUME ~native'.closed
               PROVE  /\ \A i \in 1..Len(toComp') : OwnNext(toComp'[i].s) => toComp'[i].e = native'.epoch
                      /\ OwnNext(comp'.held) => comp'.connection = native'.epoch
    BY DEF Carried, Own, OwnNext, Known, KnownNext
  <2>0. ~native.closed
    BY DEF Speech
  <2>1. ASSUME NEW s \in Stamps, Known(s), OwnNext(s) PROVE native'.epoch = native.epoch /\ Own(s)
    BY <1>5, <2>1 DEF Speech
  <2>2. ASSUME NEW i \in 1..Len(toComp'), OwnNext(toComp'[i].s) PROVE toComp'[i].e = native'.epoch
    <3>0. toComp'[i].s \in Stamps /\ toComp'[i].s # 0
      BY <2>2 DEF OwnNext, KnownNext, Stamps
    <3>1. CASE i \in 1..Len(toComp) /\ toComp'[i] = toComp[i]
      <4>1. Known(toComp[i].s)
        BY <3>0, <3>1 DEF Keys, Asked
      <4>2. QED
        BY <2>0, <2>1, <2>2, <3>0, <3>1, <4>1 DEF Keys, Carried
    <3>2. CASE \E j \in 1..Len(q) : i = Len(toComp) + j /\ toComp'[i] = q[j]
      BY <3>0, <3>2 DEF Speech
    <3>3. QED
      BY <1>3, <3>1, <3>2
  <2>3. ASSUME OwnNext(comp'.held) PROVE comp'.connection = native'.epoch
    <3>0. comp.held \in Stamps /\ comp.held # 0 /\ OwnNext(comp.held)
      BY <2>3 DEF OwnNext, KnownNext, Stamps
    <3>1. Known(comp.held)
      BY <3>0 DEF Keys, Asked
    <3>2. QED
      BY <2>0, <2>1, <3>0, <3>1 DEF Keys, Carried
  <2>4. QED
    BY <2>2, <2>3
<1>8. Lifting'
  <2> SUFFICES ASSUME ~comp.lost
               PROVE  /\ \A i \in 1..Len(toComp') : toComp'[i].to = "down" /\ OwnNext(toComp'[i].s)
                                                      /\ ForeignNext(toComp'[i].s)
                           => Frees(toComp', i + 1, toComp'[i].e)
                      /\ OwnNext(comp.held) /\ ForeignNext(comp.held) => Frees(toComp', 1, comp.connection)
    BY DEF Lifting, Own, OwnNext, Known, KnownNext, Foreign, ForeignNext
  <2>1. ASSUME NEW s \in Stamps, Known(s), OwnNext(s), ForeignNext(s)
        PROVE  Own(s) /\ (Foreign(s) \/ (~native.closed /\ Frees(q, 1, native.epoch)))
    BY <1>5, <2>1 DEF Speech
  <2>2. ASSUME NEW i \in 1..Len(toComp'), toComp'[i].to = "down", OwnNext(toComp'[i].s),
               ForeignNext(toComp'[i].s)
        PROVE  Frees(toComp', i + 1, toComp'[i].e)
    <3>0. toComp'[i].s \in Stamps /\ toComp'[i].s # 0
      BY <2>2 DEF OwnNext, KnownNext, Stamps
    <3>1. CASE i \in 1..Len(toComp) /\ toComp'[i] = toComp[i]
      <4>1. Known(toComp[i].s)
        BY <3>0, <3>1 DEF Keys, Asked
      <4>2. Own(toComp[i].s) /\ (Foreign(toComp[i].s) \/ (~native.closed /\ Frees(q, 1, native.epoch)))
        BY <2>1, <2>2, <3>0, <3>1, <4>1
      <4>3. Frees(toComp, i + 1, toComp[i].e) \/ Frees(q, 1, toComp[i].e)
        BY <2>2, <3>1, <4>2 DEF Keys, Lifting, Carried
      <4>4. i + 1 \in Nat /\ i + 1 >= 1 /\ i + 1 <= Len(toComp) + 1
        BY <1>1, <3>1
      <4>5. QED
        BY <1>4, <3>1, <4>3, <4>4
    <3>2. CASE \E j \in 1..Len(q) : i = Len(toComp) + j /\ toComp'[i] = q[j]
      BY <2>2, <3>0, <3>2 DEF Speech
    <3>3. QED
      BY <1>3, <3>1, <3>2
  <2>3. ASSUME OwnNext(comp.held), ForeignNext(comp.held) PROVE Frees(toComp', 1, comp.connection)
    <3>0. comp.held \in Stamps /\ comp.held # 0
      BY <2>3 DEF OwnNext, KnownNext, Stamps
    <3>1. Known(comp.held)
      BY <3>0 DEF Keys, Asked
    <3>2. Own(comp.held) /\ (Foreign(comp.held) \/ (~native.closed /\ Frees(q, 1, native.epoch)))
      BY <2>1, <2>3, <3>0, <3>1
    <3>3. Frees(toComp, 1, comp.connection) \/ Frees(q, 1, comp.connection)
      BY <3>2 DEF Keys, Lifting, Carried
    <3>4. PICK i \in Nat : i = 1 /\ i >= 1 /\ i <= Len(toComp) + 1
      BY <1>1
    <3>5. PICK e : e = comp.connection
      OBVIOUS
    <3>6. Frees(toComp', i, e)
      BY <1>4, <3>3, <3>4, <3>5
    <3>7. QED
      BY <3>4, <3>5, <3>6
  <2>4. QED
    BY <2>2, <2>3
<1>9. Ending'
  BY DEF Keys, Ending
<1>10. QED
  BY <1>6, <1>7, <1>8, <1>9 DEF Keys

\* Lines that are no request's
Mute(q) == \A i \in 1..Len(q) : q[i].s = 0

\* A command is no request's, and a barrier or a text of the clipboard is none either.
LEMMA MuteOne ==
  ASSUME NativeOK, NEW to \in Told, NEW n \in Nat
  PROVE  /\ <<Command(to, n)>> \in Seq(Lines) /\ Mute(<<Command(to, n)>>)
         /\ \A gen : Mute(<<Input(to, gen, n, 0)>>)
         /\ to = "release" => Frees(<<Command(to, n)>>, 1, native.epoch)
<1>1. <<Command(to, n)>> \in Seq(Lines)
  BY CommandOK
<1>2. Mute(<<Command(to, n)>>) /\ \A gen : Mute(<<Input(to, gen, n, 0)>>)
  BY DEF Mute, Command, Input, Line
<1>3. ASSUME to = "release" PROVE Frees(<<Command(to, n)>>, 1, native.epoch)
  <2>1. Len(<<Command(to, n)>>) = 1 /\ <<Command(to, n)>>[1] = Command(to, n)
    OBVIOUS
  <2>2. Command(to, n).to = to /\ Command(to, n).e = native.epoch
    BY DEF Command, Line
  <2>3. QED
    BY <1>3, <2>1, <2>2 DEF Frees
<1>4. QED
  BY <1>1, <1>2, <1>3

\* The parts of what revoking sends
LEMMA Parts ==
  ASSUME NativeOK, TextOK, NEW C
  PROVE  /\ Release \in Seq(Lines) /\ Mute(Release) /\ Frees(Release, 1, native.epoch)
         /\ Cancelling(C) \in Seq(Lines) /\ Mute(Cancelling(C))
         /\ <<>> \in Seq(Lines) /\ Mute(<<>>)
<1>1. Release \in Seq(Lines) /\ Cancelling(C) \in Seq(Lines) /\ <<>> \in Seq(Lines)
  BY ReleaseOK
<1>2. Mute(Release) /\ Frees(Release, 1, native.epoch)
  BY MuteOne DEF Release, Told
<1>3. Mute(<<>>)
  BY DEF Mute
<1>4. Mute(Cancelling(C))
  <2>1. ctx.request \in Nat
    BY DEF TextOK, Texts
  <2>2. Mute(<<Command("cancel", ctx.request)>>)
    BY <2>1, MuteOne DEF Told
  <2>3. Cancelling(C) = <<Command("cancel", ctx.request)>> \/ Cancelling(C) = <<>>
    BY Zenon DEF Cancelling
  <2>4. QED
    BY <1>3, <2>2, <2>3, Zenon
<1>5. QED
  BY <1>1, <1>2, <1>3, <1>4

\* Two such parts together are such a part, and the releases of both are in it.
LEMMA Joined ==
  ASSUME NEW a \in Seq(Lines), NEW b \in Seq(Lines), Mute(a), Mute(b)
  PROVE  /\ a \o b \in Seq(Lines) /\ Mute(a \o b)
         /\ \A e : Frees(a, 1, e) \/ Frees(b, 1, e) => Frees(a \o b, 1, e)
<1>1. /\ a \o b \in Seq(Lines) /\ Len(a \o b) = Len(a) + Len(b) /\ Len(a) \in Nat /\ Len(b) \in Nat
      /\ \A i \in 1..Len(a) : (a \o b)[i] = a[i]
      /\ \A i \in 1..Len(b) : (a \o b)[Len(a) + i] = b[i]
  BY ConcatProperties, LenProperties
<1>2. Mute(a \o b)
  <2> SUFFICES ASSUME NEW i \in 1..Len(a \o b) PROVE (a \o b)[i].s = 0
    BY DEF Mute
  <2>1. CASE i <= Len(a)
    BY <1>1, <2>1 DEF Mute
  <2>2. CASE ~(i <= Len(a))
    <3>1. PICK j \in 1..Len(b) : i = Len(a) + j
      <4>1. i - Len(a) \in 1..Len(b) /\ i = Len(a) + (i - Len(a))
        BY <1>1, <2>2
      <4>2. QED
        BY <4>1
    <3>2. QED
      BY <1>1, <3>1 DEF Mute
  <2>3. QED
    BY <2>1, <2>2
<1>3. ASSUME NEW e, Frees(a, 1, e) PROVE Frees(a \o b, 1, e)
  BY <1>1, <1>3 DEF Frees
<1>4. ASSUME NEW e, Frees(b, 1, e) PROVE Frees(a \o b, 1, e)
  <2>1. PICK j \in 1..Len(b) : b[j].to = "release" /\ b[j].e = e
    BY <1>4 DEF Frees
  <2>2. Len(a) + j \in 1..Len(a \o b) /\ (a \o b)[Len(a) + j] = b[j]
    BY <1>1, <2>1
  <2>3. QED
    BY <2>1, <2>2 DEF Frees
<1>5. QED
  BY <1>1, <1>2, <1>3, <1>4

\* Nothing is sent to a desktop that is closed.
LEMMA SentWhat ==
  ASSUME LinesOK, NEW lines \in Seq(Lines)
  PROVE  /\ native.closed => Sent(lines) = toComp \o <<>>
         /\ ~native.closed => Sent(lines) = toComp \o lines
         /\ toComp \o <<>> = toComp
<1>1. toComp \o <<>> = toComp
  BY DEF LinesOK
<1>2. QED
  BY <1>1 DEF Sent

steady == <<attached, controller, native.epoch, native.closed>>

\* A step that says nothing,
LEMMA Silent ==
  ASSUME Core, Moves, LinesOK, UNCHANGED steady, toComp' = toComp
  PROVE  \E q \in Seq(Lines) : Speech(q)
<1>1. <<>> \in Seq(Lines) /\ Len(<<>>) = 0 /\ toComp' = toComp \o <<>>
  BY EmptySeq, SentWhat
<1>2. \A s \in Stamps : Known(s) /\ OwnNext(s) /\ ForeignNext(s) => Foreign(s)
  BY Grown DEF Foreign, ForeignNext, steady
<1>3. Speech(<<>>)
  BY <1>1, <1>2 DEF Speech, steady
<1>4. QED
  BY <1>1, <1>3

\* one that sends the controller's requests, or lines that are no request's,
LEMMA Telling ==
  ASSUME Core, Moves, LinesOK, UNCHANGED steady, NEW lines \in Seq(Lines), toComp' = Sent(lines),
         \A i \in 1..Len(lines) : lines[i].s # 0 =>
           Known(lines[i].s) /\ req[lines[i].s].conn = controller
          /\ lines[i].e = native.epoch
  PROVE  \E q \in Seq(Lines) : Speech(q)
<1>1. CASE native.closed
  BY <1>1, SentWhat, Silent
<1>2. CASE ~native.closed
  <2>1. toComp' = toComp \o lines
    BY <1>2, SentWhat
  <2>2. \A s \in Stamps : Known(s) => KnownNext(s) /\ req'[s].conn = req[s].conn
    BY Grown
  <2>3. \A s \in Stamps : Known(s) /\ OwnNext(s) /\ ForeignNext(s) => Foreign(s)
    BY <2>2 DEF Foreign, ForeignNext, steady
  <2>4. ASSUME NEW i \in 1..Len(lines), lines[i].s # 0
        PROVE  KnownNext(lines[i].s) /\ ~ForeignNext(lines[i].s) /\ lines[i].e = native'.epoch
    <3>1. Known(lines[i].s) /\ lines[i].s \in Stamps /\ req[lines[i].s].conn = controller
          /\ lines[i].e = native.epoch
      BY <2>4 DEF Known
    <3>2. QED
      BY <1>2, <2>2, <3>1 DEF Foreign, ForeignNext, steady
  <2>5. Speech(lines)
    BY <1>2, <2>1, <2>3, <2>4 DEF Speech, steady
  <2>6. QED
    BY <2>5
<1>3. QED
  BY <1>1, <1>2

\* one that sends a release and may pass control on, or close the desktop,
LEMMA Freeing ==
  ASSUME Core, Moves, LinesOK, NEW lines \in Seq(Lines), toComp' = Sent(lines), Mute(lines),
         Frees(lines, 1, native.epoch), native.closed => native'.closed,
         native'.closed \/ native'.epoch = native.epoch
  PROVE  \E q \in Seq(Lines) : Speech(q)
<1>1. CASE native.closed
  <2>1. <<>> \in Seq(Lines) /\ Len(<<>>) = 0 /\ toComp' = toComp \o <<>>
    BY <1>1, EmptySeq, SentWhat
  <2>2. Speech(<<>>)
    BY <1>1, <2>1 DEF Speech, Foreign, ForeignNext
  <2>3. QED
    BY <2>1, <2>2
<1>2. CASE ~native.closed
  <2>1. Speech(lines)
    BY <1>2, SentWhat DEF Speech, Mute
  <2>2. QED
    BY <2>1
<1>3. QED
  BY <1>1, <1>2

\* and one after which the viewers that were there are alone, or that leaves
\* control with one that had requests already.
LEMMA Leaving ==
  ASSUME Core, Moves, LinesOK, NEW lines \in Seq(Lines), toComp' = Sent(lines), Mute(lines),
         native'.closed = native.closed,
         native'.epoch = native.epoch \/ \A s \in Stamps : Known(s) => ~OwnNext(s),
         \A s \in Stamps : Known(s) /\ OwnNext(s) /\ ForeignNext(s) => Foreign(s)
  PROVE  \E q \in Seq(Lines) : Speech(q)
<1>1. CASE native.closed
  <2>1. <<>> \in Seq(Lines) /\ Len(<<>>) = 0 /\ toComp' = toComp \o <<>>
    BY <1>1, EmptySeq, SentWhat
  <2>2. Speech(<<>>)
    BY <1>1, <2>1 DEF Speech, Foreign, ForeignNext
  <2>3. QED
    BY <2>1, <2>2
<1>2. CASE ~native.closed
  <2>1. Speech(lines)
    BY <1>2, SentWhat DEF Speech, Mute
  <2>2. QED
    BY <2>1
<1>3. QED
  BY <1>1, <1>2

\* An operation that fails releases what its viewer holds.
LEMMA ErrorSpeaks ==
  ASSUME Ranges, Core, Moves, NEW c, Error(c) \/ Abort(c), UNCHANGED native
  PROVE  \E q \in Seq(Lines) : Speech(q)
<1>0. LinesOK /\ NativeOK /\ TextOK
  BY DEF Ranges
<1>1. toComp' = Sent(Cancelling({c}) \o Release)
  BY DEF Abort, Error, Revoke
<1>2. Cancelling({c}) \o Release \in Seq(Lines) /\ Mute(Cancelling({c}) \o Release)
      /\ Frees(Cancelling({c}) \o Release, 1, native.epoch)
  BY <1>0, Parts, Joined
<1>3. QED
  BY <1>0, <1>1, <1>2, Freeing

\* A viewer that goes
LEMMA LeaveSpeaks ==
  ASSUME Ranges, Core, Moves, NEW c, c \in attached, Leave(c)
  PROVE  \E q \in Seq(Lines) : Speech(q)
<1>0. LinesOK /\ NativeOK /\ TextOK /\ PlaceOK
  BY DEF Ranges
<1>1. PICK more \in {<<Command("detach", 0)>>, <<>>} : toComp' = Sent(Cancelling({c}) \o more)
  BY DEF Leave, Revoke
<1>2. more \in Seq(Lines) /\ Mute(more)
  <2>1. <<Command("detach", 0)>> \in Seq(Lines) /\ Mute(<<Command("detach", 0)>>)
    BY <1>0, MuteOne DEF Told
  <2>2. <<>> \in Seq(Lines) /\ Mute(<<>>)
    BY <1>0, Parts
  <2>3. QED
    BY <2>1, <2>2, Zenon
<1>3. Cancelling({c}) \o more \in Seq(Lines) /\ Mute(Cancelling({c}) \o more)
  BY <1>0, <1>2, Parts, Joined
<1>4. native'.closed = native.closed /\ (native'.epoch = native.epoch \/ attached' = {})
  BY <1>0 DEF Leave, NativeOK
<1>5. attached' = attached \ {c} /\ (controller # c => controller' = controller)
  BY DEF Leave, Without
<1>6. ASSUME NEW s \in Stamps, Known(s), OwnNext(s), ForeignNext(s) PROVE Foreign(s)
  <2>1. req'[s].conn = req[s].conn
    BY <1>6, Grown
  <2>2. req[s].conn # c
    BY <1>5, <1>6, <2>1 DEF OwnNext
  <2>3. QED
    BY <1>4, <1>5, <1>6, <2>1, <2>2 DEF Foreign, ForeignNext
<1>7. QED
  BY <1>0, <1>1, <1>3, <1>4, <1>6, Leaving DEF OwnNext

\* A viewer that attaches
LEMMA ConnectSpeaks ==
  ASSUME Ranges, Core, Moves, Connect
  PROVE  \E q \in Seq(Lines) : Speech(q)
<1>0. /\ LinesOK /\ NativeOK /\ TextOK /\ PlaceOK /\ connections \in Nat
  BY DEF Ranges, PlaceOK
<1>1. CASE attached = {}
  <2>1. PICK e \in 0..MaxConnections : e = connections + 1
    BY <1>0, Bounds DEF Connect, Admits, PlaceOK
  <2>2. toComp' = Sent(<<Line("connection", e, 0, 0, 0)>>)
    BY <1>1, <2>1 DEF Connect
  <2>3. <<Line("connection", e, 0, 0, 0)>> \in Seq(Lines)
    <3>1. 0 \in 0..MaxScenes /\ 0 \in Opt /\ "connection" \in Told
      BY Bounds DEF Opt, Told
    <3>2. QED
      BY <3>1, LineOK
  <2>4. Mute(<<Line("connection", e, 0, 0, 0)>>)
    BY DEF Mute, Line
  <2>5. native'.closed = native.closed
    BY <1>0, <1>1 DEF Connect, NativeOK
  <2>6. \A s \in Stamps : Known(s) => ~OwnNext(s)
    BY <1>1, Grown DEF Own, OwnNext
  <2>7. QED
    BY <1>0, <2>2, <2>3, <2>4, <2>5, <2>6, Leaving
<1>2. CASE attached # {}
  <2> DEFINE C == {controller} \cap attached
  <2>1. toComp' = Sent(Cancelling(C) \o Release) /\ UNCHANGED native
    BY <1>2 DEF Connect, Takeover, Revoke
  <2>2. Cancelling(C) \o Release \in Seq(Lines) /\ Mute(Cancelling(C) \o Release)
        /\ Frees(Cancelling(C) \o Release, 1, native.epoch)
    BY <1>0, Parts, Joined
  <2>3. QED
    BY <1>0, <2>1, <2>2, Freeing
<1>3. QED
  BY <1>1, <1>2

\* A viewer's steps
LEMMA ViewerSpeaks ==
  ASSUME Ranges, Core, Moves, NEW c \in Connections, ViewerStep(c)
  PROVE  \E q \in Seq(Lines) : Speech(q)
<1>0. LinesOK /\ NativeOK /\ TextOK
  BY DEF Ranges
<1>1. CASE Disconnect(c)
  BY <1>1, LeaveSpeaks DEF Disconnect
<1>2. CASE Paint(c)
  BY <1>0, <1>2, Silent DEF Paint, steady
<1>3. CASE Asking(c)
  <2>1. PICK k \in Kinds : Enqueue(c, k) \/ Overflow(c, k)
    BY <1>3 DEF Asking
  <2>2. CASE Enqueue(c, k)
    BY <1>0, <2>2, Silent DEF Enqueue, steady
  <2>3. CASE Overflow(c, k)
    BY <2>3, LeaveSpeaks DEF Overflow, Asks
  <2>4. QED
    BY <2>1, <2>2, <2>3
<1>4. CASE CloseAtOnce(c)
  <2>1. UNCHANGED steady /\ (toComp' = toComp \/ toComp' = Sent(<<Command("close", 0)>>))
    BY <1>4 DEF CloseAtOnce, steady
  <2>2. PICK lines \in Seq(Lines) : lines = <<Command("close", 0)>> /\ Mute(lines)
    BY <1>0, MuteOne DEF Told
  <2>3. CASE toComp' = Sent(lines)
    BY <1>0, <2>1, <2>2, <2>3, Telling DEF Mute
  <2>4. QED
    BY <1>0, <2>1, <2>2, <2>3, Silent
<1>5. CASE ReleaseInput(c) \/ CaptureFailed(c)
  <2>1. toComp' = Sent(Cancelling({c}) \o Release) /\ UNCHANGED native
    BY <1>5 DEF ReleaseInput, CaptureFailed, Revoke
  <2>2. Cancelling({c}) \o Release \in Seq(Lines) /\ Mute(Cancelling({c}) \o Release)
        /\ Frees(Cancelling({c}) \o Release, 1, native.epoch)
    BY <1>0, Parts, Joined
  <2>3. QED
    BY <1>0, <2>1, <2>2, Freeing
<1>6. CASE SelectWindow(c)
  <2>1. PICK known \in BOOLEAN : toComp' = Sent(Cancelling({c}) \o (Release \o Selecting(known)))
    BY <1>6 DEF SelectWindow, Revoke
  <2>2. Selecting(known) \in Seq(Lines) /\ Mute(Selecting(known))
    <3>1. <<Command("select", 0)>> \in Seq(Lines) /\ Mute(<<Command("select", 0)>>)
      BY <1>0, MuteOne DEF Told
    <3>2. Selecting(known) = <<Command("select", 0)>> \/ Selecting(known) = <<>>
      BY Zenon DEF Selecting
    <3>3. <<>> \in Seq(Lines) /\ Mute(<<>>)
      BY <1>0, Parts
    <3>4. QED
      BY <3>1, <3>2, <3>3, Zenon
  <2>3. PICK lines \in Seq(Lines) : lines = Release \o Selecting(known) /\ Mute(lines)
                                     /\ Frees(lines, 1, native.epoch)
    <3>1. Release \in Seq(Lines) /\ Mute(Release) /\ Frees(Release, 1, native.epoch)
      BY <1>0, Parts
    <3>2. QED
      BY <2>2, <3>1, Joined
  <2>4. Cancelling({c}) \o lines \in Seq(Lines) /\ Mute(Cancelling({c}) \o lines)
        /\ Frees(Cancelling({c}) \o lines, 1, native.epoch)
    BY <1>0, <2>3, Parts, Joined
  <2>5. UNCHANGED native
    BY <1>6 DEF SelectWindow
  <2>6. QED
    BY <1>0, <2>1, <2>3, <2>4, <2>5, Freeing
<1>7. CASE Terminate(c)
  <2>1. toComp' = Sent(Cancelling({c}) \o Release) /\ native'.closed
    BY <1>7 DEF Terminate, Fall
  <2>2. Cancelling({c}) \o Release \in Seq(Lines) /\ Mute(Cancelling({c}) \o Release)
        /\ Frees(Cancelling({c}) \o Release, 1, native.epoch)
    BY <1>0, Parts, Joined
  <2>3. QED
    BY <1>0, <2>1, <2>2, Freeing
<1>8. QED
  BY <1>1, <1>2, <1>3, <1>4, <1>5, <1>6, <1>7 DEF ViewerStep

\* A turn of a queue
LEMMA DrainSpeaks ==
  ASSUME Ranges, Core, Moves, NEW c \in Connections, Drain(c) \/ Expire(c)
  PROVE  \E q \in Seq(Lines) : Speech(q)
<1>0. LinesOK /\ NativeOK /\ TextOK /\ UNCHANGED steady /\ UNCHANGED native
  BY DEF Ranges, Drain, Expire, DrainClose, DrainKey, DrainMarker, DrainWayland, DrainNoContext, DrainClip,
         drained, steady
<1>a. Abort(c) => \E q \in Seq(Lines) : Speech(q)
  BY <1>0, ErrorSpeaks
<1>b. 0 \in Opt /\ Codes \subseteq Nat
  BY Bounds DEF Opt, Codes
<1>c. ASSUME Turn(c)
      PROVE  Known(Op(c)) /\ req[Op(c)].conn = controller /\ Op(c) \in Opt
  <2>1. c \in attached
    BY <1>c, TurnTypes
  <2>2. QED
    BY <1>c, <2>1, TurnFacts DEF Known, Opt
<1>1. CASE Expire(c)
  BY <1>1, <1>a DEF Expire
<1>2. CASE DrainClose(c)
  <2>1. Abort(c) \/ toComp' = Sent(<<Command("close", 0)>>)
    BY <1>2 DEF DrainClose
  <2>2. PICK lines \in Seq(Lines) : lines = <<Command("close", 0)>> /\ Mute(lines)
    BY <1>0, MuteOne DEF Told
  <2>3. CASE toComp' = Sent(lines)
    BY <1>0, <2>2, <2>3, Telling DEF Mute
  <2>4. QED
    BY <1>a, <2>1, <2>2, <2>3
<1>3. CASE DrainKey(c)
  <2>1. CASE Admitted(c)
    <3>1. PICK to \in Told : to = KindOf(c)
      BY <1>3, <2>1 DEF DrainKey, Told
    <3>2. PICK s \in Opt : s = Op(c) /\ Known(s) /\ req[s].conn = controller
      BY <1>3, <1>c DEF DrainKey
    <3>3. toComp' = Sent(<<Input(to, native.target, 0, s)>>)
      BY <1>3, <2>1, <3>1, <3>2 DEF DrainKey, Deliver
    <3>4. PICK lines \in Seq(Lines) : lines = <<Input(to, native.target, 0, s)>>
      BY <1>0, InputOK
    <3>5. \A i \in 1..Len(lines) : lines[i].s = s /\ lines[i].e = native.epoch
      BY <3>4 DEF Input, Line
    <3>6. QED
      BY <1>0, <3>2, <3>3, <3>4, <3>5, Telling
  <2>2. CASE ~Admitted(c)
    BY <1>0, <1>3, <2>2, Silent DEF DrainKey
  <2>3. QED
    BY <2>1, <2>2
<1>4. CASE DrainMarker(c)
  <2>1. PICK k \in Nat : k = FirstFree
    BY <1>4, <1>b, FirstFreeIn, OpTypes DEF DrainMarker
  <2>2. PICK s \in Opt : s = Op(c) /\ Known(s) /\ req[s].conn = controller
    BY <1>4, <1>c DEF DrainMarker
  <2>3. toComp' = Sent(<<Input("press", native.target, k, s), Input("lift", native.target, k, 0)>>)
    BY <1>4, <2>1, <2>2 DEF DrainMarker
  <2>4. Input("press", native.target, k, s) \in Lines /\ Input("lift", native.target, k, 0) \in Lines
    BY <1>0, <1>b, InputOK DEF Told
  <2>5. PICK lines \in Seq(Lines) :
          lines = <<Input("press", native.target, k, s), Input("lift", native.target, k, 0)>>
    <3>1. <<Input("press", native.target, k, s), Input("lift", native.target, k, 0)>> \in Seq(Lines)
      BY <2>4
    <3>2. QED
      BY <3>1
  <2>6. /\ Input("press", native.target, k, s).s = s /\ Input("press", native.target, k, s).e = native.epoch
        /\ Input("lift", native.target, k, 0).s = 0
    BY DEF Input, Line
  <2>7. \A i \in 1..Len(lines) : lines[i].s # 0 => lines[i].s = s /\ lines[i].e = native.epoch
    BY <2>5, <2>6
  <2>8. QED
    BY <1>0, <2>2, <2>3, <2>5, <2>7, Telling
<1>5. CASE DrainWayland(c)
  <2>1. PICK n \in Nat : n = ctx.requests + 1
    BY OpTypes
  <2>2. toComp' = Sent(<<Input("barrier", native.target, n, 0)>>)
    <3>1. ctx'.request = n
      BY <1>5, <2>1, OpTypes DEF DrainWayland, TextOperation, Texts
    <3>2. QED
      BY <1>5, <3>1 DEF DrainWayland
  <2>3. PICK lines \in Seq(Lines) : lines = <<Input("barrier", native.target, n, 0)>>
    BY <1>0, <1>b, InputOK DEF Told
  <2>4. Mute(lines)
    BY <1>0, <2>3, MuteOne DEF Told
  <2>5. QED
    BY <1>0, <2>2, <2>3, <2>4, Telling DEF Mute
<1>6. CASE DrainNoContext(c)
  BY <1>6, <1>a DEF DrainNoContext
<1>7. CASE DrainClip(c)
  <2>1. CASE Abort(c)
    BY <1>a, <2>1
  <2>2. CASE ~Abort(c)
    <3>1. PICK n \in Nat : n = clip.seq + 1
      BY OpTypes
    <3>2. toComp' = Sent(<<Input("clip", native.target, n, 0)>>)
      <4>1. clip'.seq = n
        BY <1>7, <2>2, <3>1 DEF DrainClip
      <4>2. QED
        BY <1>7, <2>2, <4>1 DEF DrainClip
    <3>3. PICK lines \in Seq(Lines) : lines = <<Input("clip", native.target, n, 0)>>
      BY <1>0, <1>b, InputOK DEF Told
    <3>4. Mute(lines)
      BY <1>0, <3>3, MuteOne DEF Told
    <3>5. QED
      BY <1>0, <3>2, <3>3, <3>4, Telling DEF Mute
  <2>3. QED
    BY <2>1, <2>2
<1>8. QED
  BY <1>1, <1>2, <1>3, <1>4, <1>5, <1>6, <1>7 DEF Drain

\* What the records make the helper send
LEMMA RecordSpeaks ==
  ASSUME Ranges, Core, Moves, Keys, RecordStep
  PROVE  \E q \in Seq(Lines) : Speech(q)
<1>0. LinesOK /\ NativeOK /\ TextOK /\ RecordsOK
  BY DEF Ranges
<1>1. CASE ReadScene
  <2>1. \/ toComp' = Sent(Cancelling(attached) \o Release)
        \/ toComp' = Sent(Cancelling(attached) \o <<>>)
    BY <1>1, Zenon DEF ReadScene, Changed, Revoke
  <2>2. UNCHANGED steady
    BY <1>0, <1>1 DEF ReadScene, heard, steady, NativeOK
  <2>3. CASE toComp' = Sent(Cancelling(attached) \o Release)
    <3>1. PICK q \in Seq(Lines) : /\ q = Cancelling(attached) \o Release
                                  /\ Mute(q) /\ Frees(q, 1, native.epoch)
      BY <1>0, Parts, Joined
    <3>2. (native.closed => native'.closed) /\ native'.epoch = native.epoch
      BY <2>2 DEF steady
    <3>3. QED
      BY <1>0, <2>3, <3>1, <3>2, Freeing
  <2>4. CASE toComp' = Sent(Cancelling(attached) \o <<>>)
    <3>1. PICK q \in Seq(Lines) : q = Cancelling(attached) \o <<>> /\ Mute(q)
      BY <1>0, Parts, Joined
    <3>2. QED
      BY <1>0, <2>2, <2>4, <3>1, Telling DEF Mute
  <2>5. QED
    BY <2>1, <2>3, <2>4
<1>2. CASE ReadTextReply
  <2>0. UNCHANGED steady /\ UNCHANGED native
    BY <1>2 DEF ReadTextReply, heard, steady
  <2>1. \/ Abort(Holder(ctx.op))
        \/ \E stage \in {"text", "after"} :
             /\ ctx' = TextOperation(stage)
             /\ toComp' = Sent(<<Input(IF stage = "text" THEN "text" ELSE "barrier",
                                       native.target, ctx'.request, ctx.op)>>)
        \/ UNCHANGED toComp
    BY <1>2 DEF ReadTextReply
  <2>2. CASE Abort(Holder(ctx.op))
    BY <2>0, <2>2, ErrorSpeaks
  <2>3. ASSUME NEW stage \in {"text", "after"}, ctx' = TextOperation(stage),
               toComp' = Sent(<<Input(IF stage = "text" THEN "text" ELSE "barrier",
                                      native.target, ctx'.request, ctx.op)>>)
        PROVE  \E q \in Seq(Lines) : Speech(q)
    <3>1. PICK n \in Nat : n = ctx.requests + 1
      BY OpTypes
    <3>2. ctx'.request = n
      BY <2>3, <3>1, OpTypes DEF TextOperation, Texts
    <3>3. PICK to \in Told : to = IF stage = "text" THEN "text" ELSE "barrier"
      BY DEF Told
    <3>4. PICK s \in Opt : s = ctx.op
      BY OpTypes
    <3>5. PICK lines \in Seq(Lines) : lines = <<Input(to, native.target, n, s)>>
      BY <1>0, InputOK
    <3>6. toComp' = Sent(lines)
      BY <2>3, <3>2, <3>3, <3>4, <3>5
    <3>7. \A i \in 1..Len(lines) : lines[i].s = s /\ lines[i].e = native.epoch
      BY <3>5 DEF Input, Line
    <3>8. s # 0 => Known(s) /\ req[s].conn = controller
      <4> SUFFICES ASSUME s # 0 PROVE Known(s) /\ req[s].conn = controller
        OBVIOUS
      <4>1. PICK c \in Connections : view[c].pending = s
        BY <3>4, Held DEF Core
      <4>2. c = controller
        BY <4>1 DEF Core, Grounds, Sole, Busy
      <4>3. req[s].status = "issued" /\ req[s].conn = c
        BY <4>1 DEF Core, Placed
      <4>4. QED
        BY <4>2, <4>3 DEF Known, Opt
    <3>9. QED
      BY <1>0, <2>0, <3>6, <3>7, <3>8, Telling
  <2>4. QED
    BY <1>0, <2>0, <2>1, <2>2, <2>3, Silent
<1>3. CASE ReadClip
  <2>1. UNCHANGED steady /\ UNCHANGED native /\ (UNCHANGED toComp \/ Abort(Holder(clip.op)))
    BY <1>3 DEF ReadClip, heard, steady
  <2>2. QED
    BY <1>0, <2>1, ErrorSpeaks, Silent
<1>4. CASE ReadLate
  BY <1>0, <1>4, Silent DEF ReadLate, heard, steady
<1>5. CASE ReadLost
  <2>1. toComp' = Sent(<<>>) /\ native'.closed /\ toHelper # <<>> /\ toHelper[1].rec = "lost"
    BY <1>5 DEF ReadLost, Fall, Read
  <2>2. comp.lost
    <3> SUFFICES ASSUME ~comp.lost PROVE FALSE
      OBVIOUS
    <3>1. toHelper \in Seq(Plain)
      BY DEF Keys, Ending
    <3>2. toHelper[1] \in Plain
      BY <2>1, <3>1, HeadTailProperties, LenProperties, EmptySeq
    <3>3. QED
      BY <2>1, <3>2 DEF Plain
  <2>3. <<>> \in Seq(Lines) /\ Len(<<>>) = 0 /\ toComp' = toComp \o <<>>
    BY <1>0, <2>1, EmptySeq, SentWhat
  <2>4. Speech(<<>>)
    BY <2>1, <2>2, <2>3 DEF Speech
  <2>5. QED
    BY <2>3, <2>4
<1>6. QED
  BY <1>1, <1>2, <1>3, <1>4, <1>5 DEF RecordStep

\* What the calls of the application make it send
LEMMA BusSpeaks ==
  ASSUME Ranges, Core, Moves, BusStep
  PROVE  \E q \in Seq(Lines) : Speech(q)
<1>1. LinesOK /\ UNCHANGED native /\ UNCHANGED steady
  BY DEF Ranges, BusStep, Take, Released, Done, FailedCall, Unregister, quiet, steady
<1>2. UNCHANGED toComp \/ Error(Holder(ctx.op)) \/ Abort(Holder(ctx.op))
  BY DEF BusStep, Take, Released, Done, FailedCall, Unregister, Complete
<1>3. QED
  BY <1>1, <1>2, ErrorSpeaks, Silent

\* What the helper does keeps the keys in order.
LEMMA HelperKeys ==
  ASSUME Ranges, Core, Moves, Keys, NEW c \in Connections,
         Connect \/ RecordStep \/ BusStep \/ ViewerStep(c) \/ Drain(c) \/ Expire(c)
  PROVE  Keys'
<1>1. PICK q \in Seq(Lines) : Speech(q)
  BY ConnectSpeaks, RecordSpeaks, BusSpeaks, ViewerSpeaks, DrainSpeaks
<1>2. UNCHANGED comp
      /\ (toHelper' = toHelper \/ toHelper' = <<>> \/ (toHelper # <<>> /\ toHelper' = Tail(toHelper)))
  <2>1. CASE Connect
    BY <2>1 DEF Connect, outside
  <2>2. CASE RecordStep
    BY <2>2 DEF RecordStep, ReadScene, ReadTextReply, ReadClip, ReadLate, ReadLost, Answers, Read, heard
  <2>3. CASE BusStep
    BY <2>3 DEF BusStep, Take, Released, Done, FailedCall, Unregister, quiet
  <2>4. CASE ViewerStep(c)
    BY <2>4 DEF ViewerStep, Disconnect, Paint, Asking, Enqueue, Overflow, CloseAtOnce, ReleaseInput,
                SelectWindow, CaptureFailed, Terminate, unasked, outside
  <2>5. CASE Drain(c) \/ Expire(c)
    BY <2>5 DEF Drain, Expire, DrainClose, DrainKey, DrainMarker, DrainWayland, DrainNoContext, DrainClip,
                drained, unasked, outside
  <2>6. QED
    BY <2>1, <2>2, <2>3, <2>4, <2>5
<1>3. ~comp.lost => toHelper' \in Seq(Plain)
  BY <1>2, HeadTailProperties, EmptySeq DEF Keys, Ending
<1>4. QED
  BY <1>1, <1>2, <1>3, SpeechKeeps DEF Ranges

\* What the compositor's steps do to what it holds: it lets go, it goes on, with
\* a line that is no release that it accepts, or it presses a key.
LetsGo == comp'.held = 0
GoesOn == /\ comp'.held = comp.held /\ comp'.connection = comp.connection /\ comp'.lost = comp.lost
          /\ toComp' = toComp \/ ~(toComp[1].to = "release" /\ toComp[1].e = comp.connection)
Presses == /\ toComp # <<>> /\ toComp' = Tail(toComp) /\ toComp[1].to = "down"
           /\ ~comp.lost /\ ~comp'.lost
           /\ toComp[1].e = comp.connection /\ comp'.connection = comp.connection /\ comp.connection # 0
           /\ comp'.held = toComp[1].s
Holding == /\ LetsGo \/ GoesOn \/ Presses
           /\ \/ toComp' = toComp
              \/ toComp # <<>> /\ toComp' = Tail(toComp)
              \/ toComp' = <<>> /\ LetsGo
           /\ ~comp'.lost => ~comp.lost /\ toHelper' \in Seq(Plain)

\* Then the keys stay in order.
LEMMA HoldingKeeps ==
  ASSUME Ranges, Keys, Holding, UNCHANGED <<attached, controller, native, req>>
  PROVE  Keys'
<1>0. toComp \in Seq(Lines) /\ 0 \notin Stamps
  BY DEF Ranges, LinesOK, Stamps
<1>1. \A s : (KnownNext(s) <=> Known(s)) /\ (OwnNext(s) <=> Own(s)) /\ (ForeignNext(s) <=> Foreign(s))
  BY DEF Known, Own, Foreign, KnownNext, OwnNext, ForeignNext
<1>2. ASSUME NEW i \in 1..Len(toComp')
      PROVE  \E j \in 1..Len(toComp) :
               /\ toComp'[i] = toComp[j]
               /\ \A e : Frees(toComp, j + 1, e) => Frees(toComp', i + 1, e)
  <2>1. CASE toComp' = toComp
    BY <1>2, <2>1
  <2>2. CASE toComp' = <<>>
    BY <1>2, <2>2, EmptySeq
  <2>3. CASE toComp # <<>> /\ toComp' = Tail(toComp)
    <3>1. /\ Len(toComp') = Len(toComp) - 1 /\ Len(toComp) \in Nat
          /\ \A k \in 1..Len(toComp') : toComp'[k] = toComp[k + 1]
      BY <1>0, <2>3, HeadTailProperties, LenProperties, EmptySeq
    <3>2. i + 1 \in 1..Len(toComp) /\ toComp'[i] = toComp[i + 1]
      BY <1>2, <3>1
    <3>3. ASSUME NEW e, Frees(toComp, (i + 1) + 1, e) PROVE Frees(toComp', i + 1, e)
      <4>1. PICK k \in ((i + 1) + 1)..Len(toComp) : toComp[k].to = "release" /\ toComp[k].e = e
        BY <3>3 DEF Frees
      <4>2. k - 1 \in (i + 1)..Len(toComp') /\ k - 1 \in 1..Len(toComp') /\ (k - 1) + 1 = k
        BY <1>2, <3>1, <4>1
      <4>3. toComp'[k - 1] = toComp[k]
        BY <3>1, <4>2
      <4>4. QED
        BY <4>1, <4>2, <4>3 DEF Frees
    <3>4. QED
      BY <3>2, <3>3
  <2>4. QED
    BY <2>1, <2>2, <2>3 DEF Holding
<1>3. ASSUME Presses PROVE 1 \in 1..Len(toComp) /\ \A e : Frees(toComp, 2, e) => Frees(toComp', 1, e)
  <2>1. /\ Len(toComp') = Len(toComp) - 1 /\ Len(toComp) \in Nat /\ Len(toComp) > 0
        /\ \A k \in 1..Len(toComp') : toComp'[k] = toComp[k + 1]
    BY <1>0, <1>3, HeadTailProperties, LenProperties, EmptySeq DEF Presses
  <2>2. ASSUME NEW e, Frees(toComp, 2, e) PROVE Frees(toComp', 1, e)
    <3>1. PICK k \in 2..Len(toComp) : toComp[k].to = "release" /\ toComp[k].e = e
      BY <2>2 DEF Frees
    <3>2. k - 1 \in 1..Len(toComp') /\ (k - 1) + 1 = k
      BY <2>1, <3>1
    <3>3. QED
      BY <2>1, <3>1, <3>2 DEF Frees
  <2>3. QED
    BY <2>1, <2>2
<1>4. ASSUME GoesOn, Frees(toComp, 1, comp.connection), ~LetsGo
      PROVE  Frees(toComp', 1, comp.connection)
  <2>1. CASE toComp' = toComp
    BY <1>4, <2>1
  <2>2. CASE toComp' # toComp
    <3>1. toComp # <<>> /\ toComp' = Tail(toComp)
      BY <1>4, <2>2 DEF Holding
    <3>2. /\ Len(toComp') = Len(toComp) - 1 /\ Len(toComp) \in Nat
          /\ \A k \in 1..Len(toComp') : toComp'[k] = toComp[k + 1]
      BY <1>0, <3>1, HeadTailProperties, LenProperties, EmptySeq
    <3>3. PICK k \in 1..Len(toComp) : toComp[k].to = "release" /\ toComp[k].e = comp.connection
      BY <1>4 DEF Frees
    <3>4. k # 1
      BY <1>4, <2>2, <3>3 DEF GoesOn
    <3>5. k - 1 \in 1..Len(toComp') /\ (k - 1) + 1 = k
      BY <3>2, <3>3, <3>4
    <3>6. QED
      BY <3>2, <3>3, <3>5 DEF Frees
  <2>3. QED
    BY <2>1, <2>2
<1>5. Asked'
  <2>1. ASSUME NEW i \in 1..Len(toComp'), toComp'[i].s # 0 PROVE KnownNext(toComp'[i].s)
    BY <1>1, <1>2, <2>1 DEF Keys, Asked
  <2>2. comp'.held # 0 => KnownNext(comp'.held)
    <3>1. CASE LetsGo
      BY <3>1 DEF LetsGo
    <3>2. CASE GoesOn
      BY <1>1, <3>2 DEF GoesOn, Keys, Asked
    <3>3. CASE Presses
      BY <1>1, <1>3, <3>3 DEF Presses, Keys, Asked
    <3>4. QED
      BY <3>1, <3>2, <3>3 DEF Holding
  <2>3. QED
    BY <2>1, <2>2 DEF Asked, Known, KnownNext
<1>6. Carried'
  <2> SUFFICES ASSUME ~native.closed
               PROVE  /\ \A i \in 1..Len(toComp') : Own(toComp'[i].s) => toComp'[i].e = native.epoch
                      /\ Own(comp'.held) => comp'.connection = native.epoch
    BY <1>1 DEF Carried, Own, OwnNext, Known, KnownNext
  <2>1. ASSUME NEW i \in 1..Len(toComp'), Own(toComp'[i].s) PROVE toComp'[i].e = native.epoch
    BY <1>2, <2>1 DEF Keys, Carried
  <2>2. ASSUME Own(comp'.held) PROVE comp'.connection = native.epoch
    <3>0. ~LetsGo
      BY <1>0, <2>2 DEF LetsGo, Own, Known
    <3>1. CASE GoesOn
      BY <2>2, <3>1 DEF GoesOn, Keys, Carried
    <3>2. CASE Presses
      BY <1>3, <2>2, <3>2 DEF Presses, Keys, Carried
    <3>3. QED
      BY <3>0, <3>1, <3>2 DEF Holding
  <2>3. QED
    BY <2>1, <2>2
<1>7. Lifting'
  <2> SUFFICES ASSUME ~comp'.lost
               PROVE  /\ \A i \in 1..Len(toComp') : toComp'[i].to = "down" /\ Own(toComp'[i].s)
                                                      /\ Foreign(toComp'[i].s)
                           => Frees(toComp', i + 1, toComp'[i].e)
                      /\ Own(comp'.held) /\ Foreign(comp'.held) => Frees(toComp', 1, comp'.connection)
    BY <1>1 DEF Lifting, Own, OwnNext, Known, KnownNext, Foreign, ForeignNext
  <2>0. ~comp.lost
    BY DEF Holding
  <2>1. ASSUME NEW i \in 1..Len(toComp'), toComp'[i].to = "down", Own(toComp'[i].s), Foreign(toComp'[i].s)
        PROVE  Frees(toComp', i + 1, toComp'[i].e)
    BY <1>2, <2>0, <2>1 DEF Keys, Lifting
  <2>2. ASSUME Own(comp'.held), Foreign(comp'.held) PROVE Frees(toComp', 1, comp'.connection)
    <3>0. ~LetsGo
      BY <1>0, <2>2 DEF LetsGo, Own, Known
    <3>1. CASE GoesOn
      <4>1. comp'.held = comp.held /\ comp'.connection = comp.connection
        BY <3>1 DEF GoesOn
      <4>2. Frees(toComp, 1, comp.connection)
        BY <2>0, <2>2, <4>1 DEF Keys, Lifting
      <4>3. QED
        BY <1>4, <3>0, <3>1, <4>1, <4>2
    <3>2. CASE Presses
      <4>1. comp'.held = toComp[1].s /\ comp'.connection = toComp[1].e /\ toComp[1].to = "down"
        BY <3>2 DEF Presses
      <4>2. Frees(toComp, 1 + 1, toComp[1].e)
        BY <1>3, <2>0, <2>2, <3>2, <4>1 DEF Keys, Lifting
      <4>3. QED
        BY <1>3, <3>2, <4>1, <4>2
    <3>3. QED
      BY <3>0, <3>1, <3>2 DEF Holding
  <2>3. QED
    BY <2>1, <2>2
<1>8. Ending'
  <2>1. ~comp'.lost => toHelper' \in Seq(Plain)
    BY DEF Holding
  <2>2. comp'.lost => comp'.held = 0
    BY DEF Holding, LetsGo, GoesOn, Presses, Keys, Ending
  <2>3. comp'.held # 0 => comp'.connection # 0
    BY DEF Holding, LetsGo, GoesOn, Presses, Keys, Ending
  <2>4. QED
    BY <2>1, <2>2, <2>3 DEF Ending, Plain
<1>9. QED
  BY <1>5, <1>6, <1>7, <1>8 DEF Keys

\* The compositor says that it is lost in its last record alone.
LEMMA PlainOK ==
  ASSUME NEW rec \in {"scene", "barrier", "text", "clip"}, NEW n \in Nat, NEW ok \in BOOLEAN,
         rec = "scene" => n <= MaxScenes
  PROVE  <<Record(rec, n, ok)>> \in Seq(Plain)
<1>1. Record(rec, n, ok) \in Plain
  BY RecordOK DEF Plain, Record
<1>2. QED
  BY <1>1, OneIn

\* The record of a barrier that is cancelled says nothing of a lost compositor.
LEMMA PlainBarrier ==
  ASSUME CompOK
  PROVE  BarrierCancelled \in Seq(Plain) /\ <<>> \in Seq(Plain)
<1>1. <<>> \in Seq(Plain)
  BY EmptySeq
<1>2. PICK n \in Nat : n = comp.barrier
  BY DEF CompOK, Comps
<1>3. <<Record("barrier", n, FALSE)>> \in Seq(Plain)
  BY PlainOK
<1>4. BarrierCancelled = <<Record("barrier", n, FALSE)>> \/ BarrierCancelled = <<>>
  BY <1>2, Zenon DEF BarrierCancelled
<1>5. QED
  BY <1>1, <1>3, <1>4, Zenon

\* A step that does not lose the connection, in those terms
LEMMA EmitsHolding ==
  ASSUME Keys, NEW k, NEW events, NEW records \in Seq(Plain), Emits(k, events, records), k.lost = comp.lost,
         toComp' = toComp \/ (toComp # <<>> /\ toComp' = Tail(toComp)),
         \/ k.held = 0
         \/ /\ k.held = comp.held /\ k.connection = comp.connection
            /\ toComp' = toComp \/ ~(toComp[1].to = "release" /\ toComp[1].e = comp.connection)
         \/ /\ toComp # <<>> /\ toComp' = Tail(toComp) /\ toComp[1].to = "down" /\ ~comp.lost
            /\ toComp[1].e = comp.connection /\ k.connection = comp.connection /\ comp.connection # 0
            /\ k.held = toComp[1].s
  PROVE  Holding
<1>1. comp' = k /\ toHelper' = Heard(records)
  BY DEF Emits
<1>2. ~comp.lost => toHelper' \in Seq(Plain)
  BY <1>1, ConcatProperties DEF Heard, Keys, Ending
<1>3. LetsGo \/ GoesOn \/ Presses
  BY <1>1 DEF LetsGo, GoesOn, Presses
<1>4. QED
  BY <1>1, <1>2, <1>3 DEF Holding

\* A new scene lets go of the key.
LEMMA SceneHolding ==
  ASSUME CompOK, Keys, NEW live \in BOOLEAN, NewScene(live),
         toComp' = toComp \/ (toComp # <<>> /\ toComp' = Tail(toComp))
  PROVE  Holding
<1>1. PICK n \in Nat : n = comp.scene + 1 /\ n <= MaxScenes
  BY Bounds DEF NewScene, CompOK, Comps
<1>2. PICK a \in Seq(Plain) : a = BarrierCancelled
  BY PlainBarrier
<1>3. <<Record("scene", n, live)>> \in Seq(Plain)
  BY <1>1, PlainOK
<1>4. a \o <<Record("scene", n, live)>> \in Seq(Plain)
  BY <1>3, ConcatProperties
<1>5. PICK k : k = [Empty(comp) EXCEPT !.scene = n, !.live = live] /\ k.held = 0 /\ k.lost = comp.lost
  <2>1. Empty(comp) \in Comps /\ Empty(comp).held = 0 /\ Empty(comp).lost = comp.lost /\ n \in 1..MaxScenes
    BY <1>1, EmptyOK DEF CompOK, Comps
  <2>2. /\ [Empty(comp) EXCEPT !.scene = n, !.live = live].held = 0
        /\ [Empty(comp) EXCEPT !.scene = n, !.live = live].lost = comp.lost
    BY <2>1 DEF Comps
  <2>3. QED
    BY <2>2
<1>6. Emits(k, Lifts, a \o <<Record("scene", n, live)>>)
  <2>1. Empty(comp).scene = comp.scene
    BY EmptyOK
  <2>2. QED
    BY <1>1, <1>2, <1>5, <2>1 DEF NewScene
<1>7. QED
  BY <1>4, <1>5, <1>6, EmitsHolding

\* Every step of the compositor is of that kind.
LEMMA CompHolding ==
  ASSUME Ranges, Keys, CompStep
  PROVE  Holding
<1>0. CompOK /\ RecordsOK /\ LinesOK /\ comp \in Comps /\ comp.lost \in BOOLEAN
  BY DEF Ranges, CompOK, Comps
<1>n. <<>> \in Seq(Plain) /\ BarrierCancelled \in Seq(Plain)
  BY <1>0, PlainBarrier
<1>1. CASE CompConnection
  <2>1. PICK e : e = toComp[1].e
    OBVIOUS
  <2>2. PICK k : k = [Empty(comp) EXCEPT !.connection = e] /\ k.held = 0 /\ k.lost = comp.lost
    <3>1. /\ [Empty(comp) EXCEPT !.connection = e].held = 0
          /\ [Empty(comp) EXCEPT !.connection = e].lost = comp.lost
      BY <1>0, EmptyOK DEF Comps
    <3>2. QED
      BY <3>1
  <2>3. Emits(k, Lifts, BarrierCancelled) /\ toComp # <<>> /\ toComp' = Tail(toComp)
    BY <1>1, <2>1, <2>2 DEF CompConnection, Gets
  <2>4. QED
    BY <1>n, <2>2, <2>3, EmitsHolding
<1>2. CASE CompDetach
  <2>1. PICK k : k = [Empty(comp) EXCEPT !.connection = 0] /\ k.held = 0 /\ k.lost = comp.lost
    <3>1. /\ [Empty(comp) EXCEPT !.connection = 0].held = 0
          /\ [Empty(comp) EXCEPT !.connection = 0].lost = comp.lost
      BY <1>0, EmptyOK DEF Comps
    <3>2. QED
      BY <3>1
  <2>2. Emits(k, Lifts, BarrierCancelled) /\ toComp # <<>> /\ toComp' = Tail(toComp)
    BY <1>2, <2>1 DEF CompDetach, Accepts, Gets
  <2>3. QED
    BY <1>n, <2>1, <2>2, EmitsHolding
<1>3. CASE CompRelease
  <2>1. Emits(Empty(comp), Lifts, BarrierCancelled) /\ toComp # <<>> /\ toComp' = Tail(toComp)
    BY <1>3 DEF CompRelease, Accepts, Gets
  <2>2. QED
    BY <1>0, <1>n, <2>1, EmptyOK, EmitsHolding
<1>4. CASE CompCancel
  <2>1. PICK k : /\ Emits(k, <<>>, <<>>) /\ k.held = comp.held /\ k.connection = comp.connection
                 /\ k.lost = comp.lost
    BY <1>0, <1>4 DEF CompCancel, Comps
  <2>2. toComp # <<>> /\ toComp' = Tail(toComp) /\ toComp[1].to = "cancel"
    BY <1>4 DEF CompCancel, Gets
  <2>3. QED
    BY <1>n, <2>1, <2>2, EmitsHolding
<1>5. CASE CompClose
  <2>1. /\ Emits(comp, <<>>, <<>>) /\ toComp # <<>> /\ toComp' = Tail(toComp)
        /\ toComp[1].to = "close" \/ toComp[1].to = "select"
    BY <1>5 DEF CompClose, Accepts, Gets
  <2>2. QED
    BY <1>n, <2>1, EmitsHolding
<1>6. CASE CompReject
  <2>1. Emits(comp, <<>>, <<>>) /\ toComp # <<>> /\ toComp' = Tail(toComp) /\ Rejected(toComp[1])
    BY <1>6 DEF CompReject, Gets
  <2>2. comp.held = 0 \/ comp.connection # 0
    BY DEF Keys, Ending
  <2>3. toComp[1].to = "release" => toComp[1].e = 0 \/ toComp[1].e # comp.connection
    BY <2>1 DEF Rejected, inputs
  <2>4. QED
    BY <1>n, <2>1, <2>2, <2>3, EmitsHolding
<1>7. CASE CompKey
  <2>1. /\ toComp # <<>> /\ toComp' = Tail(toComp) /\ toComp[1].to \in {"down", "up"} /\ ~comp.lost
        /\ toComp[1].e # 0 /\ toComp[1].e = comp.connection
    BY <1>7 DEF CompKey, Accepts, Gets, Rejected
  <2>2. PICK h : h = IF toComp[1].to = "down" THEN toComp[1].s ELSE 0
    OBVIOUS
  <2>3. PICK k : /\ k = [comp EXCEPT !.held = h] /\ k.held = h
                 /\ k.connection = comp.connection /\ k.lost = comp.lost
    <3>1. /\ [comp EXCEPT !.held = h].held = h
          /\ [comp EXCEPT !.held = h].connection = comp.connection
          /\ [comp EXCEPT !.held = h].lost = comp.lost
      BY <1>0 DEF Comps
    <3>2. QED
      BY <3>1
  <2>4. Emits(k, <<Event(toComp[1].to, 0, toComp[1].s)>>, <<>>)
    BY <1>7, <2>2, <2>3 DEF CompKey
  <2>5. QED
    BY <1>n, <2>1, <2>2, <2>3, <2>4, EmitsHolding
<1>8. CASE CompMarker
  <2>1. /\ toComp # <<>> /\ toComp' = Tail(toComp) /\ toComp[1].to \in {"press", "lift"}
    BY <1>8 DEF CompMarker, Accepts, Gets
  <2>2. PICK m : m = IF toComp[1].to = "press" THEN toComp[1].n ELSE -1
    OBVIOUS
  <2>3. PICK k : /\ k = [comp EXCEPT !.mark = m] /\ k.held = comp.held
                 /\ k.connection = comp.connection /\ k.lost = comp.lost
    <3>1. /\ [comp EXCEPT !.mark = m].held = comp.held
          /\ [comp EXCEPT !.mark = m].connection = comp.connection
          /\ [comp EXCEPT !.mark = m].lost = comp.lost
      BY <1>0 DEF Comps
    <3>2. QED
      BY <3>1
  <2>4. Emits(k, <<Event(toComp[1].to, toComp[1].n, toComp[1].s)>>, <<>>)
    BY <1>8, <2>2, <2>3 DEF CompMarker
  <2>5. QED
    BY <1>n, <2>1, <2>3, <2>4, EmitsHolding
<1>9. CASE CompClip \/ CompText
  <2>1. /\ toComp # <<>> /\ toComp' = Tail(toComp) /\ toComp[1].to \in {"clip", "text"}
    BY <1>9 DEF CompClip, CompText, Accepts, Gets
  <2>2. PICK n \in Nat : n = toComp[1].n
    BY <1>0, <2>1, HeadLine
  <2>3. PICK rec \in {"clip", "text"}, ok \in BOOLEAN :
          \E events : Emits(comp, events, <<Record(rec, n, ok)>>)
    BY <1>9, <2>2 DEF CompClip, CompText
  <2>4. <<Record(rec, n, ok)>> \in Seq(Plain)
    BY PlainOK
  <2>5. QED
    BY <2>1, <2>3, <2>4, EmitsHolding
<1>10. CASE CompBarrier
  <2>1. /\ toComp # <<>> /\ toComp' = Tail(toComp) /\ toComp[1].to = "barrier"
    BY <1>10 DEF CompBarrier, Accepts, Gets
  <2>2. PICK n \in Nat : n = toComp[1].n
    BY <1>0, <2>1, HeadLine
  <2>3. PICK k : /\ k = [comp EXCEPT !.barrier = n, !.pinged = TRUE] /\ k.held = comp.held
                 /\ k.connection = comp.connection /\ k.lost = comp.lost
    <3>1. /\ [comp EXCEPT !.barrier = n, !.pinged = TRUE].held = comp.held
          /\ [comp EXCEPT !.barrier = n, !.pinged = TRUE].connection = comp.connection
          /\ [comp EXCEPT !.barrier = n, !.pinged = TRUE].lost = comp.lost
      BY <1>0 DEF Comps
    <3>2. QED
      BY <3>1
  <2>4. <<Record("barrier", n, FALSE)>> \in Seq(Plain)
    BY PlainOK
  <2>5. \/ Emits(k, <<Event("ping", n, 0)>>, <<>>)
        \/ Emits(comp, <<>>, <<Record("barrier", n, FALSE)>>)
    BY <1>10, <2>2, <2>3 DEF CompBarrier
  <2>6. QED
    BY <1>n, <2>1, <2>3, <2>4, <2>5, EmitsHolding
<1>11. CASE SceneChange
  BY <1>0, <1>11, SceneHolding DEF SceneChange
<1>12. CASE CompSelect
  BY <1>0, <1>12, SceneHolding DEF CompSelect, Accepts, Gets
<1>13. CASE PingTimeout
  <2>1. PICK n \in Nat : n = comp.barrier
    BY <1>0 DEF Comps
  <2>2. PICK k : /\ k = [comp EXCEPT !.barrier = 0] /\ k.held = comp.held
                 /\ k.connection = comp.connection /\ k.lost = comp.lost
    <3>1. /\ [comp EXCEPT !.barrier = 0].held = comp.held
          /\ [comp EXCEPT !.barrier = 0].connection = comp.connection
          /\ [comp EXCEPT !.barrier = 0].lost = comp.lost
      BY <1>0 DEF Comps
    <3>2. QED
      BY <3>1
  <2>3. Emits(k, <<>>, <<Record("barrier", n, FALSE)>>) /\ toComp' = toComp
    BY <1>13, <2>1, <2>2 DEF PingTimeout
  <2>4. <<Record("barrier", n, FALSE)>> \in Seq(Plain)
    BY PlainOK
  <2>5. QED
    BY <2>2, <2>3, <2>4, EmitsHolding
<1>14. CASE CompLost
  <2>1. Empty(comp) \in Comps /\ Empty(comp).held = 0
    BY <1>0, EmptyOK
  <2>2. comp' = [Empty(comp) EXCEPT !.connection = 0, !.lost = TRUE] /\ toComp' = <<>>
    BY <1>14 DEF CompLost, Emits
  <2>3. comp'.held = 0 /\ comp'.lost
    BY <2>1, <2>2 DEF Comps
  <2>4. QED
    BY <2>2, <2>3 DEF Holding, LetsGo
<1>15. QED
  BY <1>1, <1>2, <1>3, <1>4, <1>5, <1>6, <1>7, <1>8, <1>9, <1>10, <1>11, <1>12, <1>13, <1>14 DEF CompStep

\* The application reads what the compositor sent and answers its pings.
LEMMA AppHolding ==
  ASSUME Ranges, Keys, AppStep
  PROVE  Holding
<1>0. comp \in Comps /\ (~comp.lost => toHelper \in Seq(Plain))
  BY DEF Ranges, CompOK, Keys, Ending
<1>1. CASE AppPing
  <2>1. /\ comp' = [comp EXCEPT !.pinged = FALSE, !.barrier = 0] /\ toComp' = toComp
    BY <1>1 DEF AppPing, apped
  <2>2. comp'.held = comp.held /\ comp'.connection = comp.connection /\ comp'.lost = comp.lost
    BY <1>0, <2>1 DEF Comps
  <2>3. PICK n \in Nat : n = comp.barrier
    BY <1>0 DEF Comps
  <2>4. PICK r \in Plain : r = Record("barrier", n, TRUE)
    BY RecordOK DEF Plain, Record
  <2>5. toHelper' = toHelper \/ toHelper' = Append(toHelper, r)
    BY <1>1, <2>3, <2>4 DEF AppPing
  <2>6. ~comp.lost => toHelper' \in Seq(Plain)
    BY <1>0, <2>5, AppendProperties
  <2>7. QED
    BY <2>1, <2>2, <2>6 DEF Holding, GoesOn
<1>2. CASE ~AppPing
  <2>1. UNCHANGED <<comp, toComp, toHelper>>
    BY <1>2 DEF AppStep, AppKey, AppText, AppPress, AppLift, AppInsert, AppRefuse, AppGiveUp, AppDone,
                AppGone, apped
  <2>2. QED
    BY <1>0, <2>1 DEF Holding, GoesOn
<1>3. QED
  BY <1>1, <1>2

\* The keys stay in order in every step.
LEMMA NextKeys ==
  ASSUME IInv, Keys, [Next]_vars
  PROVE  Keys'
<1>0. Ranges /\ Core /\ Grounds /\ Moves
  BY IInvParts, StepMoves DEF Core
<1>1. CASE CompStep
  <2>1. UNCHANGED <<attached, controller, native, req>>
    BY <1>1 DEF CompStep, CompConnection, CompDetach, CompRelease, CompCancel, CompClose, CompReject,
                CompKey, CompMarker, CompClip, CompBarrier, CompText, SceneChange, CompSelect, PingTimeout,
                CompLost, comped, helperVars
  <2>2. QED
    BY <1>0, <1>1, <2>1, CompHolding, HoldingKeeps
<1>2. CASE AppStep
  <2>1. UNCHANGED <<attached, controller, native, req>>
    BY <1>2 DEF AppStep, AppKey, AppText, AppPing, AppPress, AppLift, AppInsert, AppRefuse, AppGiveUp,
                AppDone, AppGone, apped, helperVars
  <2>2. QED
    BY <1>0, <1>2, <2>1, AppHolding, HoldingKeeps
<1>3. CASE UNCHANGED vars
  <2>1. Holding /\ UNCHANGED <<attached, controller, native, req>>
    BY <1>3 DEF vars, helperVars, Holding, GoesOn, Keys, Ending
  <2>2. QED
    BY <1>0, <2>1, HoldingKeeps
<1>4. CASE Connect \/ RecordStep \/ BusStep
  <2>1. PICK c \in Connections : TRUE
    BY Bounds DEF Connections
  <2>2. QED
    BY <1>0, <1>4, <2>1, HelperKeys
<1>5. ASSUME NEW c \in Connections, ViewerStep(c) \/ Drain(c) \/ Expire(c) PROVE Keys'
  BY <1>0, <1>5, HelperKeys
<1>6. QED
  BY <1>1, <1>2, <1>3, <1>4, <1>5 DEF Next

\* At the start nothing is held or on its way.
LEMMA InitKeys ==
  ASSUME Init
  PROVE  Keys
<1>1. Len(toComp) = 0 /\ toHelper \in Seq(Plain) /\ comp.held = 0 /\ ~comp.lost /\ 0 \notin Stamps
  BY EmptySeq DEF Init, Stamps
<1>2. QED
  BY <1>1 DEF Keys, Asked, Carried, Lifting, Ending, Own, Known

\* Only the controller has input on its way, on the current target, and a key that
\* a viewer pressed is lifted when control passes on: a takeover, a failed
\* operation or a new scene sends the release behind it (takeover, retire).
THEOREM OnlyControllerInputHolds == Spec => []OnlyControllerInput
<1> DEFINE J == IInv /\ Keys
<1>1. Init => J
  BY InitIInv, InitKeys
<1>2. J /\ [Next]_vars => J'
  BY NextIInv, NextKeys
<1>3. J => OnlyControllerInput
  <2> SUFFICES ASSUME IInv, Keys PROVE OnlyControllerInput
    OBVIOUS
  <2>0. 0 \notin Stamps
    BY DEF Stamps
  <2>1. ASSUME comp.held # 0, req[comp.held].conn \in attached, ~Releasing
        PROVE  req[comp.held].conn = controller
    <3>1. Own(comp.held) /\ ~comp.lost
      BY <2>1 DEF Own, Keys, Asked, Ending
    <3>2. toComp \in Seq(Lines)
      BY DEF IInv, Ranges, LinesOK
    <3>3. ~Frees(toComp, 1, comp.connection)
      BY <2>1, <3>2, LenProperties DEF Frees, Releasing
    <3>4. QED
      BY <3>1, <3>3 DEF Keys, Lifting, Foreign
  <2>2. ASSUME NEW c \in Connections, Open(c) # {}
        PROVE  /\ c = controller /\ ~view[c].failed
               /\ view[c].pending # 0 => req[view[c].pending].gen = native.target
    <3>1. view[c].queue \in Seq(Stamps)
      BY ViewFields DEF IInv, Ranges
    <3>2. PICK s : s \in Open(c)
      BY <2>2
    <3>3. CASE s \in ToSet(view[c].queue)
      BY <3>1, <3>3, Elements, EmptySeq DEF IInv, Books, Sole, Busy, Placed
    <3>4. CASE s \notin ToSet(view[c].queue)
      BY <3>2, <3>4 DEF Open, IInv, Books, Sole, Busy, Placed
    <3>5. QED
      BY <3>3, <3>4
  <2>3. QED
    BY <2>1, <2>2 DEF OnlyControllerInput
<1>4. QED
  BY <1>1, <1>2, <1>3, PTL DEF Spec
================================================================================
