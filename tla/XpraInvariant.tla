----------------------------- MODULE XpraInvariant -----------------------------
(***************************************************************************)
(* What holds of XpraInput between its steps, in a form that every step    *)
(* preserves.  A world is what the handlers of the loop change; a handler  *)
(* takes a world to a world, so that what is said here of the loop is said *)
(* of a world, and what is said of the application is said of a world, the *)
(* messages under way and the application's own state.                     *)
(***************************************************************************)
EXTENDS MCPreparationCore, FiniteSets

XpraRequest ==
  [owner : Viewers \cup {0}, kind : {"none", "text", "down"}, size : 1..MaxFragments,
   status : {"none", "queued", "issued", "confirmed", "failed", "refused"},
   heard : {"nothing", "success", "failure"}]
XpraEvent == [what : {"marker", "commit", "sync", "key"}, s : Stamps, n : 0..MaxMarker, ic : ICs \cup {None}]
Schedule == [queue : SUBSET Stamps, pending : Stamps \cup {0}, token : ICs \cup {"toolkit", None},
             draining : BOOLEAN, closed : BOOLEAN]
Modules == [module : {"none", "ready", "unsupported"}, last : 0..MaxMarker,
            text : [op : Stamps \cup {0}, number : 0..MaxMarker, held : BOOLEAN]]
Focuses == [focused : ICs \cup {None}, supported : SUBSET ICs, cancelled : SUBSET ICs,
            ic : ICs \cup {None}, left : 0..MaxFragments, lost : BOOLEAN]
Loops == [viewers : [Viewers -> [open : BOOLEAN, failed : BOOLEAN]], order : Schedule, toolkit : Modules,
          xim : Focuses, toApp : Seq(XpraEvent), req : [Stamps -> XpraRequest]]

\* The application has, or may get, what went.
Went(w, s) == w.req[s].status \in {"issued", "confirmed", "failed"}
Waits(w, s) == w.req[s].status = "queued"

\* Of the stamps, those that were asked for come first, each of a viewer; the queue
\* holds what waits; what was issued is pending.  The request h is in hand: popped
\* from the queue, or not pending any more.
Stamped(w, h) == \A s \in Stamps :
  /\ w.req[s].status # "none" => w.req[s].owner \in Viewers /\ w.req[s].kind \in {"text", "down"}
  /\ \A t \in Stamps : t < s /\ w.req[s].status # "none" => w.req[t].status # "none"
  /\ s \in w.order.queue => Waits(w, s)
  /\ Waits(w, s) => s \in w.order.queue \/ s = h
  /\ w.req[s].status = "issued" => s = w.order.pending \/ s = h
  /\ w.req[s].kind = "down" => w.req[s].status \notin {"issued", "failed"}
Bounded(w) == IsFiniteSet(w.order.queue) /\ Cardinality(w.order.queue) <= MaxQueue

\* Whoever was refused, or failed, gives no input any more, and heard of no success.
Owing(w) == \A s \in Stamps :
  /\ w.req[s].status \in {"failed", "refused"} => ~Xpra!Available(w, w.req[s].owner) \/ w.order.closed
  /\ w.req[s].heard = "success" => w.req[s].status = "confirmed"
  /\ w.req[s].heard = "failure" => w.req[s].status \in {"refused", "failed"}

\* The queue is in the order of the stamps: what went is before what waits, and
\* nothing went after what is pending; no input passed an unconfirmed text.
Sequenced(w) == \A s, t \in Stamps :
  /\ Went(w, s) /\ Waits(w, t) => s < t
  /\ Went(w, s) /\ t = w.order.pending => s <= t
  /\ t < s /\ Went(w, s) /\ w.req[t].owner = w.req[s].owner /\ w.req[t].kind = "text"
       => w.req[t].status = "confirmed"

\* An adapter has at most the text that is pending; the events for the application
\* are of what went, in order.
Adapted(w) ==
  /\ w.order.pending = 0 => w.toolkit.text.op = 0 /\ w.xim.ic = None
  /\ w.toolkit.text.op # 0 => w.order.pending = w.toolkit.text.op /\ w.order.token = "toolkit" /\ w.xim.ic = None
  /\ w.xim.ic # None => w.order.token = w.xim.ic
  /\ w.toolkit.text.number <= w.toolkit.last
  /\ w.xim.focused \in w.xim.supported \cup {None}
  /\ w.xim.lost => w.xim.focused = None
Sent(w) ==
  /\ \A i \in 1..Len(w.toApp) : Went(w, w.toApp[i].s)
  /\ \A i, j \in 1..Len(w.toApp) : i < j => w.toApp[i].s <= w.toApp[j].s
  /\ \A i \in 1..Len(w.toApp) : w.toApp[i].what = "marker" =>
       /\ w.toApp[i].n <= w.toolkit.last
       /\ w.toolkit.text.op # 0 /\ w.toApp[i].n = w.toolkit.text.number => w.toApp[i].s = w.toolkit.text.op

\* A closed scheduler has nothing left.
Shut(w) == w.order.closed => w.order.queue = {} /\ w.order.pending = 0

\* What is pending was issued, and an adapter has it.
Firm(w) == w.order.pending # 0 =>
  /\ w.req[w.order.pending].status = "issued" /\ w.req[w.order.pending].kind = "text"
  /\ w.toolkit.text.op # 0 \/ w.xim.ic # None

\* The queue is drained while there is something to drain.
Draining(w) == w.order.draining => w.order.queue # {} /\ w.order.pending = 0 /\ ~w.order.closed

Core(w, h) == /\ w \in Loops /\ Stamped(w, h) /\ Bounded(w) /\ Owing(w) /\ Sequenced(w) /\ Adapted(w)
              /\ Sent(w) /\ Shut(w)
Loop(w) == Core(w, 0) /\ Firm(w) /\ Draining(w)

(* What the application has *)
Apps == [route : {"toolkit", "xim"}, module : {"none", "here", "gone"}, state : {"idle", "asking", "got"},
         number : 0..MaxMarker, text : Stamps \cup {0}, dones : SUBSET (0..MaxMarker),
         alive : SUBSET ICs, created : SUBSET ICs]
BusCalls == [call : {"take", "done", "ready", "unsupported", "gone"}, n : 0..MaxMarker]
Sayings == [what : {"create", "focus", "unfocus", "sync", "destroy"}, ic : ICs, utf8 : BOOLEAN]
Typed == /\ app \in Apps /\ toBus \in Seq(BusCalls) /\ toXim \in Seq(Sayings)
         /\ parts \in [Stamps -> Nat] /\ xdoc \in Seq(Stamps)

\* What the document has went, in order, and comes before all that is on its way.
Written(w, d) ==
  /\ \A i \in 1..Len(d) : Went(w, d[i])
  /\ \A i, j \in 1..Len(d) : i < j => d[i] < d[j]
  /\ \A i \in 1..Len(d), j \in 1..Len(w.toApp) : d[i] <= w.toApp[j].s
Between(w, d, s) ==
  /\ \A i \in 1..Len(d) : d[i] <= s
  /\ \A i \in 1..Len(w.toApp) : s <= w.toApp[i].s
Counted(w, d, p) == \A s \in Stamps :
  /\ p[s] # 0 => \E i \in 1..Len(d) : d[i] = s
  /\ w.req[s].kind = "text" /\ w.req[s].status = "confirmed" => p[s] = w.req[s].size

\* The text of a number
Full(w, p, n) == n <= w.toolkit.last /\ (w.toolkit.text.op # 0 /\ n = w.toolkit.text.number =>
                     p[w.toolkit.text.op] = w.req[w.toolkit.text.op].size)
Holding(w, a, d) ==
  /\ a.number <= w.toolkit.last
  /\ a.state = "got" =>
       /\ a.text \in Stamps /\ Went(w, a.text) /\ Between(w, d, a.text)
       /\ w.req[a.text].status = "issued" => w.toolkit.text.op = a.text
       /\ w.toolkit.text.op # 0 /\ a.number = w.toolkit.text.number => w.toolkit.text.op = a.text
  /\ a.state = "asking" /\ w.toolkit.text.op # 0 /\ a.number = w.toolkit.text.number =>
       Between(w, d, w.toolkit.text.op)
Told(w, a, b, p) ==
  /\ \A n \in a.dones : Full(w, p, n)
  /\ \A i \in 1..Len(b) : b[i].call = "done" => Full(w, p, b[i].n)

(* Fragments *)
Frag(e) == e.what \in {"commit", "sync"}
Gone(w, x, a, c) ==
  /\ c \in a.created /\ c \notin a.alive /\ c \notin w.xim.supported
  /\ \A i \in 1..Len(x) : x[i].ic = c => x[i].what # "create"
Spent(w, x, a, c) == c = w.xim.ic \/ c \in w.xim.cancelled \/ w.xim.lost \/ Gone(w, x, a, c)
Ending(x, a, c) == c \in a.alive \/ \E i \in 1..Len(x) : x[i].what = "destroy" /\ x[i].ic = c
Contexts(w, x, a) ==
  /\ a.alive \subseteq a.created /\ w.xim.supported \subseteq a.created
  /\ \A i \in 1..Len(x) : x[i].ic \in a.created
  /\ \A i \in 1..Len(x) : x[i].what = "destroy" =>
       x[i].ic \notin a.alive /\ \A j \in 1..Len(x) : i < j => x[j].ic # x[i].ic
  /\ \A c \in w.xim.supported : Ending(x, a, c)
  /\ \A i \in 1..Len(x) : Ending(x, a, x[i].ic)
Aimed(w, x, a, e) ==
  /\ e.ic \in ICs /\ Spent(w, x, a, e.ic)
  /\ e.s = w.order.pending \/ w.req[e.s].status = "failed"
  /\ w.toolkit.text.op # 0 => e.s # w.order.pending
Fragmented(w, x, a) ==
  /\ \A i \in 1..Len(w.toApp) : Frag(w.toApp[i]) => Aimed(w, x, a, w.toApp[i])
  /\ \A i \in 1..Len(x) : x[i].what = "sync" => Spent(w, x, a, x[i].ic)
CommitAt(w, i) == w.toApp[i].what = "commit" /\ w.toApp[i].ic = w.xim.ic
SyncAt(w, i) == w.toApp[i].what = "sync" /\ w.toApp[i].ic = w.xim.ic
AnswerAt(w, x, i) == x[i].what = "sync" /\ x[i].ic = w.xim.ic
Left(w, p) == p[w.order.pending] + w.xim.left
Asked(w) == w.req[w.order.pending].size
Flying(w, x, a, p) == w.xim.ic # None =>
  /\ w.xim.ic \in a.created
  /\ \A i \in 1..Len(w.toApp) : Frag(w.toApp[i]) => ((w.toApp[i].ic = w.xim.ic) <=> (w.toApp[i].s = w.order.pending))
  /\ \A i, j \in 1..Len(w.toApp) : CommitAt(w, i) /\ CommitAt(w, j) => i = j
  /\ \A i, j \in 1..Len(w.toApp) : SyncAt(w, i) /\ SyncAt(w, j) => i = j
  /\ \A i, j \in 1..Len(x) : AnswerAt(w, x, i) /\ AnswerAt(w, x, j) => i = j
  /\ \A i, j \in 1..Len(w.toApp) : CommitAt(w, i) /\ SyncAt(w, j) => i < j
  /\ \A i \in 1..Len(x), j \in 1..Len(w.toApp) : AnswerAt(w, x, i) => ~CommitAt(w, j) /\ ~SyncAt(w, j)
  /\ \A i \in 1..Len(w.toApp) : CommitAt(w, i) => Left(w, p) + 1 = Asked(w)
  /\ \A i \in 1..Len(w.toApp) : SyncAt(w, i) /\ (\A j \in 1..Len(w.toApp) : ~CommitAt(w, j)) /\ w.xim.ic \in a.alive =>
       Left(w, p) = Asked(w)
  /\ \A i \in 1..Len(x) : AnswerAt(w, x, i) => Left(w, p) = Asked(w)

Outer(w, x, a, b, p, d) ==
  /\ Written(w, d) /\ Counted(w, d, p) /\ Holding(w, a, d) /\ Told(w, a, b, p)
  /\ Contexts(w, x, a) /\ Fragmented(w, x, a) /\ Flying(w, x, a, p)

XpraInv == Loop(Xpra!Whole) /\ Typed /\ Outer(Xpra!Whole, toXim, app, toBus, parts, xdoc)
================================================================================
