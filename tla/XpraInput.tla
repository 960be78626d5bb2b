------------------------------ MODULE XpraInput ------------------------------
(***************************************************************************)
(* Confirmed input of an application that is shown through Xpra: one main  *)
(* loop with the scheduler (input_dispatch.py over input_order.py, hooked  *)
(* into the server by input_xpra.py), the toolkit's commit module on the   *)
(* private bus (input_context.py) and the X input method                   *)
(* (input_xim.py).  The application reads its X events in order.           *)
(*                                                                         *)
(* A request is named by its stamp, in the order the packets arrive, so    *)
(* that a queue is a set of stamps of which the least is the first; a      *)
(* viewer is one protocol.  What a handler does is a function of the whole *)
(* state of the loop; draining the queue is steps of its own, which nothing*)
(* else of the loop comes between.                                         *)
(***************************************************************************)
EXTENDS Naturals, Sequences, FiniteSets, SequencesExt

CONSTANTS
    Viewers,      \* numbered
    Stamps,       \* 1 up to the requests of a run
    MaxQueue,     \* 256 in the code
    MaxFragments, \* bound: fragments of a text, of 256 bytes each
    MaxMarker,    \* 0xffffffff in the code: the timestamps that number markers
    ICs,          \* input contexts the application may create
    MaxMessages,  \* bound: focus changes on the way from the application
    MaxTroubles,  \* bound: what goes wrong in a run
    None

VARIABLES
    viewers, \* open: the server has its source; failed: it lost the authority to give input
    order,   \* OrderedInput, and the context of the pending text
    toolkit, \* Contexts: the module on the bus, and the text that waits for its marker
    xim,     \* XIM: the focused context, those that take UTF-8, and the fragments to send
    toApp,   \* X events of the application
    toXim,   \* what the application's input method says
    toBus,   \* what its module calls
    app,     \* the application: route, its module, its input contexts
    xreq,    \* history: what was asked, how it ended, what its viewer heard
    parts,   \* history: the fragments of each text that the application has
    xdoc,    \* history: what the application acted on
    troubles \* what went wrong so far

xpraVars == <<viewers, order, toolkit, xim, toApp, toXim, toBus, app, xreq, parts, xdoc, troubles>>

NoRequest == [owner |-> 0, kind |-> "none", size |-> 1, status |-> "none", heard |-> "nothing"]
NoText == [op |-> 0, number |-> 0, held |-> FALSE]


\* The scheduler, the private bus and the input method as the server's setup makes
\* them; a setup that fails leaves no server.
NoOrder == [queue |-> {}, pending |-> 0, token |-> None, draining |-> FALSE, closed |-> FALSE]
NoModule == [module |-> "none", text |-> NoText, last |-> 0]
NoFocus == [focused |-> None, supported |-> {}, cancelled |-> {}, ic |-> None, left |-> 0, lost |-> FALSE]

Init ==
  /\ viewers = [v \in Viewers |-> [open |-> TRUE, failed |-> FALSE]]
  /\ order = NoOrder /\ toolkit = NoModule /\ xim = NoFocus
  /\ toApp = <<>> /\ toXim = <<>> /\ toBus = <<>>
  /\ \E route \in {"toolkit", "xim"} :
       app = [route |-> route, module |-> "none", state |-> "idle", number |-> 0, text |-> 0,
              dones |-> {}, alive |-> {}, created |-> {}]
  /\ xreq = [s \in Stamps |-> NoRequest] /\ parts = [s \in Stamps |-> 0] /\ xdoc = <<>>
  /\ troubles = 0

\* What the handlers of the loop change, in one record: they call each other.
Whole == [viewers |-> viewers, order |-> order, toolkit |-> toolkit, xim |-> xim, toApp |-> toApp, req |-> xreq]
Becomes(w) ==
  /\ viewers' = w.viewers /\ order' = w.order /\ toolkit' = w.toolkit /\ xim' = w.xim
  /\ toApp' = w.toApp /\ xreq' = w.req

Event(what, s, ic) == [what |-> what, s |-> s, n |-> 0, ic |-> ic]
Open == {"queued", "issued"}

----------------------------------------------------------------------------
(* The scheduler *)

\* InputDispatch.available
Available(w, v) == w.viewers[v].open /\ ~w.viewers[v].failed

\* The loop of OrderedInput.drain is entered, or left.
Drains(w) ==
  [w EXCEPT !.order.draining = w.order.queue # {} /\ w.order.pending = 0 /\ ~w.order.closed]

\* No answer is owed any more: the request reached the application, or never will.
GiveUp(w, S) ==
  [w EXCEPT !.req = [s \in Stamps |->
     IF s \in S THEN [w.req[s] EXCEPT !.status = IF @ = "queued" THEN "refused" ELSE "failed"] ELSE w.req[s]]]

\* Contexts.cancel: a marker that comes later finds no text.
CancelToolkit(w) == [w EXCEPT !.toolkit.text = NoText]

\* XIM.cancel: a context whose answer is lost is not used again.
CancelXim(w) ==
  IF w.xim.ic = w.order.token
  THEN [w EXCEPT !.xim.ic = None, !.xim.left = 0, !.xim.cancelled = @ \cup {w.order.token}] ELSE w

CancelText(w) == IF w.order.token \in ICs THEN CancelXim(w) ELSE CancelToolkit(w)

CancelPending(w) ==
  IF w.order.pending = 0 THEN w ELSE CancelText([w EXCEPT !.order.pending = 0])

\* OrderedInput.invalidate
Invalidate(w, v) ==
  LET mine == {s \in Stamps : w.req[s].owner = v /\ w.req[s].status \in Open}
      c == IF w.order.pending \in mine THEN CancelPending(w) ELSE w
  IN  Drains(GiveUp([c EXCEPT !.order.queue = {s \in @ : w.req[s].owner # v}], mine))

\* Mutant: the viewer keeps the authority to give input.
RejectKeepingInput(w, v, s) ==
  LET r == Invalidate(w, v)
  IN  IF s # 0 /\ w.viewers[v].open THEN [r EXCEPT !.req[s].heard = "failure"] ELSE r

\* InputDispatch.reject: the viewer hears why, and gives no input any more.  That
\* the server releases the keys it holds is the server's.
Reject(w, v, s) ==
  LET r == Invalidate([w EXCEPT !.viewers[v].failed = TRUE], v)
  IN  IF s # 0 /\ w.viewers[v].open THEN [r EXCEPT !.req[s].heard = "failure"] ELSE r

\* completed, of the text that is pending
Completed(w, ok) ==
  LET s == w.order.pending
      v == w.req[s].owner
      c == [w EXCEPT !.order.pending = 0]
      heard == IF Available(w, v) THEN "success" ELSE "nothing"
  IN  IF ok THEN Drains([c EXCEPT !.req[s].status = "confirmed", !.req[s].heard = heard])
      ELSE IF Available(w, v) THEN Reject(CancelText(c), v, s)
      ELSE Drains(GiveUp(CancelText(c), {s}))

----------------------------------------------------------------------------
(* The two adapters *)

Pends(w, s, token) == [w EXCEPT !.order.pending = s, !.order.token = token, !.order.draining = FALSE]

\* XIM.marker: a key event that carries the number goes to the focused window.
Marked(w) ==
  LET text == w.toolkit.text
  IN  [w EXCEPT !.toApp = Append(@, [Event("marker", text.op, None) EXCEPT !.n = text.number])]

\* Contexts.commit.  The number of the marker is the clock's, unless that was used.
CommitToolkit(w, s, clock, sends) ==
  LET p == Pends(w, s, "toolkit")
      number == IF clock > w.toolkit.last THEN clock ELSE w.toolkit.last + 1
  IN  IF w.toolkit.module = "unsupported" \/ number > MaxMarker THEN Completed(p, FALSE)
      ELSE IF ~sends THEN Completed([p EXCEPT !.toolkit.last = number], FALSE)
      ELSE Marked([p EXCEPT !.toolkit.last = number, !.req[s].status = "issued",
                            !.toolkit.text = [op |-> s, number |-> number, held |-> TRUE]])

\* XIM._send_fragment: a fragment and a request for a sync reply
SendFragment(w, encodes) ==
  LET s == w.order.pending
      ic == w.xim.ic
  IN  IF ~encodes THEN Completed([w EXCEPT !.xim.ic = None, !.xim.left = 0], FALSE)
      ELSE [w EXCEPT !.xim.left = @ - 1, !.req[s].status = "issued",
                     !.toApp = @ \o <<Event("commit", s, ic), Event("sync", s, ic)>>]

\* XIM.commit, to the context that has the focus
CommitXim(w, s, encodes) ==
  LET ic == w.xim.focused
      p == Pends(w, s, ic)
  IN  IF ic \in w.xim.cancelled THEN Completed(p, FALSE)
      ELSE SendFragment([p EXCEPT !.xim.ic = ic, !.xim.left = w.req[s].size], encodes)

\* The text that the input method has ends with its context, or its connection.
XimFails(w) == Completed([w EXCEPT !.xim.ic = None, !.xim.left = 0], FALSE)

----------------------------------------------------------------------------
(* Viewers *)

AtRest == ~order.draining
unheard == <<toXim, toBus, app, parts, xdoc>>
\* A handler of the main loop
Handled(w) == AtRest /\ Becomes(w) /\ UNCHANGED unheard

\* text_fragments of a valid text
Fragments == 1..MaxFragments

Unasked == {s \in Stamps : xreq[s].status = "none"}
NewStamp == Min(Unasked)

\* enqueue of InputDispatch and OrderedInput
Enqueue(v, kind, size) ==
  /\ Available(Whole, v) /\ ~order.closed /\ Unasked # {} /\ Cardinality(order.queue) < MaxQueue
  /\ Handled(Drains([Whole EXCEPT
       !.req[NewStamp] = [NoRequest EXCEPT !.owner = v, !.kind = kind, !.size = size, !.status = "queued"],
       !.order.queue = @ \cup {NewStamp}]))

\* The queue is full: the protocol is closed and its input dropped.
Overflow(v) ==
  /\ Available(Whole, v) /\ ~order.closed /\ Cardinality(order.queue) >= MaxQueue
  /\ Handled(Invalidate([Whole EXCEPT !.viewers[v].open = FALSE], v))

\* A packet of another version, or of invalid text, is rejected at once.
Unsound(v) == Available(Whole, v) /\ ~order.closed /\ Handled(Reject(Whole, v, 0))

\* A malformed packet, or one whose handling raises, closes the protocol.
Malformed(v) ==
  /\ Available(Whole, v) /\ ~order.closed
  /\ Handled(Invalidate([Whole EXCEPT !.viewers[v].open = FALSE], v))

\* The connection is lost; the server cleans up after it later.
HangUp(v) == viewers[v].open /\ Handled([Whole EXCEPT !.viewers[v].open = FALSE])
CleanUp(v) == ~viewers[v].open /\ Handled(Invalidate(Whole, v))

\* The server's own connections: nothing is heard on them any more.
BusClosed(w) == [w EXCEPT !.toolkit.module = "none"]
XimClosed(w) == [w EXCEPT !.xim.focused = None, !.xim.lost = TRUE]
AdaptersClosed(w) == XimClosed(BusClosed(w))

\* OrderedInput.close
OrderClosed(w) == CancelPending([w EXCEPT !.order.closed = TRUE, !.order.queue = {}])

\* do_cleanup: the server ends, with its scheduler and both adapters.
CloseServer ==
  /\ ~order.closed
  /\ LET g == GiveUp(OrderClosed(Whole), {s \in Stamps : xreq[s].status \in Open})
     IN  Handled(AdaptersClosed(g))

\* The deadline of the pending text
Expire == order.pending # 0 /\ Handled(Completed(Whole, FALSE))

----------------------------------------------------------------------------
(* Draining the queue *)

Following == Min(order.queue)
Popped == [Whole EXCEPT !.order.queue = @ \ {Following}]
Turn(w) == order.draining /\ Becomes(w) /\ UNCHANGED unheard

\* What waits in the queue of a viewer that is not available is dropped.
DrainDropped ==
  order.draining /\ ~Available(Whole, xreq[Following].owner) /\ Turn(Drains(GiveUp(Popped, {Following})))

\* The server's own handler, and XSync: the event is in the application's queue.
DrainKey ==
  /\ order.draining /\ Available(Whole, xreq[Following].owner) /\ xreq[Following].kind = "down"
  /\ Turn(Drains([Popped EXCEPT !.req[Following].status = "confirmed",
                                !.toApp = Append(@, Event("key", Following, None))]))

TextNext == order.draining /\ Available(Whole, xreq[Following].owner) /\ xreq[Following].kind = "text"

\* The number was used, the window is another's, gone or not the focused one, or
\* another viewer drives: what the server knows of them is its own.
DrainRefused == TextNext /\ Turn(Reject(Popped, xreq[Following].owner, Following))

\* context_for: the module of the window's process
DrainToolkit(clock, sends) ==
  TextNext /\ toolkit.module # "none" /\ Turn(CommitToolkit(Popped, Following, clock, sends))

\* XIM.context_for: the focused context, when all that the application has said
\* is read.  A context, or a focus, outside the viewer's window is DrainRefused.
Heard == toXim = <<>> \/ xim.lost
Context == xim.focused

DrainXim(encodes) ==
  /\ TextNext /\ toolkit.module = "none" /\ Heard
  /\ Turn(IF Context # None THEN CommitXim(Popped, Following, encodes)
          ELSE Reject(Popped, xreq[Following].owner, Following))

----------------------------------------------------------------------------
(* The bus and the input method *)

\* Mutant: whatever marker asks gets the text.
TakeAny(n) == toolkit.text.op # 0 /\ toolkit.text.held

\* The text waits for this marker and was not taken.
Takes(n) == toolkit.text.op # 0 /\ toolkit.text.number = n /\ toolkit.text.held

\* Contexts.take.  A module that gave up waiting drops the answer, and the text.
Take(focused) ==
  /\ toBus # <<>> /\ Head(toBus).call = "take" /\ AtRest
  /\ LET n == Head(toBus).n
         answer == IF Takes(n) /\ focused THEN [app EXCEPT !.state = "got", !.text = toolkit.text.op]
                   ELSE [app EXCEPT !.state = "idle"]
     IN  /\ Becomes(IF ~Takes(n) THEN Whole
                    ELSE IF focused THEN [Whole EXCEPT !.toolkit.text.held = FALSE]
                    ELSE Completed([Whole EXCEPT !.toolkit.text = NoText], FALSE))
         /\ app' = IF app.state = "asking" /\ app.number = n THEN answer ELSE app
  /\ toBus' = Tail(toBus) /\ UNCHANGED <<toXim, parts, xdoc>>

\* Another message of the bus; a server that has ended refuses it.
Hears(calls, w) ==
  /\ toBus # <<>> /\ Head(toBus).call \in calls /\ AtRest
  /\ Becomes(IF order.closed THEN Whole ELSE w)
  /\ toBus' = Tail(toBus) /\ UNCHANGED <<toXim, app, parts, xdoc>>

\* Contexts.done: of the text that this number took
Done ==
  LET text == toolkit.text
  IN  Hears({"done"}, IF text.op # 0 /\ text.number = Head(toBus).n /\ ~text.held
                      THEN Completed([Whole EXCEPT !.toolkit.text = NoText], TRUE) ELSE Whole)

\* Register: the process has a module, of this version or of another.
Register == Hears({"ready", "unsupported"}, [Whole EXCEPT !.toolkit.module = Head(toBus).call])

\* _owner_changed: the module's connection has ended.
OwnerChanged ==
  LET gone == [Whole EXCEPT !.toolkit.module = "none", !.toolkit.text = NoText]
  IN  Hears({"gone"}, IF toolkit.text.op # 0 THEN Completed(gone, FALSE) ELSE gone)

\* The sync reply of the pending text
Synced(w, encodes) ==
  IF w.xim.focused = w.xim.ic /\ w.xim.left > 0 THEN SendFragment(w, encodes)
  ELSE Completed([w EXCEPT !.xim.ic = None, !.xim.left = 0], w.xim.focused = w.xim.ic)

\* XIM._callback
Callback(m, encodes) ==
  LET w == Whole
      unfocused == IF xim.focused = m.ic THEN None ELSE xim.focused
      destroyed == [w EXCEPT !.xim.focused = unfocused, !.xim.supported = @ \ {m.ic}, !.xim.cancelled = @ \ {m.ic}]
  IN  CASE m.what = "create" -> IF m.utf8 THEN [w EXCEPT !.xim.supported = @ \cup {m.ic}] ELSE w
        [] m.what = "focus" -> [w EXCEPT !.xim.focused = IF m.ic \in xim.supported THEN m.ic ELSE None]
        [] m.what = "unfocus" -> [w EXCEPT !.xim.focused = unfocused]
        [] m.what = "sync" -> IF xim.ic = m.ic THEN Synced(w, encodes) ELSE w
        [] m.what = "destroy" -> IF xim.ic = m.ic THEN XimFails(destroyed) ELSE destroyed

\* _read, of the source or of context_for: it reads also while the queue is
\* drained, when the next text asks for its context.
ReadXim(encodes) ==
  /\ toXim # <<>> /\ ~xim.lost /\ (AtRest \/ (TextNext /\ toolkit.module = "none"))
  /\ Becomes(Callback(Head(toXim), encodes))
  /\ toXim' = Tail(toXim) /\ UNCHANGED <<toBus, app, parts, xdoc>>

\* The connection to the X server hangs up.
XimLost ==
  /\ ~xim.lost
  /\ LET l == [Whole EXCEPT !.xim.focused = None, !.xim.lost = TRUE]
     IN  Handled(IF xim.ic # None THEN XimFails(l) ELSE l)

----------------------------------------------------------------------------
(* The application *)

unserved == <<viewers, order, toolkit, xim, xreq>>
Inserted(s) == xdoc' = IF xdoc # <<>> /\ Last(xdoc) = s THEN xdoc ELSE Append(xdoc, s)
Call(call, n) == [call |-> call, n |-> n]
Says(what, ic) == [what |-> what, ic |-> ic, utf8 |-> TRUE]
Idle == app.state = "idle"
First(what) == toApp # <<>> /\ Head(toApp).what = what /\ Idle /\ toApp' = Tail(toApp)

AppKey == First("key") /\ Inserted(Head(toApp).s) /\ UNCHANGED <<unserved, toXim, toBus, app, parts>>

\* The marker asks for the text where an editor has the focus.
AppMarker(asks) ==
  /\ First("marker")
  /\ IF asks /\ app.module = "here"
     THEN /\ toBus' = Append(toBus, Call("take", Head(toApp).n))
          /\ app' = [app EXCEPT !.state = "asking", !.number = Head(toApp).n]
     ELSE UNCHANGED <<toBus, app>>
  /\ UNCHANGED <<unserved, toXim, parts, xdoc>>

AppStopsWaiting ==
  app.state = "asking" /\ app' = [app EXCEPT !.state = "idle"]
  /\ UNCHANGED <<unserved, toApp, toXim, toBus, parts, xdoc>>

\* The editor has the text; the module says so when its event loop is idle again.
AppInsert ==
  /\ app.state = "got" /\ Inserted(app.text)
  /\ parts' = [parts EXCEPT ![app.text] = xreq[app.text].size]
  /\ app' = [app EXCEPT !.state = "idle", !.dones = @ \cup {app.number}]
  /\ UNCHANGED <<unserved, toApp, toXim, toBus>>

AppDone(n) ==
  /\ Idle /\ n \in app.dones
  /\ app' = [app EXCEPT !.dones = @ \ {n}] /\ toBus' = Append(toBus, Call("done", n))
  /\ UNCHANGED <<unserved, toApp, toXim, parts, xdoc>>

AppRegister(version) ==
  /\ app.route = "toolkit" /\ app.module = "none"
  /\ app' = [app EXCEPT !.module = IF version = "ready" THEN "here" ELSE "gone"]
  /\ toBus' = Append(toBus, Call(version, 0))
  /\ UNCHANGED <<unserved, toApp, toXim, parts, xdoc>>

AppGone ==
  /\ app.module = "here"
  /\ app' = [app EXCEPT !.module = "gone", !.state = "idle", !.dones = {}]
  /\ toBus' = Append(toBus, Call("gone", 0))
  /\ UNCHANGED <<unserved, toApp, toXim, parts, xdoc>>

\* Fragments, and the sync that follows each, to a context that is there
AppCommit ==
  /\ First("commit")
  /\ IF Head(toApp).ic \in app.alive
     THEN Inserted(Head(toApp).s) /\ parts' = [parts EXCEPT ![Head(toApp).s] = @ + 1]
     ELSE UNCHANGED <<parts, xdoc>>
  /\ UNCHANGED <<unserved, toXim, toBus, app>>

AppSync ==
  /\ First("sync")
  /\ toXim' = IF Head(toApp).ic \in app.alive THEN Append(toXim, Says("sync", Head(toApp).ic)) ELSE toXim
  /\ UNCHANGED <<unserved, toBus, app, parts, xdoc>>

AppContext(ic) ==
  /\ app.route = "xim" /\ Len(toXim) < MaxMessages
  /\ \/ /\ ic \notin app.created
        /\ app' = [app EXCEPT !.created = @ \cup {ic}, !.alive = @ \cup {ic}]
        /\ \E utf8 \in BOOLEAN : toXim' = Append(toXim, [Says("create", ic) EXCEPT !.utf8 = utf8])
     \/ /\ ic \in app.alive
        /\ \E what \in {"focus", "unfocus"} : toXim' = Append(toXim, Says(what, ic))
        /\ app' = app
     \/ /\ ic \in app.alive
        /\ toXim' = Append(toXim, Says("destroy", ic)) /\ app' = [app EXCEPT !.alive = @ \ {ic}]
  /\ UNCHANGED <<unserved, toApp, toBus, parts, xdoc>>

----------------------------------------------------------------------------
ViewerStep(v) ==
  (\E size \in Fragments : Enqueue(v, "text", size)) \/ Enqueue(v, "down", 1) \/ CleanUp(v)

LoopStep ==
  \/ DrainDropped \/ DrainKey \/ Done \/ Register \/ OwnerChanged \/ DrainXim(TRUE) \/ ReadXim(TRUE) \/ Take(TRUE)
  \/ \E clock \in 1..MaxMarker : DrainToolkit(clock, TRUE)

AppStep ==
  \/ AppKey \/ AppInsert \/ AppCommit \/ AppSync \/ AppMarker(TRUE) \/ AppRegister("ready")
  \/ \E n \in 1..MaxMarker : AppDone(n)
  \/ \E ic \in ICs : AppContext(ic)

Trouble ==
  \/ DrainRefused \/ Expire \/ CloseServer \/ XimLost \/ DrainXim(FALSE) \/ ReadXim(FALSE) \/ Take(FALSE)
  \/ \E clock \in 1..MaxMarker : DrainToolkit(clock, FALSE)
  \/ \E v \in Viewers : Overflow(v) \/ Unsound(v) \/ Malformed(v) \/ HangUp(v)
  \/ AppStopsWaiting \/ AppGone \/ AppMarker(FALSE) \/ AppRegister("unsupported")

Next ==
  \/ (LoopStep \/ AppStep \/ \E v \in Viewers : ViewerStep(v)) /\ UNCHANGED troubles
  \/ Trouble /\ troubles < MaxTroubles /\ troubles' = troubles + 1

Spec == Init /\ [][Next]_xpraVars

----------------------------------------------------------------------------
(* Properties *)

\* The other implementation of ordered, confirmed input promises what NativeInput
\* promises, over the toolkits' bus and over the X input method.
Contract == INSTANCE InputContract WITH
  Owners <- Viewers,
  status <- [s \in Stamps |-> xreq[s].status],
  owner <- [s \in Stamps |-> xreq[s].owner],
  kind <- [s \in Stamps |-> xreq[s].kind],
  doc <- xdoc
KeepsContract == Contract!Spec

TypeOK ==
  /\ order.pending \in Stamps \cup {0} /\ Cardinality(order.queue) <= MaxQueue
  /\ toolkit.last \in 0..MaxMarker /\ toolkit.module \in {"none", "ready", "unsupported"}
  /\ xim.focused \in xim.supported \cup {None} /\ xim.cancelled \subseteq ICs
  /\ xim.left \in 0..MaxFragments /\ app.state \in {"idle", "asking", "got"}

\* No input of a viewer passes a text of its own that was not confirmed: nothing
\* that follows such a text is given to the application.  A confirmed text is in
\* the document whole, its viewer hears success of no other, and an adapter holds
\* a text exactly while the scheduler waits for it, so none refuses the next.
NothingPassesText ==
  /\ TypeOK
  /\ \A s, t \in Stamps :
       t < s /\ xreq[t].owner = xreq[s].owner /\ xreq[t].kind = "text"
         /\ xreq[s].status \in {"issued", "confirmed", "failed"}
       => xreq[t].status = "confirmed"
  /\ \A s \in Stamps :
       /\ xreq[s].kind = "text" /\ xreq[s].status = "confirmed" => parts[s] = xreq[s].size
       /\ xreq[s].heard = "success" => xreq[s].status = "confirmed"
       /\ xreq[s].heard = "failure" => xreq[s].status \in {"refused", "failed"}
  /\ order.pending # 0 <=> toolkit.text.op # 0 \/ xim.ic # None
=============================================================================
