------------------------------ MODULE LoginText ------------------------------
(***************************************************************************)
(* The child of the login service that hands the viewer's text to the      *)
(* focused application (host_desktop_login_text.py): it takes ownership of *)
(* the compositor's selection, one thread per reader writes the text, and  *)
(* a quiet period after the last reader confirms the paste.  Its callbacks *)
(* run in one GLib loop; the threads only write and hand their result to   *)
(* the loop.  The login service (login_text_linux.go) sends one paste,     *)
(* waits for its answer, and gives the child up after any error.           *)
(***************************************************************************)
EXTENDS Naturals

CONSTANTS
    MaxPastes,  \* bound: pastes of one child, numbered in their order; 0: none
    Writers     \* the threads that may write at a time, self.writes

VARIABLES
    current,    \* the session, terminal and compositor are the ones of the start
    loop,       \* running; quit: loop.quit was called; closed
    sent,       \* pastes the login service has sent
    handled,    \* pastes the loop has taken
    answer,     \* what the login service knows of each paste
    request, text, timer,   \* the backend's fields of these names
    overtaken,  \* quiet periods that still run though self.timer names another timer
    writer,     \* the transfer of each thread
    whole,      \* history: pastes some reader has read to their end
    hurried     \* history: pastes admitted while a quiet period was running

backend == <<request, text, timer, overtaken>>
history == <<whole, hurried>>
vars == <<current, loop, sent, handled, answer, backend, writer, history>>

Pastes == 1..MaxPastes
Free == [state |-> "free", text |-> 0, request |-> 0]

Init ==
  /\ current = TRUE /\ loop = "running"
  /\ sent = 0 /\ handled = 0 /\ answer = [p \in Pastes |-> "none"]
  /\ request = 0 /\ text = 0 /\ timer = "none" /\ overtaken = 0
  /\ writer = [w \in Writers |-> Free]
  /\ whole = {} /\ hurried = {}

----------------------------------------------------------------------------
(* The login service and the session *)

\* paste of the login service: one at a time, none after an error
Send ==
  /\ sent < MaxPastes /\ loop = "running"
  /\ \A p \in 1..sent : answer[p] = "confirmed"
  /\ sent' = sent + 1
  /\ UNCHANGED <<current, loop, handled, answer, backend, writer, history>>

\* The user switches terminals, and back.
SessionChanges ==
  /\ current' = ~current
  /\ UNCHANGED <<loop, sent, handled, answer, backend, writer, history>>

\* The socket closes, or the identity of the session is no longer ready.
Quits ==
  /\ loop = "running" /\ loop' = "quit"
  /\ UNCHANGED <<current, sent, handled, answer, backend, writer, history>>

----------------------------------------------------------------------------
(* The backend *)

\* completed: the login service reads one verdict of each paste.
Completed(p, verdict) ==
  IF p = 0 \/ answer[p] \in {"confirmed", "refused"} THEN answer ELSE [answer EXCEPT ![p] = verdict]

\* finish
Finish(verdict) ==
  /\ timer' = "none" /\ request' = 0
  /\ answer' = Completed(request, verdict)

\* paste and command: the selection is ours, the deadline runs.  A timer that was
\* running is forgotten, not removed.
Paste(p) ==
  /\ text' = p /\ request' = p /\ timer' = "deadline"
  /\ overtaken' = IF timer = "none" THEN overtaken ELSE overtaken + 1
  /\ hurried' = IF timer = "none" /\ overtaken = 0 THEN hurried ELSE hurried \cup {p}
  /\ answer' = [answer EXCEPT ![p] = "ready"]
  /\ UNCHANGED loop

\* SetSelection fails: the fields stay, and unless the session was at fault the
\* loop ends.
PasteFails(p) ==
  /\ text' = p /\ request' = p
  /\ loop' \in {loop, "quit"}
  /\ answer' = Completed(p, "refused")
  /\ UNCHANGED <<timer, overtaken, hurried>>

Command ==
  /\ loop # "closed" /\ handled < sent
  /\ handled' = handled + 1
  /\ IF request # 0 \/ ~current
       THEN answer' = Completed(handled', "refused") /\ UNCHANGED <<loop, backend, hurried>>
       ELSE Paste(handled') \/ PasteFails(handled')
  /\ UNCHANGED <<current, sent, writer, whole>>

\* transfer: a reader asks for the selection, at any time and often; without a
\* thread for it, it is refused.
Transfer(w) ==
  /\ loop # "closed" /\ text # 0
  /\ writer[w].state = "free" /\ current
  /\ writer' = [writer EXCEPT ![w] = [state |-> "writing", text |-> text, request |-> request]]
  /\ UNCHANGED <<current, loop, sent, handled, answer, backend, history>>

\* The session is not current, or the compositor refuses the write.
TransferFails ==
  /\ loop # "closed" /\ text # 0
  /\ \E w \in Writers : writer[w].state = "free"
  /\ timer # "none" \/ request # 0   \* else nothing changes
  /\ Finish("refused")
  /\ UNCHANGED <<current, loop, sent, handled, text, overtaken, writer, history>>

\* The thread: all of the text within half a second, or a failure.
Write(w) ==
  /\ writer[w].state = "writing"
  /\ \E result \in {"written", "failed"} :
       /\ writer' = [writer EXCEPT ![w].state = result]
       /\ whole' = IF result = "written" THEN whole \cup {writer[w].text} ELSE whole
  /\ UNCHANGED <<current, loop, sent, handled, answer, backend, hurried>>

\* Mutant: a reader of an earlier paste counts for the one that is pending.
SettleAny(w) ==
  IF writer[w].state = "failed" THEN Finish("refused")
  ELSE timer' = "quiet" /\ UNCHANGED <<request, answer>>

\* A reader of the pending paste: its failure is the paste's, its success starts
\* the quiet period again.  A reader that asked when no paste was pending, and
\* finds none, starts one as well.
Settle(w) ==
  IF writer[w].request # request THEN UNCHANGED <<request, timer, answer>>
  ELSE IF writer[w].state = "failed" THEN Finish("refused")
  ELSE timer' = "quiet" /\ UNCHANGED <<request, answer>>

\* done: SelectionWriteDone, then the paste's fate; the call fails when the
\* session is not current, or on the bus.
Done(w) ==
  /\ loop # "closed" /\ writer[w].state \in {"written", "failed"}
  /\ \/ current /\ Settle(w)
     \/ Finish("refused")
  /\ writer' = [writer EXCEPT ![w] = Free]
  /\ UNCHANGED <<current, loop, sent, handled, text, overtaken, history>>

\* Mutant: the deadline is left out.
NoDeadline ==
  /\ loop # "closed" /\ timer = "quiet"
  /\ Finish("confirmed")
  /\ UNCHANGED <<current, loop, sent, handled, text, overtaken, writer, history>>

\* The timer of the backend: 800 ms for the first reader, 34 ms of quiet
TimerFires ==
  /\ loop # "closed" /\ timer # "none"
  /\ Finish(IF timer = "quiet" THEN "confirmed" ELSE "refused")
  /\ UNCHANGED <<current, loop, sent, handled, text, overtaken, writer, history>>

\* A quiet period that a later paste forgot ends: it confirms whatever is pending.
OvertakenFires ==
  /\ loop # "closed" /\ overtaken > 0
  /\ overtaken' = overtaken - 1
  /\ Finish("confirmed")
  /\ UNCHANGED <<current, loop, sent, handled, text, writer, history>>

\* close, after the loop: the process ends with its threads.
Close ==
  /\ loop = "quit" /\ loop' = "closed"
  /\ Finish("refused")
  /\ text' = 0 /\ overtaken' = 0
  /\ writer' = [w \in Writers |-> Free]
  /\ UNCHANGED <<current, sent, handled, history>>

----------------------------------------------------------------------------
Next ==
  \/ Send \/ SessionChanges \/ Quits \/ Command
  \/ \E w \in Writers : Transfer(w) \/ Write(w) \/ Done(w)
  \/ TransferFails \/ TimerFires \/ OvertakenFires \/ Close

\* The loop runs its sources, a thread ends after half a second, a timer fires:
\* readers that ask again and again postpone the quiet period, which the login
\* service cuts off after two seconds.
Fairness ==
  /\ WF_vars(Command) /\ WF_vars(TimerFires) /\ WF_vars(OvertakenFires) /\ WF_vars(Close)
  /\ \A w \in Writers : WF_vars(Write(w) \/ Done(w))

Spec == Init /\ [][Next]_vars /\ Fairness

----------------------------------------------------------------------------
(* Properties *)

\* A paste is confirmed only when a reader has read this very text to its end,
\* whatever readers of earlier texts, failures and terminal switches come in
\* between; only a paste that arrived in the quiet period of a late reader may
\* be confirmed by that period.
ConfirmedWasRead == \A p \in Pastes : answer[p] = "confirmed" => p \in whole \cup hurried

\* Every paste is confirmed or refused, or the child is gone.
Outstanding == \E p \in 1..sent : answer[p] \in {"none", "ready"}
PasteSettles == Outstanding ~> ~Outstanding \/ loop = "closed"
=============================================================================
