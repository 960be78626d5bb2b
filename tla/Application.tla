----------------------------- MODULE Application -----------------------------
(***************************************************************************)
(* The supervisor of a launched application (application.py,               *)
(* application_processes.py, application_scope.py): it launches, adopts    *)
(* and waits for every process of the application, ends them all on        *)
(* SIGTERM, and forwards the launcher's request for a systemd scope, which *)
(* names the launcher by its number.                                       *)
(*                                                                         *)
(* With a scope service the main thread runs a GLib loop and a second      *)
(* thread waits for the children; without one the main thread waits.  The  *)
(* signal's handler runs in the main thread, between any two of its steps. *)
(***************************************************************************)
EXTENDS ProcessTable, Sequences

VARIABLES
    scope,     \* launched with the scope service
    main,      \* where launch stands
    waiter,    \* LaunchChildren.wait: where it stands, and the child it has found
    pass,      \* the frames of terminate_children of each thread, the innermost first
    stopped,   \* SIGTERM was handled
    launcher,  \* the number of the process that was launched; Sup: none
    observed,  \* root_statuses: whose status counts as the launcher's; 0: nobody's
    unit,      \* the scope request: its state, and whether its job's end came early
    systemd, reply, removed, \* the service, its answer and its JobRemoved on the way
    receipt,
    struck     \* history: a pass has killed a stranger, and knew its parent

threads == {"main", "waiter"}
service == <<unit, systemd, reply, removed>>
control == <<scope, main, stopped, launcher, receipt>>
vars == <<proc, starts, control, waiter, pass, observed, service, struck>>

NoFrame == <<>>
NoRequest == [state |-> "none", early |-> FALSE]

\* The scope service of a launch that has one, made before the launcher is
\* started; one that cannot be made fails the launch.
NothingAsked == unit = NoRequest /\ systemd = "idle" /\ reply = "none" /\ removed = FALSE

Init ==
  /\ proc = [p \in Pids |-> Free] /\ starts = 0
  /\ scope \in BOOLEAN /\ main = "launch" /\ stopped = FALSE /\ launcher = Sup
  /\ receipt = "none"
  /\ waiter = [at |-> "none", child |-> Sup]
  /\ pass = [t \in threads |-> NoFrame]
  /\ observed = 0
  /\ NothingAsked
  /\ struck = FALSE

\* The main thread is not in the signal's handler.
MainFree == pass["main"] = NoFrame

\* The waiting thread can run: without a scope service it is the main thread.
WaiterFree == scope \/ MainFree

\* The launcher's number is named in a request whose lease is open.
Pinned(p) == p = launcher /\ unit.state \in {"pending", "accepted", "uncertain"}

----------------------------------------------------------------------------
(* launch *)

\* GIO starts the launcher, under any number, and register records it.
Launch ==
  /\ main = "launch" /\ MainFree
  /\ launcher' = CHOOSE p \in Pids : TRUE
  /\ Started(launcher', Sup, TRUE)
  /\ main' = "spawned"
  /\ UNCHANGED <<scope, stopped, receipt, waiter, pass, observed, service, struck>>

\* Nothing starts.  A receipt that cannot be written leaves what was started alone.
LaunchFails ==
  /\ main \in {"launch", "spawned"} /\ MainFree
  /\ main' = "gone" /\ receipt' = "failed"
  /\ UNCHANGED <<proc, starts, scope, stopped, launcher, waiter, pass, observed, service, struck>>

\* The running receipt is written, the wait begins.
Running ==
  /\ main = "spawned" /\ MainFree
  /\ receipt' = "running" /\ main' = "serving"
  /\ waiter' = [waiter EXCEPT !.at = "before"]
  /\ UNCHANGED <<proc, starts, scope, stopped, launcher, pass, observed, service, struck>>

\* The loop ends, the scope service closes, SIGTERM is ignored from here on.  A
\* request that is still open makes the service's close raise.
WaitEnded ==
  /\ main = "serving" /\ waiter.at = "done" /\ MainFree
  /\ main' = "gone"
  /\ receipt' = IF Pinned(launcher) THEN "failed" ELSE "exited"
  /\ UNCHANGED <<proc, starts, scope, stopped, launcher, waiter, pass, observed, service, struck>>

----------------------------------------------------------------------------
(* terminate_children *)

\* A call of terminate(of): the children file lists zombies as well, and is empty
\* or missing for a process that is gone.
\* astray: a stranger had the number of of, or of what it descends from, when a
\* child was compared with it.
Frame(of, astray) ==
  [of |-> of, left |-> ChildrenOf(of), child |-> Sup, id |-> 0, at |-> "next", astray |-> astray]
Done(f) == [f EXCEPT !.child = Sup, !.id = 0, !.at = "next"]

Top(t) == pass[t][1]
Replace(t, f) == pass' = [pass EXCEPT ![t] = <<f>> \o Tail(@)]
Idle(t) == t = "main" \/ WaiterFree   \* the thread is not held by the handler
InPass(t, at) == pass[t] # NoFrame /\ Top(t).at = at /\ Idle(t)
Still == UNCHANGED <<control, waiter, observed, service>>

\* The signal's handler, once: the flag, then a pass.
Terminate ==
  /\ main \in {"launch", "spawned", "serving"} /\ ~stopped
  /\ stopped' = TRUE
  /\ pass' = [pass EXCEPT !["main"] = <<Frame(Sup, FALSE)>>]
  /\ UNCHANGED <<proc, starts, scope, main, launcher, receipt, waiter, observed, service, struck>>

\* pidfd_open of the next child, if its number still names a process
Open(t) ==
  /\ InPass(t, "next")
  /\ \E c \in Top(t).left :
       Replace(t, IF proc[c].state = "free" THEN [Top(t) EXCEPT !.left = @ \ {c}]
                  ELSE [Top(t) EXCEPT !.left = @ \ {c}, !.child = c, !.id = proc[c].id, !.at = "open"])
  /\ UNCHANGED <<proc, starts, struck>> /\ Still

\* Mutant: the parent is not compared.
CheckNothing(t) ==
  /\ InPass(t, "open")
  /\ Replace(t, [Top(t) EXCEPT !.at = "checked"])
  /\ UNCHANGED <<proc, starts, struck>> /\ Still

\* The process that was opened below no longer has the frame's number.
Strays(t) == Len(pass[t]) > 1 /\ proc[Top(t).of].id # pass[t][2].id

\* The process that has the child's number now is a child of what has the frame's.
Check(t) ==
  /\ InPass(t, "open")
  /\ Replace(t, IF Top(t).child \in ChildrenOf(Top(t).of)
                THEN [Top(t) EXCEPT !.at = "checked", !.astray = @ \/ Strays(t)] ELSE Done(Top(t)))
  /\ UNCHANGED <<proc, starts, struck>> /\ Still

\* terminate(pid): what has the number now is listed.
Descend(t) ==
  /\ InPass(t, "checked")
  /\ pass' = [pass EXCEPT ![t] = 
       <<Frame(Top(t).child, Top(t).astray), [Top(t) EXCEPT !.at = "kill"]>> \o Tail(@)]
  /\ UNCHANGED <<proc, starts, struck>> /\ Still

\* The outermost list is done.
Return(t) ==
  /\ InPass(t, "next") /\ Top(t).left = {} /\ Len(pass[t]) = 1
  /\ pass' = [pass EXCEPT ![t] = NoFrame]
  /\ UNCHANGED <<proc, starts, struck>> /\ Still

\* The list of a child is done, pidfd_send_signal: it strikes the process that was
\* opened, if that still runs.
Kill(t) ==
  /\ InPass(t, "next") /\ Top(t).left = {} /\ Len(pass[t]) > 1
  /\ LET f == pass[t][2]
         hit == Alive(f.child) /\ proc[f.child].id = f.id
     IN /\ proc' = IF hit THEN Ended(f.child) ELSE proc
        /\ struck' = (struck \/ (hit /\ ~proc[f.child].own /\ ~f.astray))
        /\ pass' = [pass EXCEPT ![t] = <<Done(f)>> \o Tail(Tail(@))]
  /\ UNCHANGED starts /\ Still

----------------------------------------------------------------------------
(* LaunchChildren.wait *)

\* Mutant: a pass is made once, by the handler.
BeforeWaitOnce ==
  /\ waiter.at = "before" /\ WaiterFree
  /\ waiter' = [waiter EXCEPT !.at = "wait"]
  /\ UNCHANGED <<proc, starts, control, pass, observed, service, struck>>

\* before_wait: after SIGTERM, every wait is preceded by a pass.
BeforeWait ==
  /\ waiter.at = "before" /\ WaiterFree
  /\ waiter' = [waiter EXCEPT !.at = "wait"]
  /\ pass' = IF stopped THEN [pass EXCEPT !["waiter"] = <<Frame(Sup, FALSE)>>] ELSE pass
  /\ UNCHANGED <<proc, starts, control, observed, service, struck>>

\* waitid with WNOWAIT: a child that has ended, or no child at all
WaitId ==
  /\ waiter.at = "wait" /\ WaiterFree /\ pass["waiter"] = NoFrame
  /\ \/ \E c \in ChildrenOf(Sup) :
          /\ proc[c].state = "zombie"
          /\ waiter' = [at |-> "found", child |-> c]
     \/ ChildrenOf(Sup) = {} /\ waiter' = [waiter EXCEPT !.at = "done"]
  /\ UNCHANGED <<proc, starts, control, pass, observed, service, struck>>

\* Mutant: a number in a request is given back as soon as its process has ended.
ReapAnyTime ==
  /\ waiter.at = "found" /\ WaiterFree
  /\ proc' = [proc EXCEPT ![waiter.child] = Free]
  /\ observed' = IF waiter.child = launcher /\ observed = 0 THEN proc[launcher].id ELSE observed
  /\ waiter' = [at |-> "before", child |-> Sup]
  /\ UNCHANGED <<starts, control, pass, service, struck>>

\* Mutant: the last status of the number counts.
ReapLast ==
  /\ waiter.at = "found" /\ WaiterFree /\ ~Pinned(waiter.child)
  /\ proc' = [proc EXCEPT ![waiter.child] = Free]
  /\ observed' = IF waiter.child = launcher THEN proc[launcher].id ELSE observed
  /\ waiter' = [at |-> "before", child |-> Sup]
  /\ UNCHANGED <<starts, control, pass, service, struck>>

\* waitpid, once no request names the number; the first status of the launcher's
\* number is the launcher's.
Reap ==
  /\ waiter.at = "found" /\ WaiterFree /\ ~Pinned(waiter.child)
  /\ proc' = [proc EXCEPT ![waiter.child] = Free]
  /\ observed' = IF waiter.child = launcher /\ observed = 0 THEN proc[launcher].id ELSE observed
  /\ waiter' = [at |-> "before", child |-> Sup]
  /\ UNCHANGED <<starts, control, pass, service, struck>>

----------------------------------------------------------------------------
(* ScopeService, in the main thread's loop *)

Looping == scope /\ main = "serving" /\ MainFree /\ waiter.at # "done"
Outside == UNCHANGED <<proc, starts, control, waiter, pass, observed, struck>>

\* pin accepts the process that was registered, as long as it runs.
Pin == Alive(launcher) /\ proc[launcher].id = 1

\* call: the launcher asks to be moved into a scope, once.
Call ==
  /\ Looping /\ unit.state = "none" /\ Pin
  /\ unit' = [NoRequest EXCEPT !.state = "pending"]
  /\ systemd' = IF systemd = "gone" THEN "gone" ELSE "asked"
  /\ UNCHANGED <<reply, removed>> /\ Outside

\* systemd: it starts a job or refuses, the job ends, or the service does.
Answer(accepted) ==
  /\ systemd = "asked"
  /\ systemd' = IF accepted THEN "job" ELSE "refused"
  /\ reply' = IF reply # "none" \/ unit.state # "pending" THEN reply
              ELSE IF accepted THEN "ok" ELSE "refused"
  /\ UNCHANGED <<unit, removed>> /\ Outside

JobEnds ==
  /\ systemd = "job" /\ systemd' = "ended"
  /\ removed' = TRUE
  /\ UNCHANGED <<unit, reply>> /\ Outside

SystemdEnds ==
  /\ systemd \notin {"gone", "noticed"} /\ systemd' = "gone"
  /\ UNCHANGED <<unit, reply, removed>> /\ Outside

\* The call of the service fails in this process: ten seconds, the connection, or
\* the service is gone.
CallLost ==
  /\ unit.state = "pending" /\ reply = "none"
  /\ reply' = "lost"
  /\ UNCHANGED <<unit, systemd, removed>> /\ Outside

Retired == [unit EXCEPT !.state = "retired"]

\* completed: the job runs, unless its end came first; a refusal by systemd ends
\* the request; after any other error its fate is unknown.
Completed ==
  /\ Looping /\ reply \notin {"none", "read"}
  /\ reply' = "read"
  /\ unit' = IF unit.state # "pending" THEN unit
                ELSE IF reply = "refused" \/ unit.early THEN Retired
                ELSE [unit EXCEPT !.state = IF reply = "ok" THEN "accepted" ELSE "uncertain"]
  /\ UNCHANGED <<systemd, removed>> /\ Outside

\* job_removed and relay
JobRemoved ==
  /\ Looping /\ removed /\ removed' = FALSE
  /\ unit' = IF unit.state = "pending" THEN [unit EXCEPT !.early = TRUE]
                ELSE IF unit.state = "retired" THEN unit ELSE Retired
  /\ UNCHANGED <<systemd, reply>> /\ Outside

\* owner_changed: every request ends.
OwnerChanged ==
  /\ Looping /\ systemd = "gone" /\ systemd' = "noticed"
  /\ unit' = IF unit.state = "none" THEN unit ELSE Retired
  /\ UNCHANGED <<reply, removed>> /\ Outside

----------------------------------------------------------------------------
PassStep(t) == Open(t) \/ Check(t) \/ Descend(t) \/ Return(t) \/ Kill(t)
MainThread == Running \/ WaitEnded \/ PassStep("main")
WaitingThread == BeforeWait \/ WaitId \/ Reap \/ PassStep("waiter")
Loop == Completed \/ JobRemoved \/ OwnerChanged
Systemd == JobEnds \/ \E accepted \in BOOLEAN : Answer(accepted)
Live == main # "gone" /\ launcher # Sup   \* what runs on after the supervisor is left out
OtherProcesses ==
  Live /\ Processes /\ UNCHANGED <<control, waiter, pass, observed, service, struck>>

Next ==
  \/ Launch \/ LaunchFails \/ MainThread \/ Terminate \/ WaitingThread
  \/ Call \/ CallLost \/ Loop \/ Systemd \/ SystemdEnds
  \/ OtherProcesses

\* The threads run; systemd answers, and its jobs end.  Nothing is assumed of the
\* application's processes.
Fairness == WF_vars(MainThread) /\ WF_vars(WaitingThread) /\ WF_vars(Loop) /\ WF_vars(Systemd)

Spec == Init /\ [][Next]_vars /\ Fairness

----------------------------------------------------------------------------
(* Properties *)

\* When the wait is over, no process of the application is left, however it was
\* orphaned, the exit code is the launcher's own though its number may have
\* served other processes since, and no scope request makes the supervisor fail.
ExitedWhole == waiter.at = "done" =>
  /\ \A p \in Pids : ~proc[p].own
  /\ observed = 1
  /\ receipt # "failed"

\* Only the application's own processes are named to systemd or struck.  As
\* long as systemd may act on a request, the number in it is the launcher's:
\* neither its end, SIGTERM, a lost call nor an early end of the job gives the
\* number to another process.  And SIGTERM strikes no process outside the
\* application, except below a stranger that had taken the number of a
\* descendant when a child was compared with it.
StrangersSpared ==
  /\ systemd \in {"asked", "job"} => proc[launcher].id = 1
  /\ ~struck

\* After SIGTERM, or once the application's last process has ended, supervision
\* ends, whatever processes fork during the passes; only a request that systemd
\* refused after the call was lost can hold it up.
SupervisionEnds ==
  main = "serving" /\ (stopped \/ \A p \in Pids : ~(Alive(p) /\ proc[p].own))
    ~> receipt = "exited" \/ (unit.state = "uncertain" /\ systemd = "refused")
=============================================================================
