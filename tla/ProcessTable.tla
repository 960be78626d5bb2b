----------------------------- MODULE ProcessTable -----------------------------
(***************************************************************************)
(* The kernel's table of processes as the application's supervisor sees it *)
(* (application.py, application_processes.py): a number is free, runs a    *)
(* process or belongs to a zombie, and is given to another process once    *)
(* the zombie was waited for.  The supervisor adopts the orphans among its *)
(* descendants (PR_SET_CHILD_SUBREAPER).                                   *)
(***************************************************************************)
EXTENDS Naturals

CONSTANTS
    Pids,       \* process numbers
    Sup, Other, \* the supervisor; the parent of everything that is not its descendant
    MaxStarts   \* bound: processes that start, numbered in their order; 0: none

VARIABLES
    proc,       \* the process of each number: its own number never repeats
    starts      \* processes that have started

Free == [state |-> "free", id |-> 0, parent |-> Other, own |-> FALSE]

Alive(p) == proc[p].state = "running"
ChildrenOf(parent) == {c \in Pids : proc[c].state # "free" /\ proc[c].parent = parent}

\* The table after a process of parent has started under a free number.
Started(p, parent, own) ==
  /\ starts < MaxStarts /\ proc[p].state = "free"
  /\ starts' = starts + 1
  /\ proc' = [proc EXCEPT ![p] = [state |-> "running", id |-> starts + 1, parent |-> parent, own |-> own]]

\* An orphan goes to the supervisor, or to init, which waits for it at once.
Orphan(r) ==
  IF r.own THEN [r EXCEPT !.parent = Sup]
  ELSE IF r.state = "zombie" THEN Free ELSE [r EXCEPT !.parent = Other]

\* The table after the process of p has ended.
Ended(p) == [q \in Pids |->
  IF q = p THEN IF proc[p].parent = Other THEN Free ELSE [proc[p] EXCEPT !.state = "zombie"]
  ELSE IF q \in ChildrenOf(p) THEN Orphan(proc[q])
  ELSE proc[q]]

Fork(p, q) == Alive(p) /\ Started(q, p, proc[p].own)

\* A process that has nothing to do with the application takes a number.
Stranger(q) == Started(q, Other, FALSE)

Exit(p) == Alive(p) /\ proc' = Ended(p) /\ UNCHANGED starts

\* A process waits for a child of its own.
Wait(p) ==
  /\ proc[p].state = "zombie" /\ proc[p].parent \in Pids
  /\ proc' = [proc EXCEPT ![p] = Free]
  /\ UNCHANGED starts

Processes == \E p \in Pids :
  \/ \E q \in Pids : Fork(p, q)
  \/ Stranger(p) \/ Exit(p) \/ Wait(p)
=============================================================================
