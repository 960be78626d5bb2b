----------------------------- MODULE ProcessPeers -----------------------------
(***************************************************************************)
(* Who may speak for an application (ProcessTree and ProcessReference of   *)
(* application_processes.py): a caller's process number is admitted if the *)
(* process is a descendant of the supervisor recorded at launch.  The check*)
(* reads the kernel's table call by call, on the main loop, while processes*)
(* start, end and take over numbers; a descriptor keeps naming the process *)
(* it was opened on, but neither freezes its ancestry nor reserves the     *)
(* number once it was waited for.                                          *)
(*                                                                         *)
(* identity(pid) is the parent and the start time, which no two processes  *)
(* of one number share: it is the number of the start here.                *)
(***************************************************************************)
EXTENDS ProcessTable, Sequences, FiniteSets

CONSTANT MaxReferences   \* 256 in admit

VARIABLES
    tree,       \* the tree's descriptor of the supervisor is "open" or "closed"
    root,       \* the supervisor: "running" or "ended"
    references, \* the peers that were admitted
    walk,       \* the check that is under way
    belonged,   \* history: the process that is checked was a descendant since the check began
    granted     \* history: a check granted a living process that was not one

vars == <<proc, starts, tree, root, references, walk, belonged, granted>>

NoWalk == [why |-> "none", at |-> "idle", peer |-> [pid |-> Sup, started |-> 0, descriptor |-> 0],
           parent |-> Other, pid |-> Sup, chain |-> <<>>, left |-> <<>>]

Init ==
  /\ proc = [p \in Pids |-> Free] /\ starts = 0
  /\ tree = "open" /\ root = "running" /\ references = {}
  /\ walk = NoWalk /\ belonged = FALSE /\ granted = FALSE

----------------------------------------------------------------------------
(* The kernel *)

Named(p) == proc[p].state # "free"
Identity(p) == [parent |-> proc[p].parent, started |-> proc[p].id]
Exited(descriptor) == ~\E p \in Pids : Alive(p) /\ proc[p].id = descriptor

\* The supervisor starts a process, and waits for one.
SupForks(p) == root = "running" /\ Started(p, Sup, TRUE)
SupWaits(p) ==
  /\ proc[p].state = "zombie" /\ proc[p].parent = Sup
  /\ proc' = [proc EXCEPT ![p] = Free] /\ UNCHANGED starts

\* What the supervisor leaves behind goes to init, and is nobody's from there on.
SupEnds ==
  /\ root = "running" /\ root' = "ended"
  /\ proc' = [p \in Pids |->
       IF proc[p].parent = Sup THEN Orphan([proc[p] EXCEPT !.own = FALSE]) ELSE [proc[p] EXCEPT !.own = FALSE]]
  /\ UNCHANGED <<starts, tree, references, walk, granted>>

Kernel ==
  \/ SupEnds
  \/ /\ Processes \/ \E p \in Pids : SupForks(p) \/ SupWaits(p)
     /\ UNCHANGED <<tree, root, references, walk, granted>>

----------------------------------------------------------------------------
(* The check, one call of the kernel per step *)

At(step) == walk.at = step
To(step) == walk' = [walk EXCEPT !.at = step]
Refuse == walk' = NoWalk
Step == UNCHANGED <<proc, starts, tree, root>>
Quiet == Step /\ UNCHANGED <<references, granted>>

\* ProcessTree.admit: the identity, then a descriptor, then both again.
Admit(p) ==
  /\ walk = NoWalk /\ Named(p) /\ Cardinality(references) < MaxReferences
  /\ walk' = [NoWalk EXCEPT !.why = "admit", !.at = "open", !.parent = proc[p].parent, !.pid = p,
                            !.peer = [pid |-> p, started |-> proc[p].id, descriptor |-> 0]]
  /\ Quiet

AdmitOpen ==
  /\ At("open") /\ Quiet
  /\ IF Named(walk.pid)
     THEN walk' = [walk EXCEPT !.at = "alive", !.peer.descriptor = proc[walk.pid].id] ELSE Refuse

\* ProcessReference.valid, of a peer that was admitted
Valid(peer) ==
  /\ walk = NoWalk /\ peer \in references
  /\ walk' = [NoWalk EXCEPT !.why = "valid", !.at = "alive", !.peer = peer, !.pid = peer.pid]
  /\ Quiet

PeerAlive == At("alive") /\ Quiet /\ IF Exited(walk.peer.descriptor) THEN Refuse ELSE To("same")

PeerSame ==
  /\ At("same") /\ Quiet
  /\ IF /\ Named(walk.pid) /\ proc[walk.pid].id = walk.peer.started
        /\ walk.why = "admit" => proc[walk.pid].parent = walk.parent
     THEN To("root") ELSE Refuse

\* owns: the supervisor is still the one that was recorded.
RootAlive ==
  /\ At("root") /\ Quiet
  /\ IF tree = "open" /\ root = "running" THEN To("read") ELSE Refuse

\* owns, for the process and each of its ancestors: read, open, alive, same.
Seen == {walk.chain[i].pid : i \in DOMAIN walk.chain}

Read ==
  /\ At("read") /\ Quiet
  /\ IF walk.pid \in Pids \ Seen /\ Named(walk.pid)
     THEN walk' = [walk EXCEPT !.at = "opened",
            !.chain = Append(@, [pid |-> walk.pid, identity |-> Identity(walk.pid), descriptor |-> 0])]
     ELSE Refuse

Last == walk.chain[Len(walk.chain)]

Open ==
  /\ At("opened") /\ Quiet
  /\ IF Named(Last.pid)
     THEN walk' = [walk EXCEPT !.at = "lives", !.chain[Len(walk.chain)].descriptor = proc[Last.pid].id]
     ELSE Refuse

Lives == At("lives") /\ Quiet /\ IF Exited(Last.descriptor) THEN Refuse ELSE To("unchanged")

Unchanged(link) == Named(link.pid) /\ Identity(link.pid) = link.identity

\* Mutant: the chain that led to the supervisor is believed.
ReachedAtOnce == [walk EXCEPT !.at = "whole", !.left = <<>>]

\* The chain has reached the supervisor: it is read once more as a whole.
Reached == [walk EXCEPT !.at = "again", !.left = walk.chain]

Climb ==
  /\ At("unchanged") /\ Quiet
  /\ IF ~Unchanged(Last) THEN Refuse
     ELSE IF Last.identity.parent = Sup THEN walk' = Reached
     ELSE walk' = [walk EXCEPT !.at = "read", !.pid = Last.identity.parent]

RootAgain ==
  /\ At("again") /\ Quiet
  /\ IF root = "running" THEN To("still") ELSE Refuse

StillLives ==
  /\ At("still") /\ Quiet
  /\ IF Exited(Head(walk.left).descriptor) THEN Refuse ELSE To("stillSame")

StillSame ==
  /\ At("stillSame") /\ Quiet
  /\ IF ~Unchanged(Head(walk.left)) THEN Refuse
     ELSE walk' = [walk EXCEPT !.left = Tail(@), !.at = IF Len(walk.left) = 1 THEN "whole" ELSE "still"]

\* The peer is admitted, or was found valid.
Grant ==
  /\ At("whole") /\ Step
  /\ references' = IF walk.why = "admit" THEN references \cup {walk.peer} ELSE references
  /\ granted' = (granted \/ (~belonged /\ (walk.why = "valid" \/ ~Exited(walk.peer.descriptor))))
  /\ walk' = NoWalk

\* ProcessReference.close, and ProcessTree.close
CloseReference(peer) ==
  /\ walk = NoWalk /\ peer \in references
  /\ references' = references \ {peer} /\ Step /\ UNCHANGED <<walk, granted>>

CloseTree ==
  /\ walk = NoWalk /\ tree = "open" /\ tree' = "closed"
  /\ references' = {} /\ UNCHANGED <<proc, starts, root, walk, granted>>

----------------------------------------------------------------------------
\* The living processes whose parents lead to the supervisor: whatever set holds its
\* children and the children of its own members has them.
Children(S) == {p \in Pids : Alive(p) /\ proc[p].parent \in S}
Descendants ==
  {p \in Pids : root = "running" /\ \A S \in SUBSET Pids : Children(S \cup {Sup}) \subseteq S => p \in S}

Belongs == walk # NoWalk /\ \E p \in Descendants : proc[p].id = walk.peer.started

Next ==
  /\ \/ Kernel
     \/ \E p \in Pids : Admit(p)
     \/ \E peer \in references : Valid(peer) \/ CloseReference(peer)
     \/ AdmitOpen \/ PeerAlive \/ PeerSame \/ RootAlive \/ Read \/ Open \/ Lives \/ Climb
     \/ RootAgain \/ StillLives \/ StillSame \/ Grant \/ CloseTree
  /\ belonged' = (walk' # NoWalk /\ (belonged \/ Belongs'))

Spec == Init /\ [][Next]_vars

----------------------------------------------------------------------------
(* Properties *)

\* A peer is found valid only if it was a living descendant of the supervisor at
\* a moment of the very check, however numbers change hands between its calls ("A
\* pidfd does not freeze ancestry or reserve a reaped PID"); and so is a process
\* that is admitted, unless it has ended since and its number has a descendant:
\* that reference is never valid.  A reference names one process by number, start
\* and descriptor.
PeersBelong ==
  /\ ~granted
  /\ \A peer \in references : peer.started = peer.descriptor /\ peer.started # 0
=============================================================================
