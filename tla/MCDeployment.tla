---------------------------- MODULE MCDeployment ----------------------------
(* Instances of Deployment, Documents and ProcessPeers for TLC.  The        *)
(* manager of the login service has nothing in common with the document     *)
(* facade of an application, which takes what the check of its callers      *)
(* grants as it is: a behaviour is one of one of them, and the others stay  *)
(* as they start.                                                           *)
EXTENDS Deployment, FiniteSets, TLC

CONSTANTS d1, d2

MCDigests == {d1, d2}

Fresh == [root |-> None, unit |-> None, driver |-> FALSE, enabled |-> FALSE,
          active |-> FALSE]

\* Policy d1 is recorded; its files, and those of a version retained for d2,
\* are intact, damaged or, for d2, not there; where those of d1 are damaged nothing
\* is retained.
Installed(v1, v2, on) ==
    [root |-> [versions |-> (d1 :> v1 @@ d2 :> v2), policy |-> d1],
     unit |-> d1, driver |-> TRUE, enabled |-> TRUE, active |-> on]

FreshDisks == {Fresh}
Damages == ({"good"} \X VersionStates) \cup {<<"altered", "absent">>}
InstalledDisks == {Installed(v[1], v[2], on) : v \in Damages, on \in BOOLEAN}
AllDisks == FreshDisks \cup InstalledDisks

\* What is reached from the fresh disk is the same for the two digests; the other
\* disks stand for themselves and for those with the digests exchanged.
Symmetry == Permutations(MCDigests)

CONSTANTS Docs, Exported, MaxCalls, MaxDocuments, MaxWaiting, Removed
CONSTANTS Pids, Sup, Other, MaxStarts, MaxReferences

ASSUME DocumentsAssumption ==
    /\ IsFiniteSet(Exported) /\ {None, Removed} \cap Exported = {} /\ None # Removed
    /\ {MaxCalls, MaxDocuments, MaxWaiting} \subseteq Nat
\* The supervisor and what stands for everybody else are none of the numbers of the table.
ASSUME PeersAssumption == Sup # Other /\ Sup \notin Pids /\ Other \notin Pids /\ MaxStarts \in Nat

VARIABLES part,
    authority, facade, call, link, exports,
    proc, starts, tree, supervisor, references, walk, belonged, granted

documentVars == <<authority, facade, call, link, exports>>
peerVars == <<proc, starts, tree, supervisor, references, walk, belonged, granted>>

Document == INSTANCE Documents WITH Files <- Exported, host <- exports

Peer == INSTANCE ProcessPeers WITH root <- supervisor

Fewest == root = None
NoExports == \A d \in Docs : exports.file[d] = None

PartsInit ==
    /\ Init /\ Document!Init /\ Peer!Init
    /\ \/ part = "deployment" /\ NoExports
       \/ part = "documents" /\ Fewest
       \/ part = "peers" /\ Fewest /\ NoExports

PartsNext ==
    \/ part = "deployment" /\ Next /\ UNCHANGED <<part, documentVars, peerVars>>
    \/ part = "documents" /\ Document!Next /\ UNCHANGED <<part, vars, peerVars>>
    \/ part = "peers" /\ Peer!Next /\ UNCHANGED <<part, vars, documentVars>>
    \* The bounds may stop these two.
    \/ part # "deployment" /\ UNCHANGED <<part, vars, documentVars, peerVars>>

PartsSpec == PartsInit /\ [][PartsNext]_<<part, vars, documentVars, peerVars>>

\* Documents and ProcessPeers: only living descendants of the supervisor are
\* served, and what is counted, answered and removed is the instance's own.
OnlyOwn == Document!OwnGrantsOnly /\ [][Peer!PeersBelong']_peerVars
============================================================================
