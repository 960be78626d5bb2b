------------------------ MODULE PreparationContract ------------------------
(***************************************************************************)
(* What the host product may rely on: which installed recipe Directory     *)
(* hands out, which one the record will restore after a crash, and when    *)
(* either may change.  Preparation implements it.                          *)
(***************************************************************************)
CONSTANTS Releases, None

VARIABLES
    phase,    \* where the one operation is, see Phases
    current,  \* the recipe of the SDK release that is, or was last, running
    usable,   \* the installations that resolve
    offered,  \* the selection of the live Manager, None if there is none
    durable   \* the selection on disk

vars == <<phase, current, usable, offered, durable>>

Phases == {"down", "idle", "busy", "stopping", "committing", "placed"}

TypeOK == /\ phase \in Phases
          /\ current \in Releases
          /\ usable \in SUBSET Releases
          /\ offered \in Releases \cup {None}
          /\ durable \in Releases \cup {None}

Init == /\ phase = "down"
        /\ current \in Releases
        /\ usable \in SUBSET Releases
        /\ offered = None
        /\ durable = None

\* Every write of the record carries the offered selection.
Write == durable' \in {durable, offered}

\* A Manager takes over what is on disk, adopts an installation that no
\* record selects, or gives up a selection it cannot support.
Up == /\ phase = "down"
      /\ phase' = "idle"
      /\ current' \in Releases
      /\ offered' \in Releases \cup {None}
      /\ \/ offered' \in {durable, None} /\ durable' = durable
         \/ durable = None /\ durable' = offered'
      /\ UNCHANGED usable

Down == /\ phase # "down"
        /\ phase' = "down"
        /\ offered' = None
        /\ UNCHANGED <<current, usable, durable>>

Begin == /\ phase = "idle"
         /\ phase' \in {"idle", "busy"}
         /\ Write
         /\ UNCHANGED <<current, usable, offered>>

Work == /\ phase \in {"busy", "stopping"}
        /\ Write
        /\ UNCHANGED <<phase, current, usable, offered>>

Stop == /\ phase = "busy"
        /\ phase' = "stopping"
        /\ UNCHANGED <<current, usable, offered, durable>>

\* Only an operation that nobody stopped can change anything.
Commit == /\ phase = "busy"
          /\ phase' = "committing"
          /\ UNCHANGED <<current, usable, offered, durable>>

Place == /\ phase = "committing"
         /\ phase' = "placed"
         /\ usable' = usable \cup {current}
         /\ UNCHANGED <<current, offered, durable>>

\* The selection changes in memory and on disk in one step, to the current
\* recipe, which resolves or has just been put in place.
Select == /\ \/ phase = "idle" /\ current \in usable
             \/ phase = "placed"
          /\ phase' = "idle"
          /\ offered' = current
          /\ durable' = current
          /\ UNCHANGED <<current, usable>>

GiveUp == /\ phase \in {"busy", "stopping", "committing", "placed"}
          /\ phase' = "idle"
          /\ Write
          /\ UNCHANGED <<current, usable, offered>>

Harm(v) == /\ usable' = usable \ {v}
           /\ UNCHANGED <<phase, current, offered, durable>>

Next == \/ Up \/ Down \/ Begin \/ Work \/ Stop \/ Commit \/ Place \/ Select
        \/ GiveUp
        \/ \E v \in Releases : Harm(v)

Spec == Init /\ [][Next]_vars

\* The selection on offer is the one that survives a crash.
OfferedIsDurable == offered # None => durable = offered
============================================================================
