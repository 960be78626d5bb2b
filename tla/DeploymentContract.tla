------------------------- MODULE DeploymentContract -------------------------
(***************************************************************************)
(* What an administrator may rely on: the files of the installed service   *)
(* change only by whole transactions, whatever fails or crashes inside     *)
(* one.  Deployment implements it.                                         *)
(***************************************************************************)
CONSTANTS Digests, None

VARIABLE installed  \* the files that count: those a recovery would leave

VersionStates == {"absent", "altered", "good"}
Trees == [versions : [Digests -> VersionStates], policy : Digests \cup {None}]
Installations == [root : Trees \cup {None}, unit : Digests \cup {None},
                  driver : BOOLEAN]

NoVersions == [d \in Digests |-> "absent"]
VersionsOf(i) == IF i.root = None THEN NoVersions ELSE i.root.versions

\* Policy d is recorded, its files are verified, and the unit runs them; the
\* versions retained for other policies are as they were.
Ensured(i, d) ==
    [root |-> [versions |-> [VersionsOf(i) EXCEPT ![d] = "good"],
               policy |-> d],
     unit |-> d,
     driver |-> TRUE]

Uninstalled == [root |-> None, unit |-> None, driver |-> FALSE]

Init == installed \in Installations

Ensure(d) == installed' = Ensured(installed, d)
Uninstall == installed' = Uninstalled

Next == Uninstall \/ \E d \in Digests : Ensure(d)

Spec == Init /\ [][Next]_installed
============================================================================
