--------------------------- MODULE MCPreparation ---------------------------
(* The constants of Preparation's runs.                                    *)
EXTENDS Preparation, TLC

CONSTANTS c1, c2, r1, r2, a1, a2

MCCallers == {c1, c2}
MCRequests == {r1, r2}
MCArtifacts == {a1, a2}

KnownOne == <<  <<1>> >>

Absent == [v \in Releases |-> "absent"]

\* A fresh root: nothing installed, the cache in any state.
FreshDisks ==
    {[record |-> [version |-> 0, op |-> Blank(1)], packages |-> Absent,
      archives |-> f] : f \in [Artifacts -> ArchiveStates]}

\* Release 2 supports what release 1 installed; release 1 predates release 2,
\* which is to it what a retired package is to a later release.
KnownTwo == << <<1>>, <<2, 1>> >>

\* What release 1 may have left: bare package directories, or a version 1
\* record in one of three states with the directories it may stand beside.
LegacyOp(state) == [Blank(1) EXCEPT !.owner = c1, !.request = r1,
                                    !.source = "download", !.state = state]
LegacyDisks ==
    {d \in [record : {[version |-> 0, op |-> Blank(1)]} \cup
                     {[version |-> 1, op |-> LegacyOp(state)] :
                        state \in {"ready", "downloading", "failed"}},
            packages : {[Absent EXCEPT ![1] = p] :
                          p \in {"absent", "damaged", "usable"}},
            archives : {[a \in Artifacts |-> "absent"]}] : LegacyDisk(d)}

Symmetry == Permutations(Callers) \cup Permutations(Requests)
              \cup Permutations(Artifacts)
============================================================================
