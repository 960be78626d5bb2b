--------------------------- MODULE MCPreparationCore ---------------------------
(* Instances of Preparation and of XpraInput for TLC.  Preparation is over      *)
(* before an application is shown, and the two share nothing: a behaviour is    *)
(* one of either, and the other stays as it starts.                             *)
EXTENDS MCPreparation

CONSTANTS Viewers, Stamps, MaxQueue, MaxFragments, MaxMarker, ICs, MaxMessages, MaxTroubles

ASSUME XpraAssumption ==
  /\ Stamps \subseteq Nat \ {0} /\ MaxQueue \in Nat /\ MaxFragments \in Nat \ {0} /\ MaxMarker \in Nat
  /\ None \notin ICs \cup {"toolkit"} /\ "toolkit" \notin ICs

VARIABLES part, viewers, order, toolkit, xim, toApp, toXim, toBus, app, xreq, parts, xdoc, troubles

xpraVars == <<viewers, order, toolkit, xim, toApp, toXim, toBus, app, xreq, parts, xdoc, troubles>>

Xpra == INSTANCE XpraInput

PartsInit ==
  /\ Init /\ Xpra!Init
  /\ \/ part = "preparation" /\ app.route = "xim"
     \/ part = "xpra" /\ \A a \in Artifacts : archives[a] = "absent"

PartsNext ==
  \/ part = "preparation" /\ Next /\ UNCHANGED <<part, xpraVars>>
  \/ part = "xpra" /\ Xpra!Next /\ UNCHANGED <<part, vars>>
  \/ part = "xpra" /\ UNCHANGED <<part, vars, xpraVars>>   \* its bounds may stop it

PartsSpec == PartsInit /\ [][PartsNext]_<<part, vars, xpraVars>>

\* XpraInput: the server's input keeps the contract of ordered, confirmed input.
KeepsContract == Xpra!KeepsContract

\* XpraInput: no input passes a text of its viewer that was not confirmed.
NothingPassesText == Xpra!NothingPassesText
================================================================================
