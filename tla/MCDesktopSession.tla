---------------------------- MODULE MCDesktopSession ----------------------------
(* Instances of DesktopSession, Application and LoginText for TLC.  The       *)
(* supervisor of a session, that of its application and the paste child share *)
(* nothing: a behaviour is one of them, and the others stay as they start, or *)
(* are not there.                                                             *)
EXTENDS DesktopSession

CONSTANTS
    Parts,   \* those that a run is about
    Pids, Sup, Other, MaxStarts,
    Writers, MaxPastes

ASSUME PartsAssumption ==
  /\ Pids # {} /\ Sup # Other /\ Sup \notin Pids /\ Other \notin Pids
  /\ MaxStarts \in Nat /\ MaxPastes \in Nat

VARIABLES
    part,
    proc, starts, scope, main, waiter, pass, stopped, launcher, observed, unit, systemd, reply, removed, receipt, struck,
    current, loop, sent, handled, answer, request, text, timer, overtaken, writer, whole, hurried

appVars == <<proc, starts, scope, main, waiter, pass, stopped, launcher, observed, unit, systemd, reply, removed, receipt, struck>>
textVars == <<current, loop, sent, handled, answer, request, text, timer, overtaken, writer, whole, hurried>>

App == INSTANCE Application
Text == INSTANCE LoginText

PartsInit ==
  /\ part \in Parts /\ App!Init /\ Text!Init
  /\ \/ part = "application" /\ session = "none" /\ os = "none"
     \/ part # "application" /\ Init /\ scope

PartsNext ==
  \/ part = "session" /\ Next /\ UNCHANGED <<part, appVars, textVars>>
  \/ part = "application" /\ App!Next /\ UNCHANGED <<part, vars, textVars>>
  \/ part = "text" /\ Text!Next /\ UNCHANGED <<part, vars, appVars>>

PartsSpec == PartsInit /\ [][PartsNext]_<<part, vars, appVars, textVars>>

\* Fairness of the parts that a run is about: none owes a step in its initial states.
SessionSpec == PartsSpec /\ Fairness /\ Text!Fairness
ApplicationSpec == PartsSpec /\ App!Fairness

\* The plans.  A session asks for the input portal and for the others independently,
\* and starts each of the others alike.
OnePortal == {[input |-> FALSE, portals |-> <<"xdg-desktop-portal">>],
              [input |-> TRUE, portals |-> <<>>]}
TwoPortals == {[input |-> FALSE, portals |-> <<"xdg-desktop-portal-gtk", "xdg-desktop-portal">>]}

\* Application: when the wait is over nothing of the application is left, and the exit
\* code is the launcher's own.
ExitedWhole == App!ExitedWhole

\* Application: only the application's own processes are named to systemd or struck.
StrangersSpared == App!StrangersSpared

\* Application: supervision ends after SIGTERM, or with the last process.
SupervisionEnds == App!SupervisionEnds

\* LoginText: a confirmed paste was read.
ConfirmedWasRead == Text!ConfirmedWasRead

\* LoginText: every paste that was sent is confirmed or refused, or the child is gone.
PasteSettles == Text!PasteSettles
================================================================================
