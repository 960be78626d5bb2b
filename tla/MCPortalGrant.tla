---------------------------- MODULE MCPortalGrant ----------------------------
(* Instances of PortalGrant and HostDesktop for TLC.  The record of the     *)
(* grant and a helper's desktop share nothing but the calls that start and  *)
(* close the portal's session, free to happen in either: a behaviour is one *)
(* of either, and the other stays as it starts.                             *)
EXTENDS PortalGrant, TLC

CONSTANTS Kinds, Logins, Displays, Keys, Reads, MaxPending, MaxFrames

ASSUME DesktopAssumption == Kinds \subseteq {"wayland", "x11"} /\ MaxPending \in Nat /\ MaxFrames \in Nat

VARIABLES part, os, monitors, desk, down, reads, observer, did

desktopVars == <<os, monitors, desk, down, reads, observer, did>>

Desktop == INSTANCE HostDesktop

PartsInit ==
  \/ part = "grant" /\ Init /\ Desktop!Init /\ os = None
  \/ part = "desktop" /\ Desktop!Init /\ Init /\ file = [version |-> 0]

PartsNext ==
  \/ part = "grant" /\ Next /\ UNCHANGED <<part, desktopVars>>
  \/ part = "desktop" /\ Desktop!Next /\ UNCHANGED <<part, vars>>

PartsSpec == PartsInit /\ [][PartsNext]_<<part, vars, desktopVars>>

Symmetry == Permutations(Helpers) \cup Permutations(Tokens)

\* HostDesktop: what is down in the session is held by a helper that sees it, and
\* clipboard text reaches the client of the controller's current epoch.
HeldInSight == Desktop!HeldInSight
=============================================================================
