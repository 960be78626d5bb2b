----------------------------- MODULE PortalGrant -----------------------------
(***************************************************************************)
(* The credential of unattended Wayland access (host_desktop_portal.py):   *)
(* several helper processes share one state directory with the record of   *)
(* the portal's restore token, portal-grant.json, and start portal         *)
(* sessions with it.  A restore token is single use: the portal answers a  *)
(* start with its replacement.  A helper can die between any two of the    *)
(* calls that touch the record, and every write may fail before or after   *)
(* the new record replaced the old one.                                    *)
(*                                                                         *)
(* Each use of the record holds portal-grant.lock from the read to the     *)
(* replacement of the file, so it is one step.  The portal is external: it *)
(* answers a request at any time or never, and issues fresh tokens.        *)
(***************************************************************************)
EXTENDS Naturals, FiniteSets

CONSTANTS
    Helpers,   \* helper processes, one per attachment
    Tokens,    \* bound: the restore tokens the portal issues
    None

ASSUME TokensAssumption == None \notin Tokens \cup Helpers

VARIABLES
    file,          \* portal-grant.json
    lease,         \* the helper with the lock on portal-start.lock
    start,         \* the PortalSession of each helper and how far its start is
    authorization, \* what each helper reports
    issued,        \* tokens the portal has issued
    submissions,   \* history: how often each token was submitted
    newest         \* history: the replacement that was staged last and not taken since

vars == <<file, lease, start, authorization, issued, submissions, newest>>

Maybe == Tokens \cup {None}
States == {"saved", "needs_consent", "unknown", "revoked"}
Records == [state : States, token : Maybe, candidate : Maybe]

\* The phases in which a start holds the lease: a request is with the portal, or
\* ("taken", "staged") the helper is between two calls of one callback.
Waiting == {"create", "devices", "sources", "consent"}
Pending == Waiting \cup {"taken", "staged"}
Closed == [phase |-> "idle", unattended |-> FALSE, token |-> None]

Record(state, token, candidate) == [state |-> state, token |-> token, candidate |-> candidate]

\* The records _read accepts
Accepted(r) ==
  /\ r.state = "saved" => r.token # None /\ r.candidate = None
  /\ r.state \in {"needs_consent", "revoked"} => r.token = None /\ r.candidate = None

\* A file of the first version holds the token only.
Legacy == [version : {1}, token : Maybe]
Files == [version : {2}, record : {r \in Records : Accepted(r)}] \cup Legacy
           \cup {[version |-> 0], [version |-> 3]}   \* no file; damaged, or a later version

Readable == file.version # 3

\* _read
Read ==
  IF file.version = 2 THEN file.record
  ELSE IF file.version = 1 THEN Record(IF file.token = None THEN "needs_consent" ELSE "saved", file.token, None)
  ELSE Record("needs_consent", None, None)

\* The token that the next unattended start submits
Restorable(r) == IF r.candidate # None THEN r.candidate ELSE IF r.state = "saved" THEN r.token ELSE None

Init ==
  /\ file \in Files
  /\ issued = IF file.version \in {0, 3} THEN {} ELSE {Read.token, Read.candidate} \ {None}
  /\ file.version = 2 /\ file.record.token # None => file.record.token # file.record.candidate
  /\ submissions = [t \in Tokens |->
       IF file.version = 2 /\ file.record.state = "unknown" /\ t = file.record.token THEN 1 ELSE 0]
  /\ newest = IF Readable THEN Restorable(Read) ELSE None
  /\ lease = None
  /\ start = [h \in Helpers |-> Closed]
  /\ authorization = [h \in Helpers |-> "unsupported"]

----------------------------------------------------------------------------
(* The record *)

\* _save returned: the record is on disk.
Save(r) == file' = [version |-> 2, record |-> r]

\* _save raised: before os.replace, or after it, from the directory's fsync.
SaveRaised(r) == file' = file \/ Save(r)

\* done, and close: the lease goes with the end of the start.
Release(h) == lease' = IF lease = h THEN None ELSE lease

\* The start ends with an error: done reads the record, the helper disconnects.
Fails(h) ==
  /\ Release(h)
  /\ start' = [start EXCEPT ![h] = Closed]
  /\ authorization' = [authorization EXCEPT ![h] =
       IF start[h].unattended /\ file'.version # 3 THEN Read'.state ELSE @]

----------------------------------------------------------------------------
(* PortalSession.start, step by step *)

\* start: unattended access needs version 2 of the portal.
Start(h, unattended) ==
  /\ start[h].phase = "idle"
  /\ lease = None   \* else AUTHORIZATION_PENDING, and nothing changes
  /\ lease' = h
  /\ start' = [start EXCEPT ![h] = [Closed EXCEPT !.phase = "create", !.unattended = unattended]]
  /\ UNCHANGED <<file, authorization, issued, submissions, newest>>

\* Mutant: the record is left as it is, to be replaced when the portal answers.
TakeWithoutWriting(h, token) ==
  /\ UNCHANGED <<file, newest>>
  /\ start' = [start EXCEPT ![h].phase = "taken", ![h].token = token]
  /\ authorization' = [authorization EXCEPT ![h] = IF token = None THEN "needs_consent" ELSE "restoring"]
  /\ UNCHANGED lease

\* begin_restore of created: before the token leaves, the record says that its
\* fate is unknown.
Take(h, token) ==
  /\ IF token = None THEN UNCHANGED file ELSE Save(Record("unknown", token, None))
  /\ newest' = IF token = None THEN newest ELSE None
  /\ start' = [start EXCEPT ![h].phase = "taken", ![h].token = token]
  /\ authorization' = [authorization EXCEPT ![h] = IF token = None THEN "needs_consent" ELSE "restoring"]
  /\ UNCHANGED lease

\* created, of a start without persistence: no token is asked for or taken.
CreatedAttended(h) ==
  /\ start[h].phase = "create" /\ ~start[h].unattended
  /\ start' = [start EXCEPT ![h].phase = "taken"]
  /\ \E legacyPortal \in BOOLEAN :
       authorization' = IF legacyPortal THEN authorization ELSE [authorization EXCEPT ![h] = "needs_consent"]
  /\ UNCHANGED <<file, lease, issued, submissions, newest>>

\* created, of an unattended start
Created(h) ==
  /\ start[h].phase = "create" /\ start[h].unattended /\ Readable
  /\ Take(h, Restorable(Read))
  /\ UNCHANGED <<issued, submissions>>

\* begin_restore cannot write, or cannot read, the record.
CreatedFails(h) ==
  /\ start[h].phase = "create" /\ start[h].unattended
  /\ LET token == IF Readable THEN Restorable(Read) ELSE None IN
     /\ IF token = None THEN ~Readable /\ UNCHANGED file ELSE SaveRaised(Record("unknown", token, None))
     /\ newest' = IF file' = file THEN newest ELSE None
  /\ Fails(h)
  /\ UNCHANGED <<issued, submissions>>

\* _request(SelectDevices): the token is with the portal from here on.
SelectDevices(h) ==
  /\ start[h].phase = "taken"
  /\ submissions' = [t \in Tokens |-> IF t = start[h].token THEN submissions[t] + 1 ELSE submissions[t]]
  /\ start' = [start EXCEPT ![h].phase = "devices", ![h].token = None]
  /\ UNCHANGED <<file, lease, authorization, issued, newest>>

\* selected_devices; selected_sources
Selected(h) ==
  /\ start[h].phase \in {"devices", "sources"}
  /\ start' = [start EXCEPT ![h].phase = IF @ = "devices" THEN "sources" ELSE "consent"]
  /\ UNCHANGED <<file, lease, authorization, issued, submissions, newest>>

\* stage: the replacement is durable before anything else can fail.
Stage(h, token) ==
  /\ Save(Record("unknown", Read.token, token))
  /\ newest' = token

\* started, up to stage: the portal's answer carries a replacement, or none.
Started(h, token) ==
  /\ start[h].phase = "consent"
  /\ token # None => start[h].unattended
  /\ issued' = issued \cup ({token} \ {None})
  /\ IF start[h].unattended THEN Readable /\ Stage(h, token) ELSE UNCHANGED <<file, newest>>
  /\ start' = [start EXCEPT ![h].phase = "staged", ![h].token = token]
  /\ UNCHANGED <<lease, authorization, submissions>>

\* stage fails; what the portal had issued is known to nobody unless it was written.
StartedFails(h, token) ==
  /\ start[h].phase = "consent" /\ start[h].unattended
  /\ issued' = issued \cup ({token} \ {None})
  /\ IF Readable THEN SaveRaised(Record("unknown", Read.token, token)) ELSE UNCHANGED file
  /\ newest' = IF file' = file THEN newest ELSE token
  /\ Fails(h)
  /\ UNCHANGED submissions

\* started, the rest: the streams are valid, the PipeWire remote is open, the
\* replacement becomes the token.  Whoever reads between the two writes sees
\* the candidate.
Opened(h) ==
  /\ start[h].phase = "staged" /\ (start[h].unattended => Readable)
  /\ IF start[h].unattended
       THEN Save(Record(IF start[h].token = None THEN "needs_consent" ELSE "saved", start[h].token, None))
       ELSE UNCHANGED file
  /\ Release(h)
  /\ start' = [start EXCEPT ![h] = [Closed EXCEPT !.phase = "open"]]
  /\ authorization' = [authorization EXCEPT ![h] = IF start[h].unattended THEN Read'.state ELSE @]
  /\ UNCHANGED <<issued, submissions, newest>>

\* The display or the remote is unavailable, or save fails.
OpenedFails(h) ==
  /\ start[h].phase = "staged"
  /\ \/ UNCHANGED file
     \/ /\ start[h].unattended /\ Readable
        /\ Save(Record(IF start[h].token = None THEN "needs_consent" ELSE "saved", start[h].token, None))
  /\ Fails(h)
  /\ UNCHANGED <<issued, submissions, newest>>

\* A request fails: it is refused or cancelled, times out, or its answer does
\* not belong to it.
RequestFails(h) ==
  /\ start[h].phase \in Waiting
  /\ UNCHANGED <<file, issued, submissions, newest>>
  /\ Fails(h)

\* close: the helper disconnects, or the portal closes the session.  Requests
\* still with the portal are forgotten: their answers, and the token that comes
\* with one, reach nobody.
Close(h) ==
  /\ start[h].phase \in Waiting \cup {"open"}
  /\ Release(h)
  /\ start' = [start EXCEPT ![h] = Closed]
  /\ UNCHANGED <<file, authorization, issued, submissions, newest>>

\* The process dies, wherever it is; the system drops its locks.
Crash(h) ==
  /\ start[h].phase # "idle"
  /\ Release(h)
  /\ start' = [start EXCEPT ![h] = Closed]
  /\ authorization' = [authorization EXCEPT ![h] = "unsupported"]
  /\ UNCHANGED <<file, issued, submissions, newest>>

----------------------------------------------------------------------------
(* The other uses of the record *)

\* Mutant: forgetting does not wait for a start that is under way.
ForgetAnyTime(h) ==
  /\ start[h].phase = "idle" /\ Readable
  /\ UNCHANGED lease
  /\ Save(Record("needs_consent", None, None))
  /\ newest' = None
  /\ authorization' = [authorization EXCEPT ![h] = "needs_consent"]
  /\ UNCHANGED <<start, issued, submissions>>

\* forget_authorization: a damaged record is not overwritten.
Forget(h) ==
  /\ start[h].phase = "idle" /\ lease = None /\ Readable
  /\ UNCHANGED lease   \* taken and given back within the call
  /\ Save(Record("needs_consent", None, None))
  /\ newest' = None
  /\ authorization' = [authorization EXCEPT ![h] = "needs_consent"]
  /\ UNCHANGED <<start, issued, submissions>>

\* The lease is another's, or the record cannot be read or written.
ForgetFails(h) ==
  /\ start[h].phase = "idle"
  /\ IF lease = None /\ Readable THEN SaveRaised(Record("needs_consent", None, None)) ELSE UNCHANGED file
  /\ newest' = IF file' = file THEN newest ELSE None
  /\ UNCHANGED <<lease, start, authorization, issued, submissions>>

\* capabilities: a probe, and the first thing a connect does
Inspect(h) ==
  /\ start[h].phase = "idle" /\ Readable
  /\ authorization' = [authorization EXCEPT ![h] = Read.state]
  /\ UNCHANGED <<file, lease, start, issued, submissions, newest>>

----------------------------------------------------------------------------
Fresh == (Tokens \ issued) \cup {None}

Next == \E h \in Helpers :
  \/ \E unattended \in BOOLEAN : Start(h, unattended)
  \/ CreatedAttended(h) \/ Created(h) \/ CreatedFails(h)
  \/ SelectDevices(h) \/ Selected(h)
  \/ \E token \in Fresh : Started(h, token) \/ StartedFails(h, token)
  \/ Opened(h) \/ OpenedFails(h) \/ RequestFails(h) \/ Close(h) \/ Crash(h)
  \/ Forget(h) \/ ForgetFails(h) \/ Inspect(h)

Spec == Init /\ [][Next]_vars

----------------------------------------------------------------------------
(* Properties *)

\* The file is one that _read accepts, or one no operation replaces; the rest has its type.
TypeOK ==
  /\ file \in Files
  /\ lease \in Helpers \cup {None}
  /\ start \in [Helpers -> [phase : Pending \cup {"idle", "open"}, unattended : BOOLEAN, token : Maybe]]
  /\ authorization \in [Helpers -> States \cup {"unsupported", "restoring"}]
  /\ issued \subseteq Tokens
  /\ submissions \in [Tokens -> Nat]
  /\ newest \in Maybe

\* No restore token reaches the portal twice, over all helpers, crashes and
\* failed writes: "retain submitted tokens but never replay them".
NeverReplayed == \A t \in Tokens : submissions[t] <= 1

\* One start at a time owns the rotation of the token, and the lease is free
\* again once that start ended in any way.
OneRotation == \A h \in Helpers : start[h].phase \in Pending <=> lease = h

\* What the next unattended start submits is the replacement that reached the
\* disk last and was neither taken nor forgotten since: no crash between the
\* two writes, failed capture or failed write, and no start or probe of another
\* helper, costs the user's consent or brings an older token back.
NewestRestores == Readable => Restorable(Read) = newest
=============================================================================
