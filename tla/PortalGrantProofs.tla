-------------------------- MODULE PortalGrantProofs --------------------------
(***************************************************************************)
(* Proofs about PortalGrant, for any number of helpers and tokens, and     *)
(* about HostDesktop, whose composition with it MCPortalGrant is.  The     *)
(* grant's inductive invariant ties the record on disk to the history:     *)
(* whatever the record would restore, and whatever a start has taken or    *)
(* staged and not handed on, was issued and never submitted.  The          *)
(* desktop's is about a world, the three things its handlers change (the   *)
(* desk, what is down in the session, the clipboard reads), because a      *)
(* handler passes through several before it ends: whatever gives control   *)
(* up lets go of what is down before anything else is seen of it.          *)
(***************************************************************************)
EXTENDS MCPortalGrant, FiniteSetTheorems, TLAPS

\* A token in hand: nobody submitted it yet.
Unspent(t) == t \in issued /\ submissions[t] = 0

\* Tokens that were never issued were never submitted.
IssuedFirst == \A t \in Tokens : t \notin issued => submissions[t] = 0

\* What the record would restore is unspent.
RestorableUnspent == Readable /\ Restorable(Read) # None => Unspent(Restorable(Read))

\* A token that was taken is unspent and no longer restorable.
TakenUnspent == \A h \in Helpers : start[h].phase = "taken" =>
  (start[h].token # None => Unspent(start[h].token) /\ (Readable => Restorable(Read) = None))

\* A replacement that was staged is the newest token and unspent.
StagedNewest == \A h \in Helpers : start[h].phase = "staged" /\ start[h].unattended =>
  newest = start[h].token /\ (newest # None => Unspent(newest))

\* Until a start has taken a token it holds none.
EmptyHanded == \A h \in Helpers : start[h].phase \in Waiting => start[h].token = None

IInv ==
  /\ TypeOK
  /\ OneRotation
  /\ NeverReplayed
  /\ IssuedFirst
  /\ RestorableUnspent
  /\ TakenUnspent
  /\ StagedNewest
  /\ EmptyHanded
  /\ NewestRestores

\* _read returns a record.
LEMMA ReadType == ASSUME file \in Files PROVE Read \in Records
  BY DEF Files, Legacy, Read, Records, Record, States, Maybe

\* A record restores a token or nothing.
LEMMA RestorableType == ASSUME NEW r \in Records PROVE Restorable(r) \in Maybe
  BY DEF Restorable, Records, Maybe

\* The invariant holds at the start.
LEMMA InitInv == Init => IInv
<1> SUFFICES ASSUME Init PROVE IInv
  OBVIOUS
<1>0. Read \in Records /\ Restorable(Read) \in Maybe
  BY ReadType, RestorableType DEF Init
<1>1. TypeOK
  BY <1>0, TokensAssumption DEF Init, TypeOK, Closed, Pending, Waiting, Records, States, Maybe
<1>2. OneRotation
  BY TokensAssumption DEF Init, OneRotation, Closed, Pending, Waiting
<1>3. NeverReplayed
  BY DEF Init, NeverReplayed
<1>4. IssuedFirst
  BY TokensAssumption DEF Init, IssuedFirst, Files, Legacy, Records, Read, Maybe
<1>5. RestorableUnspent
  BY <1>0, TokensAssumption DEF Init, RestorableUnspent, Unspent, Readable, Restorable, Files, Legacy, Records, Record, Read, Maybe, Accepted
<1>6. TakenUnspent /\ StagedNewest /\ EmptyHanded
  BY DEF Init, TakenUnspent, StagedNewest, EmptyHanded, Closed, Waiting
<1>7. NewestRestores
  BY DEF Init, NewestRestores, Readable
<1> QED
  BY <1>1, <1>2, <1>3, <1>4, <1>5, <1>6, <1>7 DEF IInv

\* Every step keeps the types.
LEMMA TypeStep == TypeOK /\ [Next]_vars => TypeOK'
<1> SUFFICES ASSUME TypeOK, [Next]_vars PROVE TypeOK'
  OBVIOUS
<1> USE TokensAssumption
<1>0. Read \in Records /\ Restorable(Read) \in Maybe
  BY ReadType, RestorableType DEF TypeOK
<1>r. ASSUME NEW s \in States, NEW t \in Maybe, NEW c \in Maybe, Save(Record(s, t, c)), Accepted(Record(s, t, c))
      PROVE file' \in Files
  BY <1>r DEF Save, Record, Files, Records
<1>n. ASSUME file' \in Files PROVE Read'.state \in States
  <2>1. file' \in Files => (Read \in Records)'
    BY DEF Files, Legacy, Read, Records, Record, States, Maybe
  <2> QED BY <1>n, <2>1 DEF Records
<1>f. ASSUME NEW h \in Helpers, Fails(h), file' \in Files
      PROVE /\ lease' \in Helpers \cup {None}
            /\ start' \in [Helpers -> [phase : Pending \cup {"idle", "open"}, unattended : BOOLEAN, token : Maybe]]
            /\ authorization' \in [Helpers -> States \cup {"unsupported", "restoring"}]
  BY <1>f, <1>n DEF Fails, Release, Closed, TypeOK, Maybe, Pending
<1>1. ASSUME NEW h \in Helpers, NEW unattended \in BOOLEAN, Start(h, unattended) PROVE TypeOK'
  BY <1>1 DEF Start, Release, TypeOK, Maybe, Pending, Waiting, Closed
<1>2. ASSUME NEW h \in Helpers, CreatedAttended(h) PROVE TypeOK'
  <2>1. start' \in [Helpers -> [phase : Pending \cup {"idle", "open"}, unattended : BOOLEAN, token : Maybe]]
    <3>1. start' = [start EXCEPT ![h].phase = "taken"]
      BY <1>2 DEF CreatedAttended
    <3>2. start \in [Helpers -> [phase : Pending \cup {"idle", "open"}, unattended : BOOLEAN, token : Maybe]]
      BY DEF TypeOK
    <3>3. "taken" \in Pending
      BY DEF Pending
    <3> QED BY <3>1, <3>2, <3>3
  <2>2. authorization' \in [Helpers -> States \cup {"unsupported", "restoring"}]
    BY <1>2 DEF CreatedAttended, TypeOK, States
  <2> QED BY <1>2, <2>1, <2>2 DEF CreatedAttended, TypeOK
<1>3. ASSUME NEW h \in Helpers, Created(h) PROVE TypeOK'
  <2> DEFINE token == Restorable(Read)
  <2>1. file' \in Files
    BY <1>3, <1>0, <1>r DEF Created, Take, Accepted, Record, States, TypeOK, Maybe
  <2>2. start' \in [Helpers -> [phase : Pending \cup {"idle", "open"}, unattended : BOOLEAN, token : Maybe]]
    <3>1. start' = [start EXCEPT ![h].phase = "taken", ![h].token = token]
      BY <1>3 DEF Created, Take
    <3>2. start \in [Helpers -> [phase : Pending \cup {"idle", "open"}, unattended : BOOLEAN, token : Maybe]]
      BY DEF TypeOK
    <3>3. "taken" \in Pending
      BY DEF Pending
    <3> HIDE DEF token
    <3>4. token \in Maybe
      BY <1>0 DEF token
    <3> QED BY <3>1, <3>2, <3>3, <3>4
  <2>3. authorization' \in [Helpers -> States \cup {"unsupported", "restoring"}]
    BY <1>3 DEF Created, Take, TypeOK, States
  <2>4. newest' \in Maybe
    BY <1>3 DEF Created, Take, TypeOK, Maybe
  <2> QED BY <1>3, <2>1, <2>2, <2>3, <2>4 DEF Created, Take, TypeOK
<1>4. ASSUME NEW h \in Helpers, CreatedFails(h) PROVE TypeOK'
  BY <1>4, <1>0, <1>r, <1>f DEF CreatedFails, SaveRaised, Accepted, Record, States, TypeOK, Maybe, Pending, Waiting, Closed
<1>5. ASSUME NEW h \in Helpers, SelectDevices(h) PROVE TypeOK'
  <2>1. start' \in [Helpers -> [phase : Pending \cup {"idle", "open"}, unattended : BOOLEAN, token : Maybe]]
    <3>1. start' = [start EXCEPT ![h].phase = "devices", ![h].token = None]
      BY <1>5 DEF SelectDevices
    <3>2. start \in [Helpers -> [phase : Pending \cup {"idle", "open"}, unattended : BOOLEAN, token : Maybe]]
      BY DEF TypeOK
    <3>3. "devices" \in Pending /\ None \in Maybe
      BY DEF Pending, Waiting, Maybe
    <3> QED BY <3>1, <3>2, <3>3
  <2>2. submissions' \in [Tokens -> Nat]
    BY <1>5 DEF SelectDevices, TypeOK
  <2> QED BY <1>5, <2>1, <2>2 DEF SelectDevices, TypeOK
<1>6. ASSUME NEW h \in Helpers, Selected(h) PROVE TypeOK'
  <2>1. start' \in [Helpers -> [phase : Pending \cup {"idle", "open"}, unattended : BOOLEAN, token : Maybe]]
    <3>1. (IF start[h].phase = "devices" THEN "sources" ELSE "consent") \in Pending
      BY DEF Pending, Waiting
    <3> QED BY <1>6, <3>1 DEF Selected, TypeOK
  <2> QED BY <1>6, <2>1 DEF Selected, TypeOK
<1>7. ASSUME NEW h \in Helpers, NEW token \in Fresh, Started(h, token) PROVE TypeOK'
  <2>2. token \in Maybe /\ Read.token \in Maybe
    BY <1>0 DEF Fresh, Maybe, Records
  <2>1. start' \in [Helpers -> [phase : Pending \cup {"idle", "open"}, unattended : BOOLEAN, token : Maybe]]
    <3>1. start' = [start EXCEPT ![h].phase = "staged", ![h].token = token]
      BY <1>7 DEF Started
    <3>2. start \in [Helpers -> [phase : Pending \cup {"idle", "open"}, unattended : BOOLEAN, token : Maybe]]
      BY DEF TypeOK
    <3>3. "staged" \in Pending
      BY DEF Pending
    <3> QED BY <2>2, <3>1, <3>2, <3>3
  <2>3. CASE start[h].unattended
    <3>1. file' \in Files
      BY <1>7, <2>2, <2>3, <1>r DEF Started, Stage, Accepted, Record, States
    <3> QED BY <1>7, <2>1, <2>2, <2>3, <3>1 DEF Started, Stage, Fresh, TypeOK
  <2>4. CASE ~start[h].unattended
    BY <1>7, <2>1, <2>4 DEF Started, Fresh, TypeOK
  <2> QED BY <2>3, <2>4
<1>8. ASSUME NEW h \in Helpers, NEW token \in Fresh, StartedFails(h, token) PROVE TypeOK'
  BY <1>8, <1>0, <1>r, <1>f DEF StartedFails, SaveRaised, Fresh, Accepted, Record, Records, States, TypeOK, Maybe, Pending, Waiting, Closed
<1>9. ASSUME NEW h \in Helpers, Opened(h) PROVE TypeOK'
  BY <1>9, <1>r, <1>n DEF Opened, Release, Accepted, Record, States, TypeOK, Maybe, Pending, Waiting, Closed
<1>10. ASSUME NEW h \in Helpers, OpenedFails(h) PROVE TypeOK'
  BY <1>10, <1>r, <1>f DEF OpenedFails, Accepted, Record, States, TypeOK, Maybe, Pending, Waiting, Closed
<1>11. ASSUME NEW h \in Helpers, RequestFails(h) PROVE TypeOK'
  BY <1>11, <1>f DEF RequestFails, TypeOK, Maybe, Pending, Waiting, Closed
<1>12. ASSUME NEW h \in Helpers, Close(h) PROVE TypeOK'
  BY <1>12 DEF Close, Release, TypeOK, Maybe, Pending, Waiting, Closed
<1>13. ASSUME NEW h \in Helpers, Crash(h) PROVE TypeOK'
  BY <1>13 DEF Crash, Release, TypeOK, Maybe, Pending, Waiting, Closed
<1>14. ASSUME NEW h \in Helpers, Forget(h) PROVE TypeOK'
  BY <1>14, <1>r DEF Forget, Accepted, Record, States, TypeOK, Maybe, Pending, Waiting, Closed
<1>15. ASSUME NEW h \in Helpers, ForgetFails(h) PROVE TypeOK'
  BY <1>15, <1>r DEF ForgetFails, SaveRaised, Accepted, Record, States, TypeOK, Maybe, Pending, Waiting, Closed
<1>16. ASSUME NEW h \in Helpers, Inspect(h) PROVE TypeOK'
  BY <1>16, <1>0 DEF Inspect, Records, TypeOK, Maybe, Pending, Waiting, Closed
<1>17. CASE UNCHANGED vars
  BY <1>17 DEF TypeOK, vars
<1> QED
  BY <1>1, <1>2, <1>3, <1>4, <1>5, <1>6, <1>7, <1>8, <1>9, <1>10, <1>11, <1>12, <1>13, <1>14, <1>15, <1>16, <1>17 DEF Next

\* Every step keeps the lease with the one start that is under way.
LEMMA RotationStep == TypeOK /\ OneRotation /\ [Next]_vars => OneRotation'
<1> SUFFICES ASSUME TypeOK, OneRotation, [Next]_vars PROVE OneRotation'
  OBVIOUS
<1> USE TokensAssumption DEF OneRotation, TypeOK, Release, Fails, Closed, Pending, Waiting
<1>1. ASSUME NEW h \in Helpers, NEW unattended \in BOOLEAN, Start(h, unattended) PROVE OneRotation'
  BY <1>1 DEF Start
<1>2. ASSUME NEW h \in Helpers, NEW token \in Fresh, Started(h, token) PROVE OneRotation'
  BY <1>2 DEF Started
<1>3. ASSUME NEW h \in Helpers, NEW token \in Fresh, StartedFails(h, token) PROVE OneRotation'
  BY <1>3 DEF StartedFails
<1>4. ASSUME NEW h \in Helpers, CreatedAttended(h) PROVE OneRotation'
  BY <1>4 DEF CreatedAttended
<1>5. ASSUME NEW h \in Helpers, Created(h) PROVE OneRotation'
  BY <1>5 DEF Created, Take
<1>6. ASSUME NEW h \in Helpers, CreatedFails(h) PROVE OneRotation'
  BY <1>6 DEF CreatedFails
<1>7. ASSUME NEW h \in Helpers, SelectDevices(h) PROVE OneRotation'
  BY <1>7 DEF SelectDevices
<1>8. ASSUME NEW h \in Helpers, Selected(h) PROVE OneRotation'
  BY <1>8 DEF Selected
<1>9. ASSUME NEW h \in Helpers, Opened(h) PROVE OneRotation'
  BY <1>9 DEF Opened
<1>10. ASSUME NEW h \in Helpers, OpenedFails(h) PROVE OneRotation'
  BY <1>10 DEF OpenedFails
<1>11. ASSUME NEW h \in Helpers, RequestFails(h) PROVE OneRotation'
  BY <1>11 DEF RequestFails
<1>12. ASSUME NEW h \in Helpers, Close(h) PROVE OneRotation'
  BY <1>12 DEF Close
<1>13. ASSUME NEW h \in Helpers, Crash(h) PROVE OneRotation'
  BY <1>13 DEF Crash
<1>14. ASSUME NEW h \in Helpers, Forget(h) PROVE OneRotation'
  BY <1>14 DEF Forget
<1>15. ASSUME NEW h \in Helpers, ForgetFails(h) PROVE OneRotation'
  BY <1>15 DEF ForgetFails
<1>16. ASSUME NEW h \in Helpers, Inspect(h) PROVE OneRotation'
  BY <1>16 DEF Inspect
<1>17. CASE UNCHANGED vars
  BY <1>17 DEF vars
<1> QED
  BY <1>1, <1>2, <1>3, <1>4, <1>5, <1>6, <1>7, <1>8, <1>9, <1>10, <1>11, <1>12, <1>13, <1>14, <1>15, <1>16, <1>17 DEF Next

\* What the tokens' part of the invariant says, without the lease and the types
Tokenwise == NeverReplayed /\ IssuedFirst /\ RestorableUnspent /\ TakenUnspent /\ StagedNewest /\ EmptyHanded /\ NewestRestores

\* Every step keeps what the tokens' part says.
LEMMA TokenStep == IInv /\ [Next]_vars => Tokenwise'
<1> SUFFICES ASSUME IInv, [Next]_vars PROVE Tokenwise'
  OBVIOUS
<1> USE TokensAssumption
<1>0. Read \in Records /\ Restorable(Read) \in Maybe
  BY ReadType, RestorableType DEF IInv, TypeOK
<1>1. ASSUME NEW h \in Helpers, NEW unattended \in BOOLEAN, Start(h, unattended) PROVE Tokenwise'
  BY <1>1 DEF Start, IInv, Tokenwise, TypeOK, NeverReplayed, OneRotation, IssuedFirst, RestorableUnspent, TakenUnspent, StagedNewest, EmptyHanded, NewestRestores, Unspent, Readable, Read, Restorable, Record, Closed, Pending, Waiting, Maybe
<1>2. ASSUME NEW h \in Helpers, CreatedAttended(h) PROVE Tokenwise'
  BY <1>2, <1>0 DEF CreatedAttended, IInv, Tokenwise, TypeOK, NeverReplayed, OneRotation, IssuedFirst, RestorableUnspent, TakenUnspent, StagedNewest, EmptyHanded, NewestRestores, Unspent, Readable, Read, Restorable, Record, Closed, Pending, Waiting, Maybe
<1>3. ASSUME NEW h \in Helpers, Created(h) PROVE Tokenwise'
  BY <1>3, <1>0 DEF Created, Take, Save, IInv, Tokenwise, TypeOK, NeverReplayed, OneRotation, IssuedFirst, RestorableUnspent, TakenUnspent, StagedNewest, EmptyHanded, NewestRestores, Unspent, Readable, Read, Restorable, Record, Closed, Pending, Waiting, Maybe
<1>4. ASSUME NEW h \in Helpers, CreatedFails(h) PROVE Tokenwise'
  BY <1>4, <1>0 DEF CreatedFails, Fails, SaveRaised, Save, IInv, Tokenwise, TypeOK, NeverReplayed, OneRotation, IssuedFirst, RestorableUnspent, TakenUnspent, StagedNewest, EmptyHanded, NewestRestores, Unspent, Readable, Read, Restorable, Record, Closed, Pending, Waiting, Maybe
<1>5. ASSUME NEW h \in Helpers, SelectDevices(h) PROVE Tokenwise'
  BY <1>5, <1>0 DEF SelectDevices, IInv, Tokenwise, TypeOK, NeverReplayed, OneRotation, IssuedFirst, RestorableUnspent, TakenUnspent, StagedNewest, EmptyHanded, NewestRestores, Unspent, Readable, Read, Restorable, Record, Closed, Pending, Waiting, Maybe
<1>6. ASSUME NEW h \in Helpers, Selected(h) PROVE Tokenwise'
  BY <1>6, <1>0 DEF Selected, IInv, Tokenwise, TypeOK, NeverReplayed, OneRotation, IssuedFirst, RestorableUnspent, TakenUnspent, StagedNewest, EmptyHanded, NewestRestores, Unspent, Readable, Read, Restorable, Record, Closed, Pending, Waiting, Maybe
<1>7. ASSUME NEW h \in Helpers, NEW token \in Fresh, Started(h, token) PROVE Tokenwise'
  BY <1>7, <1>0 DEF Started, Fresh, Stage, Save, IInv, Tokenwise, TypeOK, NeverReplayed, OneRotation, IssuedFirst, RestorableUnspent, TakenUnspent, StagedNewest, EmptyHanded, NewestRestores, Unspent, Readable, Read, Restorable, Record, Closed, Pending, Waiting, Maybe
<1>8. ASSUME NEW h \in Helpers, NEW token \in Fresh, StartedFails(h, token) PROVE Tokenwise'
  BY <1>8, <1>0 DEF StartedFails, Fresh, Fails, SaveRaised, Save, IInv, Tokenwise, TypeOK, NeverReplayed, OneRotation, IssuedFirst, RestorableUnspent, TakenUnspent, StagedNewest, EmptyHanded, NewestRestores, Unspent, Readable, Read, Restorable, Record, Closed, Pending, Waiting, Maybe
<1>9. ASSUME NEW h \in Helpers, Opened(h) PROVE Tokenwise'
  BY <1>9, <1>0 DEF Opened, Save, IInv, Tokenwise, TypeOK, NeverReplayed, OneRotation, IssuedFirst, RestorableUnspent, TakenUnspent, StagedNewest, EmptyHanded, NewestRestores, Unspent, Readable, Read, Restorable, Record, Closed, Pending, Waiting, Maybe
<1>10. ASSUME NEW h \in Helpers, OpenedFails(h) PROVE Tokenwise'
  BY <1>10, <1>0 DEF OpenedFails, Fails, Save, IInv, Tokenwise, TypeOK, NeverReplayed, OneRotation, IssuedFirst, RestorableUnspent, TakenUnspent, StagedNewest, EmptyHanded, NewestRestores, Unspent, Readable, Read, Restorable, Record, Closed, Pending, Waiting, Maybe
<1>11. ASSUME NEW h \in Helpers, RequestFails(h) PROVE Tokenwise'
  BY <1>11 DEF RequestFails, Fails, IInv, Tokenwise, TypeOK, NeverReplayed, OneRotation, IssuedFirst, RestorableUnspent, TakenUnspent, StagedNewest, EmptyHanded, NewestRestores, Unspent, Readable, Read, Restorable, Record, Closed, Pending, Waiting, Maybe
<1>12. ASSUME NEW h \in Helpers, Close(h) PROVE Tokenwise'
  BY <1>12 DEF Close, IInv, Tokenwise, TypeOK, NeverReplayed, OneRotation, IssuedFirst, RestorableUnspent, TakenUnspent, StagedNewest, EmptyHanded, NewestRestores, Unspent, Readable, Read, Restorable, Record, Closed, Pending, Waiting, Maybe
<1>13. ASSUME NEW h \in Helpers, Crash(h) PROVE Tokenwise'
  BY <1>13 DEF Crash, IInv, Tokenwise, TypeOK, NeverReplayed, OneRotation, IssuedFirst, RestorableUnspent, TakenUnspent, StagedNewest, EmptyHanded, NewestRestores, Unspent, Readable, Read, Restorable, Record, Closed, Pending, Waiting, Maybe
<1>14. ASSUME NEW h \in Helpers, Forget(h) PROVE Tokenwise'
  BY <1>14, <1>0 DEF Forget, Save, IInv, Tokenwise, TypeOK, NeverReplayed, OneRotation, IssuedFirst, RestorableUnspent, TakenUnspent, StagedNewest, EmptyHanded, NewestRestores, Unspent, Readable, Read, Restorable, Record, Closed, Pending, Waiting, Maybe
<1>15. ASSUME NEW h \in Helpers, ForgetFails(h) PROVE Tokenwise'
  BY <1>15, <1>0 DEF ForgetFails, SaveRaised, Save, IInv, Tokenwise, TypeOK, NeverReplayed, OneRotation, IssuedFirst, RestorableUnspent, TakenUnspent, StagedNewest, EmptyHanded, NewestRestores, Unspent, Readable, Read, Restorable, Record, Closed, Pending, Waiting, Maybe
<1>16. ASSUME NEW h \in Helpers, Inspect(h) PROVE Tokenwise'
  BY <1>16, <1>0 DEF Inspect, IInv, Tokenwise, TypeOK, NeverReplayed, OneRotation, IssuedFirst, RestorableUnspent, TakenUnspent, StagedNewest, EmptyHanded, NewestRestores, Unspent, Readable, Read, Restorable, Record, Closed, Pending, Waiting, Maybe
<1>17. CASE UNCHANGED vars
  BY <1>17 DEF vars, IInv, Tokenwise, TypeOK, NeverReplayed, OneRotation, IssuedFirst, RestorableUnspent, TakenUnspent, StagedNewest, EmptyHanded, NewestRestores, Unspent, Readable, Read, Restorable, Record, Closed, Pending, Waiting, Maybe
<1> QED
  BY <1>1, <1>2, <1>3, <1>4, <1>5, <1>6, <1>7, <1>8, <1>9, <1>10, <1>11, <1>12, <1>13, <1>14, <1>15, <1>16, <1>17 DEF Next

\* Every step keeps the invariant.
LEMMA StepInv == IInv /\ [Next]_vars => IInv'
  BY TypeStep, RotationStep, TokenStep DEF IInv, Tokenwise

\* The invariant holds of every behaviour of the grant.
THEOREM Invariance == Spec => []IInv
  BY InitInv, StepInv, PTL DEF Spec

\* Types hold, and the record is always one that _read accepts.
THEOREM TypeCorrect == Spec => []TypeOK
  BY Invariance, PTL DEF IInv

\* No restore token is submitted twice (begin_restore, stage, save, _request).
THEOREM TokensSubmittedOnce == Spec => []NeverReplayed
  BY Invariance, PTL DEF IInv

\* The lease belongs to the one start under way and to nobody else (acquire_start,
\* release_start).
THEOREM RotationExclusive == Spec => []OneRotation
  BY Invariance, PTL DEF IInv

\* The newest replacement on disk is what the next start submits.
THEOREM NewestReplacementRestores == Spec => []NewestRestores
  BY Invariance, PTL DEF IInv
----------------------------------------------------------------------------
(* The desktop: what its handlers make of a helper's session is a world. *)

DeskStates == Desktop!Locks \cup {"disconnected", "active", "locking", "suspended", "DISPLAY_CHANGED"}
Desks ==
  [conn : {"none", "connecting", "connected"}, kind : Kinds \cup {"none"},
   portal : {"none", "starting", "open", "closed"}, devices : BOOLEAN, pending : 0..MaxPending,
   identity : Logins \cup {None}, seen : {"nothing", "inactive", "another", "locked", "ready"},
   displays : SUBSET Displays, display : Displays \cup {None},
   state : DeskStates,
   mode : Desktop!Modes, sent : 0..MaxFrames, painted : 0..MaxFrames,
   media : {"none", "running", "invalid", "unstarted"},
   held : SUBSET Keys, sync : BOOLEAN, enabled : BOOLEAN, alive : BOOLEAN]
Readings == [why : {"none", "get", "sync"}, epoch : BOOLEAN, generation : BOOLEAN]
Worlds == [desk : Desks, down : SUBSET Keys, reads : [Reads -> Readings]]

\* A connection, its session and its capture come and go together.
Connection(d) ==
  /\ d.kind = "none" <=> d.conn = "none"
  /\ d.portal # "none" => d.kind = "wayland"
  /\ d.sent # 0 \/ d.media \in {"running", "invalid"} => d.conn = "connected"
  /\ d.painted <= d.sent
  /\ d.enabled => Desktop!InControl(d)

\* A read of this epoch is one of this generation; one of this generation that the
\* client asked for is one in control; without a connection no epoch is current.
Reading(w) == \A r \in Reads :
  /\ w.reads[r].epoch => w.reads[r].generation /\ w.desk.conn # "none"
  /\ w.reads[r].why = "get" /\ w.reads[r].generation => Desktop!InControl(w.desk)

\* What is down is held, and in a session that can lift it.
Liftable(w) ==
  /\ IsFiniteSet(w.desk.held) /\ w.down \subseteq w.desk.held
  /\ w.down # {} => w.desk.kind = "x11" \/ w.desk.portal = "open"

Base(w) == w \in Worlds /\ Connection(w.desk) /\ Reading(w) /\ Liftable(w)

\* What is held is held in control, and what is shown is of a session that is open.
Commanded(d) ==
  /\ d.held # {} => Desktop!InControl(d)
  /\ d.kind = "wayland" /\ (d.sent # 0 \/ d.media \in {"running", "invalid"}) => d.portal = "open"
World(w) == Base(w) /\ Commanded(w.desk)

\* Nothing is held and no clipboard epoch is current.
Still(w) == /\ w.desk.held = {} /\ w.down = {} /\ ~w.desk.enabled
            /\ \A r \in Reads : ~w.reads[r].epoch
Released(w) == Base(w) /\ Still(w)

\* The connection is the same, of the same login, or it has ended.
Stays(w, x) ==
  \/ x.desk.conn = "none" /\ x.desk.identity = None
  \/ x.desk.conn = w.desk.conn /\ x.desk.kind = w.desk.kind /\ x.desk.identity = w.desk.identity
     /\ x.desk.seen = w.desk.seen /\ x.desk.portal = w.desk.portal

\* The inductive invariant of the desktop
DeskInv ==
  /\ os \in Desktop!Login \cup {None} /\ monitors \subseteq Displays
  /\ World(Desktop!Whole)
  /\ did.what = "observed" =>
       \/ Desktop!Observed(desk) = "ready" \/ desk.conn = "none"
       \/ desk.conn = "connected" /\ desk.state # "active"
  /\ did.what = "text" => did.unbroken /\ did.control

\* A new generation: nothing of the old one is painted, no read belongs to it.
LEMMA GenerationOf ==
  ASSUME NEW w \in Worlds, NEW state \in DeskStates, NEW display \in Displays \cup {None},
         NEW mode \in Desktop!Modes, NEW x, x = Desktop!NewGeneration(w, state, display, mode)
  PROVE  /\ x \in Worlds /\ x.down = w.down /\ x.desk.state = state /\ x.desk.mode = mode
         /\ x.desk.sent = 0 /\ x.desk.painted = 0
         /\ x.desk.conn = w.desk.conn /\ x.desk.kind = w.desk.kind /\ x.desk.portal = w.desk.portal
         /\ x.desk.identity = w.desk.identity /\ x.desk.seen = w.desk.seen /\ x.desk.media = w.desk.media
         /\ x.desk.held = w.desk.held /\ x.desk.enabled = w.desk.enabled
         /\ \A r \in Reads : x.reads[r].epoch = w.reads[r].epoch /\ ~x.reads[r].generation
<1>1. PICK d : d = [w.desk EXCEPT !.state = state, !.display = display, !.mode = mode, !.sent = 0, !.painted = 0]
  OBVIOUS
<1>2. PICK q : q = [r \in Reads |-> [w.reads[r] EXCEPT !.generation = FALSE]]
  OBVIOUS
<1>3. x = [w EXCEPT !.desk = d, !.reads = q]
  BY <1>1, <1>2, Zenon DEF Desktop!NewGeneration
<1>4. /\ d \in Desks /\ d.state = state /\ d.mode = mode /\ d.sent = 0 /\ d.painted = 0
      /\ d.conn = w.desk.conn /\ d.kind = w.desk.kind /\ d.portal = w.desk.portal
      /\ d.identity = w.desk.identity /\ d.seen = w.desk.seen /\ d.media = w.desk.media
      /\ d.held = w.desk.held /\ d.enabled = w.desk.enabled
  <2>1. w.desk \in Desks
    BY DEF Worlds
  <2>2. 0 \in 0..MaxFrames
    BY DesktopAssumption
  <2>3. d \in Desks
    BY <1>1, <2>1, <2>2 DEF Desks
  <2>4. QED
    BY <1>1, <2>1, <2>3 DEF Desks
<1>5. q \in [Reads -> Readings] /\ \A r \in Reads : q[r].epoch = w.reads[r].epoch /\ ~q[r].generation
  <2>1. w.reads \in [Reads -> Readings]
    BY DEF Worlds
  <2>2. QED
    BY <1>2, <2>1 DEF Readings
<1>6. x \in Worlds /\ x.desk = d /\ x.reads = q /\ x.down = w.down
  BY <1>3, <1>4, <1>5 DEF Worlds
<1>7. QED
  BY <1>4, <1>5, <1>6

\* A new generation of what is still is still.
LEMMA GenerationStill ==
  ASSUME NEW w, Released(w), NEW state \in DeskStates, NEW display \in Displays \cup {None},
         NEW mode \in Desktop!Modes, NEW x, x = Desktop!NewGeneration(w, state, display, mode)
  PROVE  /\ Released(x) /\ x.desk.state = state /\ x.desk.mode = mode /\ x.desk.painted = 0 /\ x.desk.sent = 0
         /\ Stays(w, x) /\ x.desk.media = w.desk.media
         /\ w.desk.conn = "none" => x.desk.conn = "none"
<1>1. w \in Worlds /\ Connection(w.desk) /\ Reading(w) /\ Liftable(w) /\ Still(w)
  BY DEF Released, Base
<1>2. /\ x \in Worlds /\ x.down = w.down /\ x.desk.state = state /\ x.desk.mode = mode
      /\ x.desk.sent = 0 /\ x.desk.painted = 0
      /\ x.desk.conn = w.desk.conn /\ x.desk.kind = w.desk.kind /\ x.desk.portal = w.desk.portal
      /\ x.desk.identity = w.desk.identity /\ x.desk.seen = w.desk.seen /\ x.desk.media = w.desk.media
      /\ x.desk.held = w.desk.held /\ x.desk.enabled = w.desk.enabled
      /\ \A r \in Reads : x.reads[r].epoch = w.reads[r].epoch /\ ~x.reads[r].generation
  BY <1>1, GenerationOf
<1>3. Connection(x.desk)
  BY <1>1, <1>2 DEF Connection, Still
<1>4. Reading(x) /\ Still(x) /\ Liftable(x)
  BY <1>1, <1>2 DEF Reading, Still, Liftable
<1>5. QED
  BY <1>2, <1>3, <1>4 DEF Released, Base, Stays

\* The session is closed: nothing is down in it, and no read goes on.
LEMMA ClosedPortal ==
  ASSUME NEW w \in Worlds, NEW x, x = Desktop!ClosePortal(w)
  PROVE  /\ x \in Worlds /\ x.down = {} /\ x.reads = [r \in Reads |-> Desktop!NoRead]
         /\ x.desk \in Desks /\ x.desk.portal = "closed" /\ x.desk.pending = 0
         /\ x.desk.conn = w.desk.conn /\ x.desk.kind = w.desk.kind /\ x.desk.identity = w.desk.identity
         /\ x.desk.seen = w.desk.seen /\ x.desk.sent = w.desk.sent /\ x.desk.painted = w.desk.painted
         /\ x.desk.state = w.desk.state /\ x.desk.mode = w.desk.mode /\ x.desk.display = w.desk.display
         /\ x.desk.media = w.desk.media /\ x.desk.held = w.desk.held /\ x.desk.enabled = w.desk.enabled
         /\ \A r \in Reads : ~x.reads[r].epoch /\ x.reads[r].why = "none"
<1>1. PICK d : d = [w.desk EXCEPT !.portal = "closed", !.pending = 0]
  OBVIOUS
<1>2. PICK q : q = [r \in Reads |-> Desktop!NoRead]
  OBVIOUS
<1>3. x = [w EXCEPT !.desk = d, !.down = {}, !.reads = q]
  BY <1>1, <1>2, Zenon DEF Desktop!ClosePortal
<1>4. w.desk \in Desks
  BY DEF Worlds
<1>5. 0 \in 0..MaxPending
  BY DesktopAssumption
<1>6. d \in Desks
  BY <1>1, <1>4, <1>5 DEF Desks
<1>7. /\ d.portal = "closed" /\ d.pending = 0
      /\ d.conn = w.desk.conn /\ d.kind = w.desk.kind /\ d.identity = w.desk.identity
      /\ d.seen = w.desk.seen /\ d.sent = w.desk.sent /\ d.painted = w.desk.painted
      /\ d.state = w.desk.state /\ d.mode = w.desk.mode /\ d.display = w.desk.display
      /\ d.media = w.desk.media /\ d.held = w.desk.held /\ d.enabled = w.desk.enabled
  BY <1>1, <1>4 DEF Desks
<1>8. q \in [Reads -> Readings] /\ \A r \in Reads : ~q[r].epoch /\ q[r].why = "none"
  BY <1>2 DEF Readings, Desktop!NoRead
<1>9. x \in Worlds /\ x.desk = d /\ x.reads = q /\ x.down = {}
  BY <1>3, <1>6, <1>8 DEF Worlds
<1>10. QED
  BY <1>2, <1>6, <1>7, <1>8, <1>9

\* The connection has ended: there is no session, login or capture.
LEMMA Ended ==
  ASSUME NEW w \in Worlds, w.desk.kind = "wayland" \/ (w.down = {} /\ \A r \in Reads : ~w.reads[r].epoch),
         NEW x, x = Desktop!End(w)
  PROVE  /\ Released(x) /\ x.desk.conn = "none" /\ x.desk.kind = "none" /\ x.desk.identity = None
         /\ x.desk.state = "disconnected" /\ x.desk.media = "none" /\ x.desk.display = None
         /\ x.desk.mode = "view" /\ x.desk.sent = 0
<1>1. PICK c : c = IF w.desk.kind = "wayland" THEN Desktop!ClosePortal(w) ELSE w
  OBVIOUS
<1>2. c \in Worlds /\ c.down = {} /\ \A r \in Reads : ~c.reads[r].epoch
  BY <1>1, ClosedPortal
<1>3. PICK e : e = [c EXCEPT !.desk = Desktop!Idle]
  OBVIOUS
<1>4. x = Desktop!NewGeneration(e, "disconnected", e.desk.display, e.desk.mode)
  BY <1>1, <1>3, Zenon DEF Desktop!End, Desktop!Revoke
<1>5. Desktop!Idle \in Desks /\ Connection(Desktop!Idle)
  <2>1. 0 \in 0..MaxPending /\ 0 \in 0..MaxFrames
    BY DesktopAssumption
  <2>2. Desktop!Idle \in Desks
    BY <2>1 DEF Desktop!Idle, Desks, DeskStates, Desktop!Modes
  <2>3. QED
    BY <2>2, <2>1 DEF Desktop!Idle, Connection
<1>6. e \in Worlds /\ e.desk = Desktop!Idle /\ e.down = {} /\ \A r \in Reads : ~e.reads[r].epoch
  BY <1>2, <1>3, <1>5 DEF Worlds
<1>7. /\ Desktop!Idle.conn = "none" /\ Desktop!Idle.kind = "none" /\ Desktop!Idle.portal = "none"
      /\ Desktop!Idle.identity = None /\ Desktop!Idle.media = "none" /\ Desktop!Idle.held = {}
      /\ Desktop!Idle.display = None /\ Desktop!Idle.mode = "view" /\ ~Desktop!Idle.enabled
  BY DEF Desktop!Idle
<1>8. "disconnected" \in DeskStates /\ "view" \in Desktop!Modes
  BY DEF DeskStates, Desktop!Modes
<1>9. /\ x \in Worlds /\ x.down = {} /\ x.desk.state = "disconnected" /\ x.desk.mode = "view"
      /\ x.desk.sent = 0 /\ x.desk.painted = 0
      /\ x.desk.conn = "none" /\ x.desk.kind = "none" /\ x.desk.portal = "none"
      /\ x.desk.identity = None /\ x.desk.media = "none" /\ x.desk.held = {} /\ ~x.desk.enabled
      /\ \A r \in Reads : ~x.reads[r].epoch /\ ~x.reads[r].generation
  BY <1>4, <1>6, <1>7, <1>8, GenerationOf
<1>10. x.desk.display = None
  <2>1. PICK d : d = [e.desk EXCEPT !.state = "disconnected", !.display = None, !.mode = "view", !.sent = 0,
                                    !.painted = 0]
    OBVIOUS
  <2>2. x.desk = d
    BY <1>4, <1>6, <1>7, <2>1 DEF Desktop!NewGeneration, Worlds
  <2>3. QED
    BY <1>5, <1>6, <2>1, <2>2 DEF Desks
<1>11. Connection(x.desk)
  BY <1>9 DEF Connection
<1>12. Reading(x) /\ Still(x) /\ Liftable(x)
  BY <1>9, FS_EmptySet DEF Reading, Still, Liftable
<1>13. QED
  BY <1>9, <1>10, <1>11, <1>12 DEF Released, Base

\* Too many events for the window: the session is closed and the connection ends.
LEMMA Overran ==
  ASSUME NEW w \in Worlds, w.desk.kind = "wayland", NEW x, x = Desktop!Overrun(w)
  PROVE  /\ Released(x) /\ x.desk.conn = "none" /\ x.desk.kind = "none" /\ x.desk.identity = None
         /\ x.desk.sent = 0 /\ x.desk.media = "none"
<1>1. PICK c : c = Desktop!ClosePortal(w)
  OBVIOUS
<1>2. c \in Worlds /\ c.desk \in Desks /\ c.desk.kind = "wayland"
  BY <1>1, ClosedPortal
<1>3. PICK d : d = [c.desk EXCEPT !.held = {}, !.media = "none"]
  OBVIOUS
<1>4. PICK y : y = [c EXCEPT !.desk = d]
  OBVIOUS
<1>5. x = Desktop!End(y)
  BY <1>1, <1>3, <1>4, Zenon DEF Desktop!Overrun
<1>6. d \in Desks /\ d.kind = "wayland"
  BY <1>2, <1>3 DEF Desks
<1>7. y \in Worlds /\ y.desk.kind = "wayland"
  BY <1>2, <1>4, <1>6 DEF Worlds
<1>8. QED
  BY <1>5, <1>7, Ended

\* What was held is let go, or the session went with it.
LetsGo(w, x) ==
  /\ Base(x) /\ x.desk.held = {} /\ x.down = {} /\ Stays(w, x)
  /\ w.desk.conn = "none" => x.desk.conn = "none"
  /\ x.desk.conn = "none" => x.desk.kind = "none"
  /\ x.desk.conn # "none" =>
       /\ x.desk.state = w.desk.state /\ x.desk.mode = w.desk.mode /\ x.desk.display = w.desk.display
       /\ x.desk.sent = w.desk.sent /\ x.desk.painted = w.desk.painted /\ x.desk.media = w.desk.media
\* The desk is the same but for what it held.
Emptied(d, e) ==
  /\ e \in Desks /\ e.held = {}
  /\ e.conn = d.conn /\ e.kind = d.kind /\ e.portal = d.portal /\ e.identity = d.identity /\ e.seen = d.seen
  /\ e.sent = d.sent /\ e.painted = d.painted /\ e.state = d.state /\ e.mode = d.mode /\ e.display = d.display
  /\ e.media = d.media /\ e.enabled = d.enabled

\* What is emptied is let go of: the rest of the desk is the same.
LEMMA EmptiedLetsGo ==
  ASSUME NEW w, Base(w), NEW d, Emptied(w.desk, d), NEW y, y = [w EXCEPT !.desk = d, !.down = {}]
  PROVE  LetsGo(w, y)
<1>1. w \in Worlds /\ Connection(w.desk) /\ Reading(w) /\ Liftable(w) /\ d \in Desks
  BY DEF Base, Emptied
<1>2. y \in Worlds /\ y.desk = d /\ y.down = {} /\ y.reads = w.reads
  BY <1>1 DEF Worlds
<1>3. Desktop!InControl(d) <=> Desktop!InControl(w.desk)
  BY DEF Desktop!InControl, Emptied
<1>4. Connection(d)
  BY <1>1, <1>3 DEF Connection, Emptied
<1>5. Reading(y)
  BY <1>1, <1>2, <1>3 DEF Reading, Emptied
<1>6. Liftable(y)
  BY <1>2, FS_EmptySet DEF Liftable, Emptied
<1>7. Base(y)
  BY <1>2, <1>4, <1>5, <1>6 DEF Base
<1>8. QED
  BY <1>1, <1>2, <1>4, <1>7 DEF Emptied, LetsGo, Stays, Connection

\* HeldInput.release leaves nothing held and nothing down.
LEMMA LetGo ==
  ASSUME NEW w, Base(w), NEW x, x = Desktop!Release(w)
  PROVE  LetsGo(w, x)
<1>1. w \in Worlds /\ Connection(w.desk) /\ Liftable(w) /\ w.desk \in Desks
  BY DEF Base, Worlds
<1>2. PICK n : n = Cardinality(w.desk.held)
  OBVIOUS
<1>3. n \in Nat /\ w.desk.pending \in 0..MaxPending /\ MaxPending \in Nat
  BY <1>1, <1>2, FS_CardinalityType, DesktopAssumption DEF Liftable, Desks
<1>4. PICK a, b, c :
        /\ a = [w EXCEPT !.desk.held = {}]
        /\ b = [[w EXCEPT !.desk.held = {}] EXCEPT !.down = @ \ w.desk.held, !.desk.pending = @ + n]
        /\ c = [[w EXCEPT !.desk.held = {}] EXCEPT !.down = @ \ w.desk.held]
  OBVIOUS
<1>5. x = CASE w.desk.kind = "x11" -> c
            [] w.desk.portal = "open" /\ w.desk.pending + n <= MaxPending -> b
            [] w.desk.portal = "open" /\ w.desk.pending + n > MaxPending -> Desktop!Overrun(w)
            [] OTHER -> a
  BY <1>2, <1>4 DEF Desktop!Release
<1>6. PICK f : f = [w.desk EXCEPT !.held = {}]
  OBVIOUS
<1>7. Emptied(w.desk, f) /\ f.pending = w.desk.pending
  <2>1. f \in Desks
    BY <1>1, <1>6 DEF Desks
  <2>2. QED
    BY <1>1, <1>6, <2>1 DEF Desks, Emptied
<1>8. w.down \ w.desk.held = {}
  BY <1>1 DEF Liftable
<1>9. CASE w.desk.kind = "x11"
  <2>1. w.desk.portal # "open"
    BY <1>1, <1>9 DEF Connection
  <2>2. x = c
    BY <1>5, <1>9, <2>1
  <2>3. c = [w EXCEPT !.desk = f, !.down = {}]
    BY <1>1, <1>4, <1>6, <1>8 DEF Worlds
  <2>4. QED
    BY <1>7, <2>2, <2>3, EmptiedLetsGo
<1>10. CASE w.desk.kind # "x11" /\ w.desk.portal = "open" /\ w.desk.pending + n <= MaxPending
  <2>1. PICK m : m = w.desk.pending + n
    OBVIOUS
  <2>2. m \in 0..MaxPending
    BY <1>3, <1>10, <2>1
  <2>3. PICK g : g = [f EXCEPT !.pending = m]
    OBVIOUS
  <2>4. x = b
    BY <1>3, <1>5, <1>10
  <2>5. b = [w EXCEPT !.desk = g, !.down = {}]
    BY <1>1, <1>4, <1>6, <1>7, <1>8, <2>1, <2>3 DEF Worlds
  <2>6. g \in Desks
    BY <1>7, <2>2, <2>3 DEF Emptied, Desks
  <2>7. Emptied(w.desk, g)
    BY <1>7, <2>3, <2>6 DEF Emptied, Desks
  <2>8. QED
    BY <2>4, <2>5, <2>7, EmptiedLetsGo
<1>11. CASE w.desk.kind # "x11" /\ w.desk.portal = "open" /\ w.desk.pending + n > MaxPending
  <2>1. x = Desktop!Overrun(w)
    BY <1>3, <1>5, <1>11
  <2>2. w.desk.kind = "wayland"
    BY <1>1, <1>11 DEF Connection
  <2>3. Released(x) /\ x.desk.conn = "none" /\ x.desk.kind = "none" /\ x.desk.identity = None
    BY <1>1, <2>1, <2>2, Overran
  <2>4. QED
    BY <2>3 DEF Released, Still, Stays, LetsGo
<1>12. CASE w.desk.kind # "x11" /\ w.desk.portal # "open"
  <2>1. x = a
    BY <1>5, <1>12
  <2>2. w.down = {}
    BY <1>1, <1>12 DEF Liftable
  <2>3. a = [w EXCEPT !.desk = f, !.down = {}]
    BY <1>1, <1>4, <1>6, <2>2 DEF Worlds
  <2>4. QED
    BY <1>7, <2>1, <2>3, EmptiedLetsGo
<1>13. QED
  BY <1>3, <1>9, <1>10, <1>11, <1>12

\* Input and the clipboard are given up; the connection may have ended.
GivesUp(w, x) ==
  /\ Released(x) /\ Stays(w, x)
  /\ w.desk.conn = "none" => x.desk.conn = "none"

\* release_input, of a connection or of none
LEMMA GivenUp ==
  ASSUME NEW w, Base(w), NEW x, x = Desktop!ReleaseInput(w)
  PROVE  GivesUp(w, x)
<1>1. PICK r : r = Desktop!Release(w)
  OBVIOUS
<1>2. LetsGo(w, r)
  BY <1>1, LetGo
<1>3. r \in Worlds /\ r.desk \in Desks /\ r.reads \in [Reads -> Readings] /\ Connection(r.desk) /\ Reading(r)
      /\ Liftable(r) /\ r.desk.held = {} /\ r.down = {}
  BY <1>2 DEF LetsGo, Base, Worlds
<1>4. CASE r.desk.kind = "none"
  <2>1. x = r
    BY <1>1, <1>4 DEF Desktop!ReleaseInput
  <2>2. ~r.desk.enabled
    BY <1>3, <1>4 DEF Connection, Desktop!InControl, Desks
  <2>3. r.desk.conn = "none"
    BY <1>3, <1>4 DEF Connection
  <2>4. \A k \in Reads : ~r.reads[k].epoch
    BY <1>3, <2>3 DEF Reading
  <2>5. QED
    BY <1>2, <1>3, <2>1, <2>2, <2>4 DEF LetsGo, Released, Still, GivesUp
<1>5. CASE r.desk.kind # "none"
  <2>1. PICK d : d = [r.desk EXCEPT !.enabled = FALSE]
    OBVIOUS
  <2>2. PICK q : q = [k \in Reads |-> [r.reads[k] EXCEPT !.epoch = FALSE]]
    OBVIOUS
  <2>3. x = [r EXCEPT !.desk = d, !.reads = q]
    BY <1>1, <1>5, <2>1, <2>2 DEF Desktop!ReleaseInput
  <2>4. d \in Desks
    BY <1>3, <2>1 DEF Desks
  <2>5. /\ ~d.enabled /\ d.held = {} /\ d.conn = r.desk.conn /\ d.kind = r.desk.kind
        /\ d.portal = r.desk.portal /\ d.identity = r.desk.identity /\ d.seen = r.desk.seen /\ d.sent = r.desk.sent
        /\ d.painted = r.desk.painted /\ d.state = r.desk.state /\ d.mode = r.desk.mode /\ d.media = r.desk.media
    BY <1>3, <2>1 DEF Desks
  <2>6. q \in [Reads -> Readings]
        /\ \A k \in Reads : /\ ~q[k].epoch /\ q[k].why = r.reads[k].why
                            /\ q[k].generation = r.reads[k].generation
    BY <1>3, <2>2 DEF Readings
  <2>7. x \in Worlds /\ x.desk = d /\ x.reads = q /\ x.down = {}
    BY <1>3, <2>3, <2>4, <2>6 DEF Worlds
  <2>8. Desktop!InControl(d) <=> Desktop!InControl(r.desk)
    BY <2>5 DEF Desktop!InControl
  <2>9. Connection(d)
    BY <1>3, <2>5 DEF Connection
  <2>10. Reading(x)
    BY <1>3, <2>6, <2>7, <2>8 DEF Reading
  <2>11. Liftable(x) /\ Still(x)
    BY <2>5, <2>6, <2>7, FS_EmptySet DEF Liftable, Still
  <2>12. Stays(w, x) /\ (w.desk.conn = "none" => x.desk.conn = "none")
    BY <1>2, <2>5, <2>7 DEF LetsGo, Stays
  <2>13. QED
    BY <2>7, <2>9, <2>10, <2>11, <2>12 DEF Released, Base, GivesUp
<1>6. QED
  BY <1>4, <1>5

\* The media is another: the rest is the same.
LEMMA MediaBecomes ==
  ASSUME NEW w, Released(w), NEW media \in {"none", "running", "invalid", "unstarted"},
         media \in {"running", "invalid"} => w.desk.conn = "connected",
         NEW x, x = [w EXCEPT !.desk.media = media]
  PROVE  /\ Released(x) /\ Stays(w, x) /\ x.desk.conn = w.desk.conn /\ x.desk.state = w.desk.state
         /\ x.desk.media = media /\ x.desk.sent = w.desk.sent /\ x.desk.kind = w.desk.kind
         /\ x.desk.portal = w.desk.portal
<1>1. w \in Worlds /\ w.desk \in Desks /\ Connection(w.desk) /\ Reading(w) /\ Liftable(w) /\ Still(w)
  BY DEF Released, Base, Worlds
<1>2. PICK d : d = [w.desk EXCEPT !.media = media]
  OBVIOUS
<1>3. d \in Desks
  BY <1>1, <1>2 DEF Desks
<1>4. /\ d.media = media /\ d.enabled = w.desk.enabled /\ d.held = w.desk.held /\ d.conn = w.desk.conn
      /\ d.kind = w.desk.kind /\ d.portal = w.desk.portal /\ d.identity = w.desk.identity /\ d.seen = w.desk.seen
      /\ d.sent = w.desk.sent /\ d.painted = w.desk.painted /\ d.state = w.desk.state /\ d.mode = w.desk.mode
  BY <1>1, <1>2 DEF Desks
<1>5. x \in Worlds /\ x.desk = d /\ x.down = w.down /\ x.reads = w.reads
  BY <1>1, <1>2, <1>3 DEF Worlds
<1>6. Desktop!InControl(d) <=> Desktop!InControl(w.desk)
  BY <1>4 DEF Desktop!InControl
<1>7. Connection(d)
  BY <1>1, <1>4, <1>6 DEF Connection
<1>8. Reading(x) /\ Liftable(x) /\ Still(x)
  BY <1>1, <1>4, <1>5, <1>6 DEF Reading, Liftable, Still
<1>9. QED
  BY <1>4, <1>5, <1>7, <1>8 DEF Released, Base, Stays

\* Staying is passed on.
LEMMA StaysOn ==
  ASSUME NEW w, NEW x, NEW y, Stays(w, x), Stays(x, y), x.desk.conn = "none" => y.desk.conn = "none",
         Released(y)
  PROVE  Stays(w, y)
  BY DEF Stays

\* The media is stopped.
LEMMA MediaStopped ==
  ASSUME NEW w, Base(w), NEW x, x = Desktop!StopMedia(w)
  PROVE  GivesUp(w, x) /\ x.desk.media = "none"
<1>1. PICK r : r = Desktop!ReleaseInput(w)
  OBVIOUS
<1>2. GivesUp(w, r)
  BY <1>1, GivenUp
<1>3. x = [r EXCEPT !.desk.media = "none"]
  BY <1>1 DEF Desktop!StopMedia
<1>4. Released(r)
  BY <1>2 DEF GivesUp
<1>5. Released(x) /\ Stays(r, x) /\ x.desk.conn = r.desk.conn /\ x.desk.media = "none"
  BY <1>3, <1>4, MediaBecomes
<1>6. QED
  BY <1>2, <1>5, StaysOn DEF GivesUp

\* Suspended, and so in that state if the connection is still there
LEMMA Suspended ==
  ASSUME NEW w, Base(w), NEW reason \in DeskStates, NEW x, x = Desktop!Suspend(w, reason)
  PROVE  GivesUp(w, x) /\ x.desk.state = reason /\ x.desk.sent = 0 /\ x.desk.media = "none"
<1>1. PICK y : y = Desktop!StopMedia(w)
  OBVIOUS
<1>2. GivesUp(w, y) /\ Released(y) /\ y.desk.media = "none"
  BY <1>1, MediaStopped DEF GivesUp
<1>3. x = Desktop!NewGeneration(y, reason, y.desk.display, y.desk.mode)
  BY <1>1 DEF Desktop!Suspend, Desktop!Revoke
<1>4. y.desk.display \in Displays \cup {None} /\ y.desk.mode \in Desktop!Modes
  BY <1>2 DEF Released, Base, Worlds, Desks
<1>5. /\ Released(x) /\ x.desk.state = reason /\ Stays(y, x) /\ x.desk.sent = 0 /\ x.desk.media = "none"
      /\ y.desk.conn = "none" => x.desk.conn = "none"
  BY <1>2, <1>3, <1>4, GenerationStill
<1>6. QED
  BY <1>2, <1>5, StaysOn DEF GivesUp

\* Disconnected
LEMMA Disconnected ==
  ASSUME NEW w, Base(w), NEW x, x = Desktop!Disconnect(w)
  PROVE  /\ GivesUp(w, x) /\ x.desk.conn = "none" /\ x.desk.kind = "none" /\ x.desk.identity = None
         /\ x.desk.state = "disconnected" /\ x.desk.sent = 0 /\ x.desk.media = "none"
<1>1. PICK y : y = Desktop!StopMedia(w)
  OBVIOUS
<1>2. Released(y)
  BY <1>1, MediaStopped DEF GivesUp
<1>3. y \in Worlds /\ y.down = {} /\ \A r \in Reads : ~y.reads[r].epoch
  BY <1>2 DEF Released, Base, Still
<1>4. x = Desktop!End(y)
  BY <1>1 DEF Desktop!Disconnect
<1>5. /\ Released(x) /\ x.desk.conn = "none" /\ x.desk.kind = "none" /\ x.desk.identity = None
      /\ x.desk.state = "disconnected" /\ x.desk.sent = 0 /\ x.desk.media = "none"
  BY <1>3, <1>4, Ended
<1>6. QED
  BY <1>5 DEF GivesUp, Stays

\* clipboard_enabled is right of any connection.
LEMMA Enabled ==
  ASSUME NEW w, World(w), NEW x, x = Desktop!Enable(w)
  PROVE  /\ World(x) /\ Stays(w, x) /\ x.desk.conn = w.desk.conn /\ x.desk.state = w.desk.state
         /\ x.desk.kind = w.desk.kind /\ x.desk.portal = w.desk.portal /\ x.desk.sent = w.desk.sent
         /\ Released(w) /\ w.desk.painted = 0 => Released(x)
<1>1. w \in Worlds /\ w.desk \in Desks /\ Connection(w.desk) /\ Reading(w) /\ Liftable(w)
  BY DEF World, Base, Worlds
<1>2. CASE w.desk.kind = "none"
  BY <1>2 DEF Desktop!Enable, World, Stays
<1>3. CASE w.desk.kind # "none"
  <2>1. PICK e : e = Desktop!InControl(w.desk)
    OBVIOUS
  <2>2. e \in BOOLEAN /\ (e <=> Desktop!InControl(w.desk))
    BY <2>1 DEF Desktop!InControl
  <2>3. PICK d : d = [w.desk EXCEPT !.enabled = e]
    OBVIOUS
  <2>4. x = [w EXCEPT !.desk = d]
    BY <1>3, <2>1, <2>3 DEF Desktop!Enable
  <2>5. d \in Desks
    BY <1>1, <2>2, <2>3 DEF Desks
  <2>6. /\ d.enabled = e /\ d.media = w.desk.media /\ d.held = w.desk.held /\ d.conn = w.desk.conn
        /\ d.kind = w.desk.kind /\ d.portal = w.desk.portal /\ d.identity = w.desk.identity /\ d.seen = w.desk.seen
        /\ d.sent = w.desk.sent /\ d.painted = w.desk.painted /\ d.state = w.desk.state /\ d.mode = w.desk.mode
    BY <1>1, <2>3 DEF Desks
  <2>7. x \in Worlds /\ x.desk = d /\ x.down = w.down /\ x.reads = w.reads
    BY <1>1, <2>4, <2>5 DEF Worlds
  <2>8. Desktop!InControl(d) <=> Desktop!InControl(w.desk)
    BY <2>6 DEF Desktop!InControl
  <2>9. Connection(d)
    BY <1>1, <1>3, <2>2, <2>6, <2>8 DEF Connection
  <2>10. Reading(x) /\ Liftable(x)
    BY <1>1, <2>6, <2>7, <2>8 DEF Reading, Liftable
  <2>11. World(x)
    BY <2>6, <2>7, <2>8, <2>9, <2>10 DEF World, Base, Commanded
  <2>12. Released(w) /\ w.desk.painted = 0 => ~e
    BY <2>2 DEF Desktop!InControl
  <2>13. Released(w) /\ w.desk.painted = 0 => Released(x)
    BY <2>6, <2>7, <2>11, <2>12 DEF World, Released, Still
  <2>14. QED
    BY <2>6, <2>7, <2>11, <2>13 DEF Stays
<1>4. QED
  BY <1>2, <1>3

\* What is still and shows nothing is a world.
LEMMA StillWorld ==
  ASSUME NEW w, Released(w), w.desk.sent = 0, w.desk.media \notin {"running", "invalid"}
  PROVE  World(w)
  BY DEF Released, Still, World, Commanded

\* The displays are others.
LEMMA DisplaysBecome ==
  ASSUME NEW w, Base(w), NEW displays \in SUBSET Displays, NEW x, x = [w EXCEPT !.desk.displays = displays]
  PROVE  Base(x) /\ Stays(w, x) /\ x.desk.conn = w.desk.conn
<1>1. w \in Worlds /\ w.desk \in Desks /\ Connection(w.desk) /\ Reading(w) /\ Liftable(w)
  BY DEF Base, Worlds
<1>2. PICK d : d = [w.desk EXCEPT !.displays = displays]
  OBVIOUS
<1>3. d \in Desks
  BY <1>1, <1>2 DEF Desks
<1>4. /\ d.media = w.desk.media /\ d.enabled = w.desk.enabled /\ d.held = w.desk.held /\ d.conn = w.desk.conn
      /\ d.kind = w.desk.kind /\ d.portal = w.desk.portal /\ d.identity = w.desk.identity /\ d.seen = w.desk.seen
      /\ d.sent = w.desk.sent /\ d.painted = w.desk.painted /\ d.state = w.desk.state /\ d.mode = w.desk.mode
  BY <1>1, <1>2 DEF Desks
<1>5. x \in Worlds /\ x.desk = d /\ x.down = w.down /\ x.reads = w.reads
  BY <1>1, <1>2, <1>3 DEF Worlds
<1>6. Desktop!InControl(d) <=> Desktop!InControl(w.desk)
  BY <1>4 DEF Desktop!InControl
<1>7. Connection(d)
  BY <1>1, <1>4, <1>6 DEF Connection
<1>8. Reading(x) /\ Liftable(x)
  BY <1>1, <1>4, <1>5, <1>6 DEF Reading, Liftable
<1>9. QED
  BY <1>4, <1>5, <1>7, <1>8 DEF Base, Stays

\* What the state of a login can be
LEMMA StateOf ==
  ASSUME NEW d \in Desks
  PROVE  /\ Desktop!State(d) \in Desktop!Locks \cup {"ready"}
         /\ Desktop!State(d) = "ready" => d.seen = "ready"
         /\ Desktop!State(d) # "ready" => Desktop!State(d) \in DeskStates /\ Desktop!State(d) # "active"
<1>1. d.seen \in {"nothing", "inactive", "another", "locked", "ready"}
  BY DEF Desks
<1>2. QED
  BY <1>1 DEF Desktop!State, Desktop!Locks, DeskStates

\* require_active that raises gives everything up.
LEMMA RefusedGivesUp ==
  ASSUME monitors \subseteq Displays, NEW w, Base(w), NEW x, x = Desktop!Refused(w)
  PROVE  GivesUp(w, x) /\ x.desk.state # "active" /\ x.desk.sent = 0 /\ x.desk.media = "none"
<1>1. w \in Worlds /\ w.desk \in Desks
  BY DEF Base, Worlds
<1>2. CASE Desktop!State(w.desk) # "ready"
  <2>1. x = Desktop!Suspend(w, Desktop!State(w.desk))
    BY <1>2 DEF Desktop!Refused
  <2>2. QED
    BY <1>1, <1>2, <2>1, StateOf, Suspended
<1>3. CASE Desktop!State(w.desk) = "ready" /\ w.desk.media = "invalid"
  <2>1. x = Desktop!Disconnect(w)
    BY <1>3 DEF Desktop!Refused
  <2>2. QED
    BY <2>1, Disconnected
<1>4. CASE Desktop!State(w.desk) = "ready" /\ w.desk.media # "invalid"
  <2>1. PICK y : y = [w EXCEPT !.desk.displays = monitors]
    OBVIOUS
  <2>2. x = Desktop!Suspend(y, "DISPLAY_CHANGED")
    BY <1>4, <2>1 DEF Desktop!Refused
  <2>3. Base(y) /\ Stays(w, y) /\ y.desk.conn = w.desk.conn
    BY <2>1, DisplaysBecome
  <2>4. "DISPLAY_CHANGED" \in DeskStates
    BY DEF DeskStates
  <2>5. GivesUp(y, x) /\ x.desk.state = "DISPLAY_CHANGED" /\ x.desk.sent = 0 /\ x.desk.media = "none"
    BY <2>2, <2>3, <2>4, Suspended
  <2>6. Stays(w, x)
    BY <2>3, <2>5, StaysOn DEF GivesUp, Stays
  <2>7. QED
    BY <2>3, <2>5, <2>6 DEF GivesUp
<1>5. QED
  BY <1>2, <1>3, <1>4

\* A handler ends in a world of the same connection, or of none.
Turned(w, x) == World(x) /\ Stays(w, x) /\ (w.desk.conn = "none" => x.desk.conn = "none")
\* A handler that gives up and captures nothing has turned one world into another.
LEMMA GivesUpTurned ==
  ASSUME NEW w, NEW x, GivesUp(w, x), x.desk.sent = 0, x.desk.media \notin {"running", "invalid"}
  PROVE  Turned(w, x)
  BY StillWorld DEF GivesUp, Turned

\* A handler that does nothing has turned it too.
LEMMA SameTurned == ASSUME NEW w, World(w) PROVE Turned(w, w)
  BY DEF Turned, Stays

\* One turn after another is a turn.
LEMMA TurnedOn == ASSUME NEW w, NEW x, NEW y, Turned(w, x), Turned(x, y) PROVE Turned(w, y)
  BY DEF Turned, Stays

\* A transition ends in a world.
LEMMA Transited ==
  ASSUME monitors \subseteq Displays, NEW w, World(w), NEW display \in Displays \cup {None},
         NEW mode \in Desktop!Modes, NEW starts \in BOOLEAN,
         NEW x, x = Desktop!Transition(w, display, mode, starts)
  PROVE  Turned(w, x)
<1>1. PICK y, g, b :
        /\ y = Desktop!StopMedia(w) /\ g = Desktop!NewGeneration(y, "active", display, mode)
        /\ b = Desktop!Enable(g)
  OBVIOUS
<1>2. x = IF w.desk.conn # "connected" \/ display \notin w.desk.displays THEN w
          ELSE IF ~Desktop!Admits(w.desk) THEN Desktop!Refused(w)
          ELSE IF mode = "control" /\ w.desk.kind = "wayland" /\ ~w.desk.devices THEN w
          ELSE IF b.desk.identity = None \/ (w.desk.kind = "wayland" /\ w.desk.portal # "open")
            THEN [b EXCEPT !.desk.media = "unstarted"]
          ELSE IF starts THEN [b EXCEPT !.desk.media = "running"]
          ELSE Desktop!Suspend(b, "suspended")
  BY <1>1 DEF Desktop!Transition
<1>3. Base(w)
  BY DEF World
<1>4. GivesUp(w, y) /\ y.desk.media = "none"
  BY <1>1, <1>3, MediaStopped
<1>5. "active" \in DeskStates /\ "suspended" \in DeskStates
  BY DEF DeskStates
<1>6. /\ Released(g) /\ g.desk.painted = 0 /\ Stays(y, g) /\ g.desk.sent = 0 /\ g.desk.media = "none"
      /\ y.desk.conn = "none" => g.desk.conn = "none"
  BY <1>1, <1>4, <1>5, GenerationStill DEF GivesUp
<1>7. Stays(w, g) /\ (w.desk.conn = "none" => g.desk.conn = "none")
  BY <1>4, <1>6, StaysOn DEF GivesUp
<1>8. World(g)
  BY <1>6, StillWorld
<1>9. /\ Released(b) /\ Stays(g, b) /\ b.desk.conn = g.desk.conn /\ World(b) /\ b.desk.sent = 0
      /\ b.desk.kind = g.desk.kind /\ b.desk.portal = g.desk.portal
  BY <1>1, <1>6, <1>8, Enabled
<1>10. GivesUp(w, b)
  BY <1>7, <1>9, StaysOn DEF GivesUp
<1>11. ASSUME NEW m \in {"running", "unstarted"},
              m = "running" => b.desk.conn = "connected" /\ (b.desk.kind = "wayland" => b.desk.portal = "open"),
              x = [b EXCEPT !.desk.media = m]
       PROVE  Turned(w, x)
  <2>1. /\ Released(x) /\ Stays(b, x) /\ x.desk.conn = b.desk.conn /\ x.desk.sent = 0 /\ x.desk.media = m
        /\ x.desk.kind = b.desk.kind /\ x.desk.portal = b.desk.portal
    BY <1>9, <1>11, MediaBecomes
  <2>2. GivesUp(w, x)
    BY <1>10, <2>1, StaysOn DEF GivesUp
  <2>3. Commanded(x.desk)
    BY <1>11, <2>1 DEF Commanded, Released, Still
  <2>4. QED
    BY <2>1, <2>2, <2>3 DEF Turned, World, GivesUp, Released
<1>12. CASE x = w
  BY <1>12, SameTurned
<1>13. CASE x = Desktop!Refused(w)
  BY <1>3, <1>13, RefusedGivesUp, GivesUpTurned
<1>14. CASE x = [b EXCEPT !.desk.media = "unstarted"]
  BY <1>11, <1>14
<1>15. CASE /\ x = [b EXCEPT !.desk.media = "running"] /\ b.desk.identity # None /\ w.desk.conn = "connected"
            /\ ~(w.desk.kind = "wayland" /\ w.desk.portal # "open")
  <2>1. b.desk.conn = "connected" /\ (b.desk.kind = "wayland" => b.desk.portal = "open")
    BY <1>10, <1>15 DEF GivesUp, Stays
  <2>2. QED
    BY <1>11, <1>15, <2>1
<1>16. CASE x = Desktop!Suspend(b, "suspended")
  <2>1. Base(b)
    BY <1>9 DEF Released
  <2>2. GivesUp(b, x) /\ x.desk.sent = 0 /\ x.desk.media = "none"
    BY <1>5, <1>16, <2>1, Suspended
  <2>3. GivesUp(w, x)
    BY <1>10, <2>2, StaysOn DEF GivesUp
  <2>4. QED
    BY <2>2, <2>3, GivesUpTurned
<1>17. QED
  BY <1>2, <1>12, <1>13, <1>14, <1>15, <1>16

\* A connection that is finished ends in a world.
LEMMA Finished ==
  ASSUME monitors \subseteq Displays, NEW w, World(w), w.desk.kind # "none", NEW mode \in Desktop!Modes,
         NEW starts \in BOOLEAN, NEW x, x = Desktop!Finish(w, mode, starts)
  PROVE  World(x)
<1>1. PICK c, p : c = [w EXCEPT !.desk.conn = "connected"] /\ p = CHOOSE d \in w.desk.displays : TRUE
  OBVIOUS
<1>2. x = IF ~Desktop!Admits(w.desk) THEN Desktop!Disconnect(Desktop!Refused(w))
          ELSE IF w.desk.displays = {} \/ ~starts THEN Desktop!Disconnect(c)
          ELSE IF mode = "control" /\ w.desk.kind = "wayland" /\ ~w.desk.devices THEN Desktop!Disconnect(c)
          ELSE Desktop!Transition(c, p, mode, TRUE)
  BY <1>1 DEF Desktop!Finish
<1>3. Base(w) /\ w \in Worlds /\ w.desk \in Desks /\ Connection(w.desk) /\ Reading(w) /\ Liftable(w)
  BY DEF World, Base, Worlds
<1>4. World(c)
  <2>1. PICK d : d = [w.desk EXCEPT !.conn = "connected"]
    OBVIOUS
  <2>2. d \in Desks
    BY <1>3, <2>1 DEF Desks
  <2>3. /\ d.media = w.desk.media /\ d.enabled = w.desk.enabled /\ d.held = w.desk.held /\ d.conn = "connected"
        /\ d.kind = w.desk.kind /\ d.portal = w.desk.portal /\ d.identity = w.desk.identity /\ d.seen = w.desk.seen
        /\ d.sent = w.desk.sent /\ d.painted = w.desk.painted /\ d.state = w.desk.state /\ d.mode = w.desk.mode
    BY <1>3, <2>1 DEF Desks
  <2>4. c \in Worlds /\ c.desk = d /\ c.down = w.down /\ c.reads = w.reads
    BY <1>1, <1>3, <2>1, <2>2 DEF Worlds
  <2>5. Desktop!InControl(d) <=> Desktop!InControl(w.desk)
    BY <2>3 DEF Desktop!InControl
  <2>6. Connection(d)
    BY <1>3, <2>3, <2>5 DEF Connection
  <2>7. Reading(c) /\ Liftable(c)
    BY <1>3, <2>3, <2>4, <2>5 DEF Reading, Liftable
  <2>8. QED
    BY <2>3, <2>4, <2>5, <2>6, <2>7 DEF World, Base, Commanded
<1>5. CASE x = Desktop!Disconnect(Desktop!Refused(w))
  <2>1. PICK y : y = Desktop!Refused(w)
    OBVIOUS
  <2>2. Base(y)
    BY <1>3, <2>1, RefusedGivesUp DEF GivesUp, Released
  <2>3. QED
    BY <1>5, <2>1, <2>2, Disconnected, StillWorld DEF GivesUp
<1>6. CASE x = Desktop!Disconnect(c)
  BY <1>4, <1>6, Disconnected, StillWorld DEF GivesUp, World
<1>7. CASE x = Desktop!Transition(c, p, mode, TRUE) /\ w.desk.displays # {}
  <2>1. p \in w.desk.displays /\ w.desk.displays \subseteq Displays
    BY <1>1, <1>3, <1>7 DEF Desks
  <2>2. QED
    BY <1>4, <1>7, <2>1, Transited DEF Turned
<1>8. QED
  BY <1>2, <1>5, <1>6, <1>7

\* identity_changed: what is not ready is left in its state, or without connection.
LEMMA Noticed ==
  ASSUME NEW w, World(w), NEW x, x = Desktop!IdentityChanged(w)
  PROVE  /\ Turned(w, x)
         /\ Desktop!State(w.desk) = "ready" => x = w
         /\ Desktop!State(w.desk) # "ready" /\ x.desk.conn # "none" =>
              /\ x.desk.conn = "connected" /\ x.desk.state = Desktop!State(w.desk)
<1>1. w.desk \in Desks /\ Base(w)
  BY DEF World, Base, Worlds
<1>2. CASE Desktop!State(w.desk) = "ready" \/ w.desk.conn = "none"
  <2>1. x = w
    BY <1>2 DEF Desktop!IdentityChanged
  <2>2. QED
    BY <1>2, <2>1, SameTurned
<1>3. CASE Desktop!State(w.desk) # "ready" /\ w.desk.conn = "connecting"
  <2>1. x = Desktop!Disconnect(w)
    BY <1>3 DEF Desktop!IdentityChanged
  <2>2. QED
    BY <1>1, <1>3, <2>1, Disconnected, GivesUpTurned
<1>4. CASE Desktop!State(w.desk) # "ready" /\ w.desk.conn = "connected"
  <2>1. CASE w.desk.state = Desktop!State(w.desk)
    <3>1. x = w
      BY <1>4, <2>1 DEF Desktop!IdentityChanged
    <3>2. QED
      BY <1>4, <2>1, <3>1, SameTurned
  <2>2. CASE w.desk.state # Desktop!State(w.desk)
    <3>1. x = Desktop!Suspend(w, Desktop!State(w.desk))
      BY <1>4, <2>2 DEF Desktop!IdentityChanged
    <3>2. Desktop!State(w.desk) \in DeskStates
      BY <1>1, <1>4, StateOf
    <3>3. GivesUp(w, x) /\ x.desk.state = Desktop!State(w.desk) /\ x.desk.sent = 0 /\ x.desk.media = "none"
      BY <1>1, <3>1, <3>2, Suspended
    <3>4. QED
      BY <1>4, <3>3, GivesUpTurned DEF GivesUp, Stays
  <2>3. QED
    BY <2>1, <2>2
<1>5. w.desk.conn \in {"none", "connecting", "connected"}
  BY <1>1 DEF Desks
<1>6. QED
  BY <1>2, <1>3, <1>4, <1>5

\* What is submitted fits the window, or the connection ends.
LEMMA Submitted ==
  ASSUME NEW w, World(w), w.desk.kind # "none", NEW n \in Nat, NEW x, x = Desktop!Submit(w, n)
  PROVE  /\ World(x)
         /\ x.desk.kind # "none" =>
              /\ x.down = w.down /\ x.desk.held = w.desk.held /\ x.desk.kind = w.desk.kind
              /\ x.desk.portal = w.desk.portal
              /\ Desktop!InControl(x.desk) <=> Desktop!InControl(w.desk)
<1>1. w \in Worlds /\ w.desk \in Desks /\ Connection(w.desk) /\ Reading(w) /\ Liftable(w)
  BY DEF World, Base, Worlds
<1>2. w.desk.pending \in 0..MaxPending /\ MaxPending \in Nat /\ w.desk.kind \in {"wayland", "x11"}
  BY <1>1, DesktopAssumption DEF Desks
<1>3. PICK m : m = w.desk.pending + n
  OBVIOUS
<1>4. x = IF w.desk.kind = "x11" THEN w
          ELSE IF m > MaxPending THEN Desktop!Overrun(w) ELSE [w EXCEPT !.desk.pending = m]
  BY <1>3 DEF Desktop!Submit
<1>5. CASE w.desk.kind = "x11"
  BY <1>4, <1>5
<1>6. CASE w.desk.kind = "wayland" /\ m > MaxPending
  <2>1. x = Desktop!Overrun(w)
    BY <1>4, <1>6
  <2>2. Released(x) /\ x.desk.kind = "none" /\ x.desk.sent = 0 /\ x.desk.media = "none"
    BY <1>1, <1>6, <2>1, Overran
  <2>3. QED
    BY <2>2, StillWorld
<1>7. CASE w.desk.kind = "wayland" /\ ~(m > MaxPending)
  <2>1. x = [w EXCEPT !.desk.pending = m] /\ m \in 0..MaxPending
    BY <1>2, <1>3, <1>4, <1>7
  <2>2. PICK d : d = [w.desk EXCEPT !.pending = m]
    OBVIOUS
  <2>3. d \in Desks
    BY <1>1, <2>1, <2>2 DEF Desks
  <2>4. /\ d.media = w.desk.media /\ d.enabled = w.desk.enabled /\ d.held = w.desk.held /\ d.conn = w.desk.conn
        /\ d.kind = w.desk.kind /\ d.portal = w.desk.portal /\ d.identity = w.desk.identity /\ d.seen = w.desk.seen
        /\ d.sent = w.desk.sent /\ d.painted = w.desk.painted /\ d.state = w.desk.state /\ d.mode = w.desk.mode
    BY <1>1, <2>2 DEF Desks
  <2>5. x \in Worlds /\ x.desk = d /\ x.down = w.down /\ x.reads = w.reads
    BY <1>1, <2>1, <2>2, <2>3 DEF Worlds
  <2>6. Desktop!InControl(d) <=> Desktop!InControl(w.desk)
    BY <2>4 DEF Desktop!InControl
  <2>7. Connection(d)
    BY <1>1, <2>4, <2>6 DEF Connection
  <2>8. Reading(x) /\ Liftable(x)
    BY <1>1, <2>4, <2>5, <2>6 DEF Reading, Liftable
  <2>9. World(x)
    BY <2>4, <2>5, <2>6, <2>7, <2>8 DEF World, Base, Commanded
  <2>10. QED
    BY <1>7, <2>4, <2>5, <2>6, <2>9
<1>8. QED
  BY <1>2, <1>5, <1>6, <1>7

\* The desk is another with the same connection, and in control if it was.
LEMMA DeskBecomes ==
  ASSUME NEW w, World(w), NEW d \in Desks, Connection(d), d.held = w.desk.held, d.kind = w.desk.kind,
         d.portal = w.desk.portal, d.conn = "none" => w.desk.conn = "none",
         Desktop!InControl(w.desk) => Desktop!InControl(d), Commanded(d),
         NEW x, x = [w EXCEPT !.desk = d]
  PROVE  World(x) /\ x.desk = d
<1>1. w \in Worlds /\ Reading(w) /\ Liftable(w)
  BY DEF World, Base
<1>2. x \in Worlds /\ x.desk = d /\ x.down = w.down /\ x.reads = w.reads
  BY <1>1 DEF Worlds
<1>3. Reading(x) /\ Liftable(x)
  BY <1>1, <1>2 DEF Reading, Liftable
<1>4. QED
  BY <1>2, <1>3 DEF World, Base

\* One that differs in what the connection does not depend on
Alike(d, e) ==
  /\ e \in Desks /\ e.held = d.held /\ e.enabled = d.enabled /\ e.conn = d.conn /\ e.kind = d.kind
  /\ e.portal = d.portal /\ e.sent = d.sent /\ e.painted = d.painted /\ e.state = d.state /\ e.mode = d.mode

\* The desk is another, alike: a world still.
LEMMA AlikeBecomes ==
  ASSUME NEW w, World(w), NEW d, Alike(w.desk, d), d.media = w.desk.media,
         NEW x, x = [w EXCEPT !.desk = d]
  PROVE  World(x) /\ x.desk = d
<1>1. Connection(w.desk) /\ d \in Desks
  BY DEF World, Base, Alike
<1>2. Desktop!InControl(d) <=> Desktop!InControl(w.desk)
  BY DEF Desktop!InControl, Alike
<1>3. Connection(d) /\ Commanded(d)
  BY <1>1, <1>2 DEF Connection, Alike, World, Commanded
<1>4. QED
  BY <1>1, <1>2, <1>3, DeskBecomes DEF Alike

\* The variables become what a handler made of them.
LEMMA BecomesWhole ==
  ASSUME NEW w, World(w), Desktop!Becomes(w)
  PROVE  Desktop!Whole' = w
  BY DEF World, Base, Worlds, Desktop!Becomes, Desktop!Whole

\* A handler that ends in a world, and sends no text, keeps the invariant.
LEMMA QuietStep ==
  ASSUME DeskInv, NEW w, World(w), Desktop!Becomes(w), UNCHANGED <<os, monitors>>, Desktop!Quiet
  PROVE  DeskInv'
<1>1. Desktop!Whole' = w
  BY BecomesWhole
<1>2. World(Desktop!Whole)'
  BY <1>1
<1>3. did'.what = "other"
  BY DEF Desktop!Quiet, Desktop!Plain
<1>4. QED
  BY <1>2, <1>3 DEF DeskInv

\* So does one that leaves the login and the monitors alone.
LEMMA HandledStep ==
  ASSUME DeskInv, NEW w, World(w), Desktop!Handled(w)
  PROVE  DeskInv'
  BY QuietStep DEF Desktop!Handled

\* What is known of the desk before a step
LEMMA DeskNow ==
  ASSUME DeskInv
  PROVE  /\ monitors \subseteq Displays /\ os \in Desktop!Login \cup {None}
         /\ World(Desktop!Whole) /\ Base(Desktop!Whole) /\ Desktop!Whole \in Worlds
         /\ Desktop!Whole.desk = desk /\ Desktop!Whole.down = down /\ Desktop!Whole.reads = reads
         /\ desk \in Desks /\ down \in SUBSET Keys /\ reads \in [Reads -> Readings]
         /\ Connection(desk) /\ Commanded(desk) /\ Reading(Desktop!Whole) /\ Liftable(Desktop!Whole)
<1>1. Desktop!Whole.desk = desk /\ Desktop!Whole.down = down /\ Desktop!Whole.reads = reads
  BY DEF Desktop!Whole
<1>2. QED
  BY <1>1 DEF DeskInv, World, Base, Worlds

\* The desk at the start
LEMMA DeskInit == Desktop!Init => DeskInv
<1> SUFFICES ASSUME Desktop!Init PROVE DeskInv
  OBVIOUS
<1>1. desk = Desktop!Idle /\ down = {} /\ reads = [r \in Reads |-> Desktop!NoRead]
  BY DEF Desktop!Init
<1>2. 0 \in 0..MaxPending /\ 0 \in 0..MaxFrames
  BY DesktopAssumption
<1>3. Desktop!Idle \in Desks
  BY <1>2 DEF Desktop!Idle, Desks, DeskStates, Desktop!Modes
<1>4. reads \in [Reads -> Readings] /\ \A r \in Reads : ~reads[r].epoch /\ reads[r].why = "none"
  BY <1>1 DEF Desktop!NoRead, Readings
<1>5. Desktop!Whole \in Worlds /\ Desktop!Whole.desk = Desktop!Idle /\ Desktop!Whole.down = {}
      /\ Desktop!Whole.reads = reads
  BY <1>1, <1>3, <1>4 DEF Desktop!Whole, Worlds
<1>6. Connection(Desktop!Idle) /\ Desktop!Idle.held = {}
  BY <1>2 DEF Connection, Desktop!Idle
<1>7. Reading(Desktop!Whole) /\ Liftable(Desktop!Whole)
  BY <1>4, <1>5, <1>6, FS_EmptySet DEF Reading, Liftable
<1>8. World(Desktop!Whole)
  BY <1>2, <1>5, <1>6, <1>7 DEF World, Base, Commanded, Desktop!Idle
<1>9. did.what = "other"
  BY DEF Desktop!Init, Desktop!Plain
<1>10. QED
  BY <1>8, <1>9 DEF DeskInv, Desktop!Init

\* What is seen of a login
LEMMA SeenOf ==
  ASSUME NEW d
  PROVE  Desktop!Observed(d) \in {"nothing", "another", "locked", "ready"}
  BY DEF Desktop!Observed

\* The login's record becomes another.
LEMMA SeenBecomes ==
  ASSUME NEW w, World(w), NEW seen \in {"nothing", "inactive", "another", "locked", "ready"},
         NEW x, x = [w EXCEPT !.desk.seen = seen]
  PROVE  World(x) /\ x.desk.seen = seen /\ x.desk.identity = w.desk.identity /\ x.desk.conn = w.desk.conn
<1>1. w.desk \in Desks /\ w \in Worlds
  BY DEF World, Base, Worlds
<1>2. PICK d : d = [w.desk EXCEPT !.seen = seen]
  OBVIOUS
<1>3. d \in Desks
  BY <1>1, <1>2 DEF Desks
<1>4. Alike(w.desk, d) /\ d.media = w.desk.media
  BY <1>1, <1>2, <1>3 DEF Desks, Alike
<1>s. d.seen = seen /\ d.identity = w.desk.identity /\ d.conn = w.desk.conn
  BY <1>1, <1>2 DEF Desks
<1>5. x = [w EXCEPT !.desk = d]
  BY <1>1, <1>2 DEF Worlds
<1>6. World(x) /\ x.desk = d
  BY <1>4, <1>5, AlikeBecomes
<1>7. QED
  BY <1>s, <1>6

\* The properties of a login change.
LEMMA SignalStep == ASSUME DeskInv, Desktop!Signal PROVE DeskInv'
<1>1. PICK s : s = CASE desk.seen = "another" -> "another"
                     [] desk.seen = "nothing" \/ (os # None /\ os.login = desk.identity) -> Desktop!Observed(desk)
                     [] OTHER -> "inactive"
  OBVIOUS
<1>2. s \in {"nothing", "inactive", "another", "locked", "ready"}
  <2>1. PICK o : o = Desktop!Observed(desk)
    OBVIOUS
  <2>2. o \in {"nothing", "inactive", "another", "locked", "ready"}
    BY <2>1, SeenOf
  <2>3. QED
    BY <1>1, <2>1, <2>2
<1>3. PICK w : w = [Desktop!Whole EXCEPT !.desk.seen = s]
  OBVIOUS
<1>4. World(w)
  BY <1>2, <1>3, DeskNow, SeenBecomes
<1>5. PICK x : x = Desktop!IdentityChanged(w)
  OBVIOUS
<1>6. World(x)
  BY <1>4, <1>5, Noticed DEF Turned
<1>7. Desktop!Becomes(x) /\ UNCHANGED <<os, monitors>> /\ Desktop!Quiet
  BY <1>1, <1>3, <1>5 DEF Desktop!Signal
<1>8. QED
  BY <1>6, <1>7, QuietStep

\* The login, or what X11 shows, changes.
LEMMA ElsewhereStep ==
  ASSUME DeskInv, Desktop!OsChanges \/ Desktop!MonitorsChange
  PROVE  DeskInv'
<1>1. Desktop!Whole' = Desktop!Whole /\ did'.what = "other"
  BY DEF Desktop!OsChanges, Desktop!MonitorsChange, Desktop!Quiet, Desktop!Plain, Desktop!Whole
<1>2. World(Desktop!Whole)'
  BY <1>1 DEF DeskInv
<1>3. os' \in Desktop!Login \cup {None} /\ monitors' \subseteq Displays
  BY DEF Desktop!OsChanges, Desktop!MonitorsChange, DeskInv
<1>4. QED
  BY <1>1, <1>2, <1>3 DEF DeskInv

\* A turn of the timer notices what became of the login.
LEMMA ObserveStep ==
  ASSUME DeskInv, NEW starts \in BOOLEAN, NEW late \in BOOLEAN, Desktop!Observe(starts, late)
  PROVE  DeskInv'
<1>1. PICK o : o = Desktop!Observed(desk)
  OBVIOUS
<1>2. PICK v : v = [Desktop!Whole EXCEPT !.desk = Desktop!Refreshed(desk)]
  OBVIOUS
<1>3. v = [Desktop!Whole EXCEPT !.desk.seen = o]
  BY <1>1, <1>2, DeskNow DEF Desktop!Refreshed
<1>4. o \in {"nothing", "another", "locked", "ready"}
  BY <1>1, SeenOf
<1>5. World(v) /\ v.desk.seen = o /\ v.desk.identity = desk.identity /\ v.desk.conn = desk.conn /\ v.desk \in Desks
  BY <1>3, <1>4, DeskNow, SeenBecomes DEF World, Base, Worlds
<1>6. PICK w : w = Desktop!IdentityChanged(v)
  OBVIOUS
<1>7. /\ Turned(v, w)
      /\ Desktop!State(v.desk) = "ready" => w = v
      /\ Desktop!State(v.desk) # "ready" /\ w.desk.conn # "none" =>
           /\ w.desk.conn = "connected" /\ w.desk.state = Desktop!State(v.desk)
  BY <1>5, <1>6, Noticed
<1>8. World(w) /\ Stays(v, w) /\ w.desk \in Desks /\ Base(w)
  BY <1>7 DEF Turned, World, Base, Worlds
<1>9. PICK d : d = w.desk
  OBVIOUS
<1>10. PICK r : r = Desktop!Transition(w, d.display, d.mode, starts)
  OBVIOUS
<1>11. PICK x : x =
         IF d.conn # "connected" \/ Desktop!State(d) # "ready" THEN w
         ELSE IF d.state = "locking" THEN IF late THEN Desktop!Suspend(w, "suspended") ELSE w
         ELSE IF d.state = "locked"
           THEN IF r.desk.state = "active" THEN r ELSE Desktop!Suspend(r, "suspended")
         ELSE IF d.state \in {"active", "DISPLAY_CHANGED"} /\ Desktop!Outdated(d) THEN Desktop!Refused(w)
         ELSE w
  OBVIOUS
<1>12. Desktop!Becomes(x) /\ UNCHANGED <<os, monitors>> /\ did' = [Desktop!Plain EXCEPT !.what = "observed"]
  BY <1>2, <1>6, <1>9, <1>10, <1>11 DEF Desktop!Observe
<1>13. Turned(w, r)
  <2>1. d.display \in Displays \cup {None} /\ d.mode \in Desktop!Modes
    BY <1>8, <1>9 DEF Desks
  <2>2. QED
    BY <1>8, <1>10, <2>1, DeskNow, Transited
<1>14. "suspended" \in DeskStates
  BY DEF DeskStates
<1>15. Turned(w, x)
  <2>1. CASE x = w
    BY <1>8, <2>1, SameTurned
  <2>2. CASE x = Desktop!Suspend(w, "suspended")
    BY <1>8, <1>14, <2>2, Suspended, GivesUpTurned
  <2>3. CASE x = r
    BY <1>13, <2>3
  <2>4. CASE x = Desktop!Suspend(r, "suspended")
    <3>1. Base(r)
      BY <1>13 DEF Turned, World
    <3>2. Turned(r, x)
      BY <1>14, <2>4, <3>1, Suspended, GivesUpTurned
    <3>3. QED
      BY <1>13, <3>2, TurnedOn
  <2>5. CASE x = Desktop!Refused(w)
    BY <1>8, <2>5, DeskNow, RefusedGivesUp, GivesUpTurned
  <2>6. QED
    BY <1>11, <2>1, <2>2, <2>3, <2>4, <2>5
<1>16. World(x) /\ Desktop!Whole' = x /\ desk' = x.desk
  BY <1>12, <1>15, BecomesWhole DEF Turned, Desktop!Becomes
<1>17. x.desk.conn = "none" \/ x.desk.identity = desk.identity
  BY <1>5, <1>8, <1>15 DEF Turned, Stays
<1>18. \/ Desktop!Observed(x.desk) = "ready" \/ x.desk.conn = "none"
       \/ x.desk.conn = "connected" /\ x.desk.state # "active"
  <2>1. CASE Desktop!State(v.desk) = "ready"
    <3>1. o = "ready"
      BY <1>5, <2>1, StateOf
    <3>2. CASE x.desk.identity = desk.identity
      <4>1. Desktop!Observed(x.desk) = Desktop!Observed(desk)
        BY <3>2 DEF Desktop!Observed
      <4>2. QED
        BY <1>1, <3>1, <4>1
    <3>3. QED
      BY <1>17, <3>2
  <2>2. CASE Desktop!State(v.desk) # "ready" /\ w.desk.conn # "none"
    <3>1. w.desk.conn = "connected" /\ w.desk.state # "active"
      BY <1>5, <1>7, <2>2, StateOf
    <3>2. w.desk.seen = v.desk.seen
      BY <1>8, <2>2 DEF Stays
    <3>3. Desktop!State(w.desk) = Desktop!State(v.desk)
      BY <3>2 DEF Desktop!State
    <3>4. x = w
      BY <1>9, <1>11, <2>2, <3>3
    <3>5. QED
      BY <3>1, <3>4
  <2>3. CASE w.desk.conn = "none"
    BY <1>15, <2>3 DEF Turned
  <2>4. QED
    BY <2>1, <2>2, <2>3
<1>19. did'.what = "observed"
  BY <1>12 DEF Desktop!Plain
<1>20. (Desktop!Observed(desk))' = Desktop!Observed(x.desk)
  BY <1>12, <1>16 DEF Desktop!Observed
<1>21. World(Desktop!Whole)'
  BY <1>16
<1>22. QED
  BY <1>12, <1>16, <1>18, <1>19, <1>20, <1>21 DEF DeskInv

\* A session of the portal that is closed is a base to disconnect from.
LEMMA ClosedBase ==
  ASSUME NEW w, Base(w), w.desk.kind = "wayland", NEW x, x = Desktop!ClosePortal(w)
  PROVE  Base(x)
<1>1. w \in Worlds /\ Connection(w.desk) /\ Reading(w) /\ Liftable(w)
  BY DEF Base
<1>2. /\ x \in Worlds /\ x.down = {}
      /\ x.desk.portal = "closed" /\ x.desk.conn = w.desk.conn /\ x.desk.kind = w.desk.kind
      /\ x.desk.sent = w.desk.sent /\ x.desk.painted = w.desk.painted
      /\ x.desk.state = w.desk.state /\ x.desk.mode = w.desk.mode
      /\ x.desk.media = w.desk.media /\ x.desk.held = w.desk.held /\ x.desk.enabled = w.desk.enabled
      /\ \A r \in Reads : ~x.reads[r].epoch /\ x.reads[r].why = "none"
  BY <1>1, ClosedPortal
<1>3. Desktop!InControl(x.desk) <=> Desktop!InControl(w.desk)
  BY <1>2 DEF Desktop!InControl
<1>4. Connection(x.desk)
  BY <1>1, <1>2, <1>3 DEF Connection
<1>5. Reading(x) /\ Liftable(x)
  BY <1>1, <1>2 DEF Reading, Liftable
<1>6. QED
  BY <1>2, <1>4, <1>5 DEF Base

\* The portal answers the start.
LEMMA PortalAnswersStep ==
  ASSUME DeskInv, NEW streams \in Desktop!Streams, NEW devices \in BOOLEAN, NEW starts \in BOOLEAN,
         NEW mode \in Desktop!Modes, Desktop!PortalAnswers(streams, devices, mode, starts)
  PROVE  DeskInv'
<1>1. PICK w : w = [Desktop!Whole EXCEPT !.desk.portal = "open", !.desk.devices = devices, !.desk.displays = streams]
  OBVIOUS
<1>2. desk.portal = "starting" /\ (Desktop!Handled(Desktop!Finish(w, mode, starts))
                                   \/ Desktop!Handled(Desktop!Disconnect(Desktop!Whole)))
  BY <1>1 DEF Desktop!PortalAnswers
<1>3. desk.kind = "wayland" /\ desk.sent = 0 /\ desk.media \notin {"running", "invalid"}
      /\ desk.held = {} /\ down = {}
  <2>1. desk.kind = "wayland" /\ desk.sent = 0 /\ desk.media \notin {"running", "invalid"}
    BY <1>2, DeskNow DEF Connection, Commanded
  <2>2. desk.painted = 0
    BY <2>1, DeskNow DEF Connection, Desks
  <2>3. ~Desktop!InControl(desk)
    BY <2>2 DEF Desktop!InControl
  <2>4. desk.held = {}
    BY <2>3, DeskNow DEF Commanded
  <2>5. QED
    BY <2>1, <2>4, DeskNow DEF Liftable
<1>4. PICK d : d = [desk EXCEPT !.portal = "open", !.devices = devices, !.displays = streams]
  OBVIOUS
<1>5. streams \in SUBSET Displays
  BY DEF Desktop!Streams
<1>6. d \in Desks
  BY <1>4, <1>5, DeskNow DEF Desks
<1>7. /\ d.media = desk.media /\ d.enabled = desk.enabled /\ d.held = {} /\ d.conn = desk.conn
      /\ d.kind = desk.kind /\ d.portal = "open"
      /\ d.sent = desk.sent /\ d.painted = desk.painted /\ d.state = desk.state /\ d.mode = desk.mode
  BY <1>3, <1>4, DeskNow DEF Desks
<1>8. w = [Desktop!Whole EXCEPT !.desk = d]
  BY <1>1, <1>4, DeskNow DEF Worlds
<1>9. w \in Worlds /\ w.desk = d /\ w.down = {} /\ w.reads = reads
  BY <1>3, <1>6, <1>8, DeskNow DEF Worlds
<1>10. Desktop!InControl(d) <=> Desktop!InControl(desk)
  BY <1>7 DEF Desktop!InControl
<1>11. Connection(d)
  BY <1>3, <1>7, <1>10, DeskNow DEF Connection
<1>r. \A r \in Reads : /\ reads[r].epoch => reads[r].generation /\ desk.conn # "none"
                       /\ reads[r].why = "get" /\ reads[r].generation => Desktop!InControl(desk)
  BY DeskNow DEF Reading
<1>12. Reading(w) /\ Liftable(w)
  <2>1. Reading(w)
    BY <1>7, <1>9, <1>10, <1>r DEF Reading
  <2>2. Liftable(w)
    BY <1>7, <1>9, FS_EmptySet DEF Liftable
  <2>3. QED
    BY <2>1, <2>2
<1>13. World(w) /\ w.desk.kind # "none"
  BY <1>3, <1>7, <1>9, <1>11, <1>12 DEF World, Base, Commanded
<1>14. CASE Desktop!Handled(Desktop!Finish(w, mode, starts))
  BY <1>13, <1>14, DeskNow, Finished, HandledStep
<1>15. CASE Desktop!Handled(Desktop!Disconnect(Desktop!Whole))
  <2>1. World(Desktop!Disconnect(Desktop!Whole))
    BY DeskNow, Disconnected, StillWorld DEF GivesUp
  <2>2. QED
    BY <1>15, <2>1, HandledStep
<1>16. QED
  BY <1>2, <1>14, <1>15

\* The session is closed from outside.
LEMMA SessionClosedStep == ASSUME DeskInv, Desktop!SessionClosed PROVE DeskInv'
<1>1. PICK w : w = Desktop!ClosePortal(Desktop!Whole)
  OBVIOUS
<1>2. PICK x : x = Desktop!PermissionChanged(w)
  OBVIOUS
<1>3. desk.portal \in {"starting", "open"} /\ Desktop!Handled(x)
  BY <1>1, <1>2 DEF Desktop!SessionClosed
<1>4. Base(w)
  BY <1>1, <1>3, DeskNow, ClosedBase DEF Connection
<1>5. "suspended" \in DeskStates
  BY DEF DeskStates
<1>6. World(x)
  <2>1. CASE x = Desktop!Disconnect(w)
    BY <1>4, <2>1, Disconnected, StillWorld DEF GivesUp
  <2>2. CASE x = Desktop!Suspend(w, "suspended")
    BY <1>4, <1>5, <2>2, Suspended, StillWorld DEF GivesUp
  <2>3. QED
    BY <1>2, <2>1, <2>2 DEF Desktop!PermissionChanged
<1>7. QED
  BY <1>3, <1>6, HandledStep

\* The portal has taken an event, or has not.
LEMMA InputCompletedStep ==
  ASSUME DeskInv, NEW ok \in BOOLEAN, Desktop!InputCompleted(ok)
  PROVE  DeskInv'
<1>1. desk.portal = "open" /\ desk.pending # 0
  BY DEF Desktop!InputCompleted
<1>2. PICK m : m = desk.pending - 1
  OBVIOUS
<1>3. m \in 0..MaxPending
  BY <1>1, <1>2, DeskNow, DesktopAssumption DEF Desks
<1>4. PICK d : d = [desk EXCEPT !.pending = m]
  OBVIOUS
<1>5. PICK w : w = [Desktop!Whole EXCEPT !.desk = d]
  OBVIOUS
<1>6. w = [Desktop!Whole EXCEPT !.desk.pending = @ - 1]
  BY <1>2, <1>4, <1>5, DeskNow DEF Worlds
<1>7. Desktop!Handled(w) \/ Desktop!Handled(Desktop!Disconnect(Desktop!ClosePortal(w)))
  BY <1>6 DEF Desktop!InputCompleted
<1>8. d \in Desks
  BY <1>3, <1>4, DeskNow DEF Desks
<1>9. Alike(desk, d) /\ d.media = desk.media
  BY <1>4, <1>8, DeskNow DEF Desks, Alike
<1>10. World(w) /\ w.desk = d
  BY <1>5, <1>9, DeskNow, AlikeBecomes
<1>11. CASE Desktop!Handled(w)
  BY <1>10, <1>11, HandledStep
<1>12. CASE Desktop!Handled(Desktop!Disconnect(Desktop!ClosePortal(w)))
  <2>1. PICK c : c = Desktop!ClosePortal(w)
    OBVIOUS
  <2>2. w.desk.kind = "wayland" /\ Base(w)
    BY <1>1, <1>9, <1>10, DeskNow DEF Connection, Alike, World
  <2>3. Base(c)
    BY <2>1, <2>2, ClosedBase
  <2>4. World(Desktop!Disconnect(c))
    BY <2>3, Disconnected, StillWorld DEF GivesUp
  <2>5. QED
    BY <1>12, <2>1, <2>4, HandledStep
<1>13. QED
  BY <1>7, <1>11, <1>12

\* A frame is sent, a target is lost, and the media fails.
LEMMA MediaStep ==
  ASSUME DeskInv, Desktop!Frame \/ Desktop!TargetInvalid \/ Desktop!MediaFailed
  PROVE  DeskInv'
<1>1. CASE Desktop!Frame
  <2>1. PICK n : n = desk.sent + 1
    OBVIOUS
  <2>2. desk.media = "running" /\ n \in 0..MaxFrames /\ desk.sent < n
    BY <1>1, <2>1, DeskNow, DesktopAssumption DEF Desktop!Frame, Desks
  <2>3. PICK d : d = [desk EXCEPT !.sent = n]
    OBVIOUS
  <2>4. PICK w : w = [Desktop!Whole EXCEPT !.desk = d]
    OBVIOUS
  <2>5. Desktop!Handled(w)
    BY <1>1, <2>1, <2>3, <2>4, DeskNow DEF Desktop!Frame, Worlds
  <2>6. d \in Desks
    BY <2>2, <2>3, DeskNow DEF Desks
  <2>7. /\ d.media = desk.media /\ d.enabled = desk.enabled /\ d.held = desk.held /\ d.conn = desk.conn
        /\ d.kind = desk.kind /\ d.portal = desk.portal
        /\ d.sent = n /\ d.painted = desk.painted /\ d.state = desk.state /\ d.mode = desk.mode
    BY <2>3, DeskNow DEF Desks
  <2>8. Desktop!InControl(d) <=> Desktop!InControl(desk)
    BY <2>7 DEF Desktop!InControl
  <2>9. desk.conn = "connected" /\ desk.painted <= n
    BY <2>2, DeskNow, DesktopAssumption DEF Connection, Desks
  <2>10. Connection(d) /\ Commanded(d)
    BY <2>2, <2>7, <2>8, <2>9, DeskNow DEF Connection, Commanded
  <2>11. World(w)
    BY <2>4, <2>6, <2>7, <2>8, <2>10, DeskNow, DeskBecomes
  <2>12. QED
    BY <2>5, <2>11, HandledStep
<1>2. CASE Desktop!TargetInvalid
  <2>1. PICK d : d = [desk EXCEPT !.media = "invalid"]
    OBVIOUS
  <2>2. PICK w : w = [Desktop!Whole EXCEPT !.desk = d]
    OBVIOUS
  <2>3. desk.media = "running" /\ Desktop!Handled(w)
    BY <1>2, <2>1, <2>2, DeskNow DEF Desktop!TargetInvalid, Worlds
  <2>4. d \in Desks
    BY <2>1, DeskNow DEF Desks
  <2>5. /\ d.media = "invalid" /\ d.enabled = desk.enabled /\ d.held = desk.held /\ d.conn = desk.conn
        /\ d.kind = desk.kind /\ d.portal = desk.portal
        /\ d.sent = desk.sent /\ d.painted = desk.painted /\ d.state = desk.state /\ d.mode = desk.mode
    BY <2>1, DeskNow DEF Desks
  <2>6. Desktop!InControl(d) <=> Desktop!InControl(desk)
    BY <2>5 DEF Desktop!InControl
  <2>7. Connection(d) /\ Commanded(d)
    BY <2>3, <2>5, <2>6, DeskNow DEF Connection, Commanded
  <2>8. World(w)
    BY <2>2, <2>4, <2>5, <2>6, <2>7, DeskNow, DeskBecomes
  <2>9. QED
    BY <2>3, <2>8, HandledStep
<1>3. CASE Desktop!MediaFailed
  <2>1. World(Desktop!Disconnect(Desktop!Whole))
    BY DeskNow, Disconnected, StillWorld DEF GivesUp
  <2>2. World(Desktop!Suspend(Desktop!Whole, "suspended"))
    <3>1. "suspended" \in DeskStates
      BY DEF DeskStates
    <3>2. QED
      BY <3>1, DeskNow, Suspended, StillWorld DEF GivesUp
  <2>3. QED
    BY <1>3, <2>1, <2>2, HandledStep DEF Desktop!MediaFailed
<1>4. QED
  BY <1>1, <1>2, <1>3

\* The login that is current is bound, and its state is seen.
LEMMA IdentifiedAlike ==
  ASSUME os \in Desktop!Login \cup {None}, NEW d \in Desks, d.identity = None => os # None,
         NEW e, e = Desktop!Identified(d)
  PROVE  Alike(d, e) /\ e.media = d.media
<1>1. PICK c : c = IF d.identity = None THEN [d EXCEPT !.identity = os.login] ELSE d
  OBVIOUS
<1>2. PICK o : o = Desktop!Observed(c)
  OBVIOUS
<1>3. e = [c EXCEPT !.seen = o]
  BY <1>1, <1>2 DEF Desktop!Identified, Desktop!Refreshed
<1>4. o \in {"nothing", "inactive", "another", "locked", "ready"}
  BY <1>2, SeenOf
<1>5. c \in Desks
  <2>1. CASE d.identity = None
    <3>1. os.login \in Logins
      BY <2>1 DEF Desktop!Login
    <3>2. QED
      BY <1>1, <2>1, <3>1 DEF Desks
  <2>2. CASE d.identity # None
    BY <1>1, <2>2
  <2>3. QED
    BY <2>1, <2>2
<1>6. Alike(d, c) /\ c.media = d.media
  BY <1>1, <1>5 DEF Desks, Alike
<1>7. e \in Desks
  BY <1>3, <1>4, <1>5 DEF Desks
<1>8. Alike(c, e) /\ e.media = c.media
  BY <1>3, <1>5, <1>7 DEF Desks, Alike
<1>9. QED
  BY <1>6, <1>8 DEF Alike

\* session_probe binds the current login and sees its state.
LEMMA ProbeStep == ASSUME DeskInv, Desktop!Probe PROVE DeskInv'
<1>1. PICK d : d = Desktop!Identified(desk)
  OBVIOUS
<1>2. PICK w : w = [Desktop!Whole EXCEPT !.desk = d]
  OBVIOUS
<1>3. Desktop!Handled(w) /\ (desk.identity = None => os # None)
  BY <1>1, <1>2 DEF Desktop!Probe
<1>4. Alike(desk, d) /\ d.media = desk.media
  BY <1>1, <1>3, DeskNow, IdentifiedAlike
<1>5. World(w)
  BY <1>2, <1>4, DeskNow, AlikeBecomes
<1>6. QED
  BY <1>3, <1>5, HandledStep

\* What is not admitted is refused.
LEMMA RefusedStep ==
  ASSUME DeskInv, NEW w, World(w), Desktop!Handled(Desktop!Refused(w))
  PROVE  DeskInv'
<1>1. World(Desktop!Refused(w))
  BY DeskNow, RefusedGivesUp, StillWorld DEF GivesUp, World
<1>2. QED
  BY <1>1, HandledStep

\* A connection begins.
LEMMA ConnectStep ==
  ASSUME DeskInv, NEW kind \in Kinds, NEW mode \in Desktop!Modes, NEW starts \in BOOLEAN,
         NEW outputs \in Desktop!X11Outputs, Desktop!Connect(kind, mode, starts, outputs)
  PROVE  DeskInv'
<1>1. PICK u : u = [desk EXCEPT !.identity = None, !.seen = "nothing"]
  OBVIOUS
<1>2. PICK wu : wu = [Desktop!Whole EXCEPT !.desk = u]
  OBVIOUS
<1>3. wu = [Desktop!Whole EXCEPT !.desk.identity = None, !.desk.seen = "nothing"]
  BY <1>1, <1>2, DeskNow DEF Worlds
<1>4. u \in Desks
  BY <1>1, DeskNow DEF Desks
<1>5. Alike(desk, u) /\ u.media = desk.media
  BY <1>1, <1>4, DeskNow DEF Desks, Alike
<1>6. World(wu) /\ wu.desk = u
  BY <1>2, <1>5, DeskNow, AlikeBecomes
<1>7. PICK b : b = Desktop!Identified(u)
  OBVIOUS
<1>8. PICK wb : wb = [wu EXCEPT !.desk = b]
  OBVIOUS
<1>9. desk.conn = "none"
  BY DEF Desktop!Connect
<1>10. PICK c : c = [b EXCEPT !.conn = "connecting", !.kind = kind]
  OBVIOUS
<1>11. PICK wc : wc = [wb EXCEPT !.desk.conn = "connecting", !.desk.kind = kind]
  OBVIOUS
<1>12. IF os = None THEN Desktop!Handled(wu)
       ELSE IF ~Desktop!Admits(wb.desk) THEN Desktop!Handled(Desktop!Refused(wb))
       ELSE IF kind = "wayland" THEN Desktop!Handled([wc EXCEPT !.desk.portal = "starting"])
       ELSE Desktop!Handled(Desktop!Finish([wc EXCEPT !.desk.displays = outputs], mode, starts))
  BY <1>3, <1>6, <1>7, <1>8, <1>11 DEF Desktop!Connect
<1>13. CASE os = None
  BY <1>6, <1>12, <1>13, HandledStep
<1>14. CASE os # None
  <2>1. Alike(u, b) /\ b.media = u.media /\ b \in Desks
    BY <1>4, <1>7, <1>14, DeskNow, IdentifiedAlike DEF Alike
  <2>2. World(wb) /\ wb.desk = b
    BY <1>6, <1>8, <2>1, AlikeBecomes
  <2>3. CASE ~Desktop!Admits(wb.desk)
    BY <1>12, <1>14, <2>2, <2>3, RefusedStep
  <2>4. CASE Desktop!Admits(wb.desk)
    <3>1. wb \in Worlds /\ Connection(b) /\ Reading(wb) /\ Liftable(wb) /\ Commanded(b)
      BY <2>2 DEF World, Base
    <3>2. b.conn = "none" /\ kind \in {"wayland", "x11"}
      BY <1>5, <1>9, <2>1, DesktopAssumption DEF Alike
    <3>3. b.sent = 0 /\ b.painted = 0 /\ b.portal = "none" /\ ~b.enabled
          /\ b.media \notin {"running", "invalid"} /\ ~Desktop!InControl(b)
      <4>1. b.sent = 0 /\ b.portal = "none" /\ b.media \notin {"running", "invalid"}
        BY <3>1, <3>2 DEF Connection
      <4>2. b.painted = 0
        BY <2>1, <3>1, <4>1, DesktopAssumption DEF Connection, Desks
      <4>3. QED
        BY <3>1, <4>1, <4>2 DEF Connection, Desktop!InControl
    <3>4. b.held = {} /\ wb.down = {}
      BY <2>2, <3>1, <3>3 DEF Commanded, Liftable
    <3>5. \A r \in Reads : ~wb.reads[r].epoch
                           /\ (wb.reads[r].why = "get" => ~wb.reads[r].generation)
      BY <2>2, <3>1, <3>2, <3>3 DEF Reading
    <3>6. ASSUME NEW d \in Desks, d.conn = "connecting", d.kind = kind, d.held = {}, d.sent = 0, d.painted = 0,
                 d.portal = "none" \/ (d.portal = "starting" /\ kind = "wayland"), ~d.enabled,
                 d.media = b.media, NEW y, y = [wb EXCEPT !.desk = d]
          PROVE  World(y) /\ y.desk.kind # "none"
      <4>1. y \in Worlds /\ y.desk = d /\ y.down = {} /\ y.reads = wb.reads
        BY <3>1, <3>4, <3>6 DEF Worlds
      <4>2. Connection(d) /\ Commanded(d)
        BY <3>2, <3>3, <3>6 DEF Connection, Commanded
      <4>3. Reading(y) /\ Liftable(y)
        BY <3>5, <3>6, <4>1, FS_EmptySet DEF Reading, Liftable
      <4>4. QED
        BY <3>2, <3>6, <4>1, <4>2, <4>3 DEF World, Base
    <3>7. c \in Desks
      BY <1>10, <2>1 DEF Desks
    <3>8. /\ c.conn = "connecting" /\ c.kind = kind /\ c.held = {} /\ c.sent = 0 /\ c.painted = 0
          /\ c.portal = "none" /\ ~c.enabled /\ c.media = b.media
      BY <1>10, <2>1, <3>3, <3>4 DEF Desks
    <3>9. wc = [wb EXCEPT !.desk = c] /\ wc \in Worlds /\ wc.desk = c
      BY <1>10, <1>11, <2>2, <3>1, <3>7 DEF Worlds
    <3>10. CASE kind = "wayland"
      <4>1. PICK d : d = [c EXCEPT !.portal = "starting"]
        OBVIOUS
      <4>2. d \in Desks
        BY <3>7, <4>1 DEF Desks
      <4>3. /\ d.conn = "connecting" /\ d.kind = kind /\ d.held = {} /\ d.sent = 0 /\ d.painted = 0
            /\ d.portal = "starting" /\ ~d.enabled /\ d.media = b.media
        BY <3>7, <3>8, <4>1 DEF Desks
      <4>4. PICK y : y = [wb EXCEPT !.desk = d]
        OBVIOUS
      <4>5. y = [wc EXCEPT !.desk.portal = "starting"]
        BY <3>1, <3>9, <4>1, <4>4 DEF Worlds
      <4>6. World(y)
        BY <3>6, <3>10, <4>2, <4>3, <4>4
      <4>7. Desktop!Handled(y)
        BY <1>12, <1>14, <2>4, <3>10, <4>5
      <4>8. QED
        BY <4>6, <4>7, HandledStep
    <3>11. CASE kind # "wayland"
      <4>1. PICK d : d = [c EXCEPT !.displays = outputs]
        OBVIOUS
      <4>2. outputs \in SUBSET Displays
        BY DeskNow DEF Desktop!X11Outputs
      <4>3. d \in Desks
        BY <3>7, <4>1, <4>2 DEF Desks
      <4>4. /\ d.conn = "connecting" /\ d.kind = kind /\ d.held = {} /\ d.sent = 0 /\ d.painted = 0
            /\ d.portal = "none" /\ ~d.enabled /\ d.media = b.media
        BY <3>7, <3>8, <4>1 DEF Desks
      <4>5. PICK y : y = [wb EXCEPT !.desk = d]
        OBVIOUS
      <4>6. y = [wc EXCEPT !.desk.displays = outputs]
        BY <3>1, <3>9, <4>1, <4>5 DEF Worlds
      <4>7. World(y) /\ y.desk.kind # "none"
        BY <3>6, <4>3, <4>4, <4>5
      <4>8. Desktop!Handled(Desktop!Finish(y, mode, starts))
        BY <1>12, <1>14, <2>4, <3>11, <4>6
      <4>9. World(Desktop!Finish(y, mode, starts))
        BY <4>7, DeskNow, Finished
      <4>10. QED
        BY <4>8, <4>9, HandledStep
    <3>12. QED
      BY <3>10, <3>11
  <2>5. QED
    BY <2>3, <2>4
<1>15. QED
  BY <1>13, <1>14

\* set_mode, configure and select_display
LEMMA ReconfigureStep ==
  ASSUME DeskInv, NEW display \in Displays, NEW mode \in Desktop!Modes, NEW starts \in BOOLEAN,
         Desktop!Reconfigure(display, mode, starts)
  PROVE  DeskInv'
<1>1. PICK x : x = Desktop!Transition(Desktop!Whole, display, mode, starts)
  OBVIOUS
<1>2. World(x)
  BY <1>1, DeskNow, Transited DEF Turned
<1>3. Desktop!Handled(x)
  BY <1>1 DEF Desktop!Reconfigure
<1>4. QED
  BY <1>2, <1>3, HandledStep

\* recover_decoder: the capture goes on in a generation that nothing of is painted.
LEMMA KeyframeStep == ASSUME DeskInv, Desktop!Keyframe PROVE DeskInv'
<1>1. CASE ~Desktop!Admits(desk)
  <2>1. Desktop!Handled(Desktop!Refused(Desktop!Whole))
    BY <1>1 DEF Desktop!Keyframe
  <2>2. QED
    BY <2>1, DeskNow, RefusedStep
<1>2. CASE Desktop!Admits(desk)
  <2>1. PICK r : r = Desktop!ReleaseInput(Desktop!Whole)
    OBVIOUS
  <2>2. PICK x : x = Desktop!NewGeneration(r, "active", r.desk.display, r.desk.mode)
    OBVIOUS
  <2>3. Desktop!Handled(x)
    BY <1>2, <2>1, <2>2 DEF Desktop!Keyframe
  <2>4. PICK q : q = Desktop!Release(Desktop!Whole)
    OBVIOUS
  <2>5. LetsGo(Desktop!Whole, q)
    BY <2>4, DeskNow, LetGo
  <2>6. GivesUp(Desktop!Whole, r)
    BY <2>1, DeskNow, GivenUp
  <2>7. r.desk.media = q.desk.media /\ r.desk.conn = q.desk.conn
    <3>1. CASE q.desk.kind = "none"
      BY <2>1, <2>4, <3>1 DEF Desktop!ReleaseInput
    <3>2. CASE q.desk.kind # "none"
      <4>1. PICK d : d = [q.desk EXCEPT !.enabled = FALSE]
        OBVIOUS
      <4>2. PICK k : k = [e \in Reads |-> [q.reads[e] EXCEPT !.epoch = FALSE]]
        OBVIOUS
      <4>3. r = [q EXCEPT !.desk = d, !.reads = k]
        BY <2>1, <2>4, <3>2, <4>1, <4>2 DEF Desktop!ReleaseInput
      <4>4. q \in Worlds /\ q.desk \in Desks
        BY <2>5 DEF LetsGo, Base, Worlds
      <4>5. r.desk = d
        BY <4>3, <4>4 DEF Worlds
      <4>6. QED
        BY <4>1, <4>4, <4>5 DEF Desks
    <3>3. QED
      BY <3>1, <3>2
  <2>8. r.desk.display \in Displays \cup {None} /\ r.desk.mode \in Desktop!Modes /\ "active" \in DeskStates
    BY <2>6 DEF GivesUp, Released, Base, Worlds, Desks, DeskStates
  <2>9. Released(x) /\ Stays(r, x) /\ x.desk.sent = 0 /\ x.desk.media = r.desk.media
        /\ (r.desk.conn = "none" => x.desk.conn = "none")
    <3>1. Released(r)
      BY <2>6 DEF GivesUp
    <3>2. QED
      BY <2>2, <2>8, <3>1, GenerationStill
  <2>10. Connection(x.desk)
    BY <2>9 DEF Released, Base
  <2>11. CASE x.desk.conn = "none"
    BY <2>9, <2>10, <2>11, StillWorld, <2>3, HandledStep DEF Connection
  <2>12. CASE x.desk.conn # "none"
    <3>1. /\ r.desk.conn # "none" /\ q.desk.conn # "none" /\ x.desk.media = desk.media
          /\ x.desk.kind = desk.kind /\ x.desk.portal = desk.portal
      BY <2>5, <2>6, <2>7, <2>9, <2>12, DeskNow DEF LetsGo, GivesUp, Stays
    <3>2. Commanded(x.desk)
      BY <2>9, <3>1, DeskNow DEF Commanded, Released, Still
    <3>3. World(x)
      BY <2>9, <3>2 DEF World, Released
    <3>4. QED
      BY <2>3, <3>3, HandledStep
  <2>13. QED
    BY <2>11, <2>12
<1>3. QED
  BY <1>1, <1>2

\* A frame is painted.
LEMMA FrameAckStep ==
  ASSUME DeskInv, NEW frame \in 1..MaxFrames, Desktop!FrameAck(frame)
  PROVE  DeskInv'
<1>1. frame \in 1..desk.sent /\ frame >= desk.painted /\ desk.state = "active"
  BY DEF Desktop!FrameAck
<1>2. PICK d : d = [desk EXCEPT !.painted = frame]
  OBVIOUS
<1>3. PICK w : w = [Desktop!Whole EXCEPT !.desk = d]
  OBVIOUS
<1>4. w = [Desktop!Whole EXCEPT !.desk.painted = frame]
  BY <1>2, <1>3, DeskNow DEF Worlds
<1>5. Desktop!Handled(Desktop!Enable(w))
  BY <1>4 DEF Desktop!FrameAck
<1>6. frame \in 0..MaxFrames /\ frame <= desk.sent /\ frame # 0
  BY <1>1, DeskNow, DesktopAssumption DEF Desks
<1>7. d \in Desks
  BY <1>2, <1>6, DeskNow DEF Desks
<1>8. /\ d.media = desk.media /\ d.enabled = desk.enabled /\ d.held = desk.held /\ d.conn = desk.conn
      /\ d.kind = desk.kind /\ d.portal = desk.portal
      /\ d.sent = desk.sent /\ d.painted = frame /\ d.state = desk.state /\ d.mode = desk.mode
  BY <1>2, DeskNow DEF Desks
<1>9. Desktop!InControl(desk) => Desktop!InControl(d)
  BY <1>6, <1>8 DEF Desktop!InControl
<1>10. Connection(d) /\ Commanded(d)
  BY <1>6, <1>8, <1>9, DeskNow DEF Connection, Commanded
<1>11. World(w)
  BY <1>3, <1>7, <1>8, <1>9, <1>10, DeskNow, DeskBecomes
<1>12. World(Desktop!Enable(w))
  BY <1>11, Enabled
<1>13. QED
  BY <1>5, <1>12, HandledStep

\* release_input, the command
LEMMA ReleaseHeldStep == ASSUME DeskInv, Desktop!ReleaseHeld PROVE DeskInv'
<1>1. PICK x : x = Desktop!Release(Desktop!Whole)
  OBVIOUS
<1>2. LetsGo(Desktop!Whole, x)
  BY <1>1, DeskNow, LetGo
<1>3. Base(x) /\ Connection(x.desk) /\ x.desk.held = {}
  BY <1>2 DEF LetsGo, Base
<1>4. Commanded(x.desk)
  <2>1. CASE x.desk.conn = "none"
    BY <1>3, <2>1 DEF Commanded, Connection
  <2>2. CASE x.desk.conn # "none"
    BY <1>2, <1>3, <2>2, DeskNow DEF LetsGo, Stays, Commanded
  <2>3. QED
    BY <2>1, <2>2
<1>5. World(x)
  BY <1>3, <1>4 DEF World
<1>6. QED
  BY <1>1, <1>5, HandledStep DEF Desktop!ReleaseHeld

\* Clipboard synchronization is switched.
LEMMA SetSyncStep ==
  ASSUME DeskInv, NEW enabled \in BOOLEAN, Desktop!SetSync(enabled)
  PROVE  DeskInv'
<1>1. PICK d : d = [desk EXCEPT !.sync = enabled]
  OBVIOUS
<1>2. PICK w : w = [Desktop!Whole EXCEPT !.desk = d]
  OBVIOUS
<1>3. w = [Desktop!Whole EXCEPT !.desk.sync = enabled]
  BY <1>1, <1>2, DeskNow DEF Worlds
<1>4. Desktop!Handled(Desktop!Refused(Desktop!Whole)) \/ Desktop!Handled(Desktop!Enable(w))
  BY <1>3 DEF Desktop!SetSync
<1>5. d \in Desks
  BY <1>1, DeskNow DEF Desks
<1>6. Alike(desk, d) /\ d.media = desk.media
  BY <1>1, <1>5, DeskNow DEF Desks, Alike
<1>7. World(w)
  BY <1>2, <1>6, DeskNow, AlikeBecomes
<1>8. World(Desktop!Enable(w))
  BY <1>7, Enabled
<1>9. QED
  BY <1>4, <1>8, DeskNow, RefusedStep, HandledStep

\* An event is submitted of a connection that is in control.
LEMMA StrokesStep ==
  ASSUME DeskInv, NEW events \in {1, 2, 4}, Desktop!Strokes(events)
  PROVE  DeskInv'
<1>1. PICK x : x = Desktop!Submit(Desktop!Whole, events)
  OBVIOUS
<1>2. Desktop!InControl(desk) /\ Desktop!Handled(x)
  <2>1. Desktop!Admitted /\ Desktop!Handled(Desktop!Submit(Desktop!Whole, events))
    BY DEF Desktop!Strokes
  <2>2. QED
    BY <1>1, <2>1 DEF Desktop!Admitted
<1>3. desk.kind # "none"
  BY <1>2, DeskNow DEF Desktop!InControl, Connection, Desks
<1>4. World(x)
  BY <1>1, <1>3, DeskNow, Submitted
<1>5. QED
  BY <1>2, <1>4, HandledStep

\* A key is pressed, in control.
LEMMA PressStep ==
  ASSUME DeskInv, NEW key \in Keys, NEW events \in 1..2, Desktop!Press(key, events)
  PROVE  DeskInv'
<1>1. Desktop!InControl(desk)
  BY DEF Desktop!Press, Desktop!Admitted
<1>2. PICK h : h = desk.held \cup {key}
  OBVIOUS
<1>3. PICK d : d = [desk EXCEPT !.held = h]
  OBVIOUS
<1>4. PICK v : v = [Desktop!Whole EXCEPT !.desk = d]
  OBVIOUS
<1>5. v = [Desktop!Whole EXCEPT !.desk.held = @ \cup {key}]
  BY <1>2, <1>3, <1>4, DeskNow DEF Worlds
<1>6. PICK w : w = Desktop!Submit(v, events)
  OBVIOUS
<1>7. Desktop!Handled(IF w.desk.kind = "none" THEN w ELSE [w EXCEPT !.down = @ \cup {key}])
  BY <1>5, <1>6 DEF Desktop!Press
<1>8. h \in SUBSET Keys /\ IsFiniteSet(h) /\ down \subseteq h
  <2>1. desk.held \in SUBSET Keys /\ IsFiniteSet(desk.held) /\ down \subseteq desk.held
    BY DeskNow DEF Desks, Liftable
  <2>2. QED
    BY <1>2, <2>1, FS_AddElement
<1>9. d \in Desks
  BY <1>3, <1>8, DeskNow DEF Desks
<1>10. /\ d.media = desk.media /\ d.enabled = desk.enabled /\ d.held = h /\ d.conn = desk.conn
       /\ d.kind = desk.kind /\ d.portal = desk.portal
       /\ d.sent = desk.sent /\ d.painted = desk.painted /\ d.state = desk.state /\ d.mode = desk.mode
  BY <1>3, DeskNow DEF Desks
<1>11. Desktop!InControl(d)
  BY <1>1, <1>10 DEF Desktop!InControl
<1>12. Connection(d) /\ Commanded(d)
  BY <1>1, <1>10, <1>11, DeskNow DEF Connection, Commanded
<1>13. v \in Worlds /\ v.desk = d /\ v.down = down /\ v.reads = reads
  BY <1>4, <1>9, DeskNow DEF Worlds
<1>14. Liftable(v)
  BY <1>8, <1>10, <1>13, DeskNow DEF Liftable
<1>15. Reading(v)
  <2>1. \A r \in Reads : reads[r].epoch => reads[r].generation /\ desk.conn # "none"
    BY DeskNow DEF Reading
  <2>2. QED
    BY <1>10, <1>11, <1>13, <2>1 DEF Reading
<1>16. World(v)
  BY <1>12, <1>13, <1>14, <1>15 DEF World, Base
<1>17. desk.kind # "none"
  BY <1>1, DeskNow DEF Desktop!InControl, Connection, Desks
<1>18. /\ World(w)
       /\ w.desk.kind # "none" =>
            /\ w.down = down /\ w.desk.held = h /\ w.desk.kind = desk.kind /\ w.desk.portal = desk.portal
            /\ Desktop!InControl(w.desk)
  <2>1. events \in Nat /\ v.desk.kind # "none"
    BY <1>10, <1>13, <1>17
  <2>2. /\ World(w)
        /\ w.desk.kind # "none" =>
             /\ w.down = v.down /\ w.desk.held = v.desk.held /\ w.desk.kind = v.desk.kind
             /\ w.desk.portal = v.desk.portal
             /\ Desktop!InControl(w.desk) <=> Desktop!InControl(v.desk)
    BY <1>6, <1>16, <2>1, Submitted
  <2>3. QED
    BY <1>10, <1>11, <1>13, <2>2
<1>19. CASE w.desk.kind = "none"
  BY <1>7, <1>18, <1>19, HandledStep
<1>20. CASE w.desk.kind # "none"
  <2>1. PICK x : x = [w EXCEPT !.down = @ \cup {key}]
    OBVIOUS
  <2>2. w \in Worlds /\ Reading(w) /\ Connection(w.desk) /\ Commanded(w.desk)
    BY <1>18 DEF World, Base
  <2>3. x \in Worlds /\ x.desk = w.desk /\ x.reads = w.reads /\ x.down = down \cup {key}
    BY <1>18, <1>20, <2>1, <2>2 DEF Worlds
  <2>4. w.desk.kind = "x11" \/ w.desk.portal = "open"
    <3>1. desk.kind \in {"wayland", "x11"} /\ desk.sent # 0
      <4>0. desk.kind \in {"wayland", "x11"}
        BY <1>17, DeskNow, DesktopAssumption DEF Desks
      <4>1. desk.sent \in Nat /\ desk.painted \in Nat
        BY DeskNow DEF Desks
      <4>2. desk.painted # 0 /\ desk.painted <= desk.sent
        BY <1>1, DeskNow DEF Desktop!InControl, Connection
      <4>3. QED
        BY <4>0, <4>1, <4>2
    <3>2. QED
      BY <1>18, <1>20, <3>1, DeskNow DEF Commanded
  <2>5. Liftable(x)
    BY <1>2, <1>8, <1>18, <1>20, <2>3, <2>4 DEF Liftable
  <2>6. Reading(x)
    BY <2>2, <2>3 DEF Reading
  <2>7. World(x)
    BY <2>2, <2>3, <2>5, <2>6 DEF World, Base
  <2>8. QED
    BY <1>7, <1>20, <2>1, <2>7, HandledStep
<1>21. QED
  BY <1>19, <1>20

\* Who is in control is connected, to a session that is open.
LEMMA ControlOf ==
  ASSUME DeskInv, Desktop!InControl(desk)
  PROVE  desk.conn = "connected" /\ desk.kind # "none" /\ (desk.kind = "wayland" => desk.portal = "open")
<1>1. desk.sent \in Nat /\ desk.painted \in Nat
  BY DeskNow DEF Desks
<1>2. desk.painted # 0 /\ desk.painted <= desk.sent
  BY DeskNow DEF Desktop!InControl, Connection
<1>3. desk.sent # 0
  BY <1>1, <1>2
<1>4. QED
  BY <1>3, DeskNow DEF Connection, Commanded

\* A key is lifted.
LEMMA LiftStep ==
  ASSUME DeskInv, NEW key \in Keys, NEW events \in 1..2, Desktop!Lift(key, events)
  PROVE  DeskInv'
<1>1. Desktop!InControl(desk)
  BY DEF Desktop!Lift, Desktop!Admitted
<1>2. PICK w : w = Desktop!Submit(Desktop!Whole, events)
  OBVIOUS
<1>3. Desktop!Handled(IF w.desk.kind = "none" THEN w
                      ELSE [w EXCEPT !.down = @ \ {key}, !.desk.held = @ \ {key}])
  BY <1>2 DEF Desktop!Lift
<1>4. World(w) /\ (w.desk.kind # "none" => Desktop!InControl(w.desk))
  BY <1>1, <1>2, DeskNow, ControlOf, Submitted
<1>5. CASE w.desk.kind = "none"
  BY <1>3, <1>4, <1>5, HandledStep
<1>6. CASE w.desk.kind # "none"
  <2>1. w \in Worlds /\ w.desk \in Desks /\ Reading(w) /\ Liftable(w) /\ Connection(w.desk) /\ Commanded(w.desk)
    BY <1>4 DEF World, Base, Worlds
  <2>2. PICK h : h = w.desk.held \ {key}
    OBVIOUS
  <2>3. PICK d : d = [w.desk EXCEPT !.held = h]
    OBVIOUS
  <2>4. PICK x : x = [w EXCEPT !.down = @ \ {key}, !.desk.held = @ \ {key}]
    OBVIOUS
  <2>5. x = [w EXCEPT !.down = w.down \ {key}, !.desk = d]
    BY <2>1, <2>2, <2>3, <2>4 DEF Worlds
  <2>6. h \in SUBSET Keys /\ IsFiniteSet(h) /\ w.down \ {key} \subseteq h
    <3>1. w.desk.held \in SUBSET Keys /\ IsFiniteSet(w.desk.held) /\ w.down \subseteq w.desk.held
      BY <2>1 DEF Desks, Liftable
    <3>2. QED
      BY <2>2, <3>1, FS_RemoveElement
  <2>7. d \in Desks
    BY <2>1, <2>3, <2>6 DEF Desks
  <2>8. /\ d.media = w.desk.media /\ d.enabled = w.desk.enabled /\ d.held = h /\ d.conn = w.desk.conn
        /\ d.kind = w.desk.kind /\ d.portal = w.desk.portal /\ d.sent = w.desk.sent
        /\ d.painted = w.desk.painted /\ d.state = w.desk.state /\ d.mode = w.desk.mode
    BY <2>1, <2>3 DEF Desks
  <2>9. Desktop!InControl(d)
    BY <1>4, <1>6, <2>8 DEF Desktop!InControl
  <2>10. Connection(d) /\ Commanded(d)
    BY <2>1, <2>8, <2>9 DEF Connection, Commanded
  <2>11. x \in Worlds /\ x.desk = d /\ x.reads = w.reads /\ x.down = w.down \ {key}
    <3>1. w.down \in SUBSET Keys
      BY <2>1 DEF Worlds
    <3>2. QED
      BY <2>1, <2>5, <2>7, <3>1 DEF Worlds
  <2>12. Reading(x)
    <3>1. Desktop!InControl(w.desk)
      BY <1>4, <1>6
    <3>2. QED
      BY <2>1, <2>8, <2>9, <2>11, <3>1 DEF Reading
  <2>13. Liftable(x)
    BY <2>1, <2>6, <2>8, <2>11 DEF Liftable
  <2>14. World(x)
    BY <2>10, <2>11, <2>12, <2>13 DEF World, Base
  <2>15. QED
    BY <1>3, <1>6, <2>4, <2>14, HandledStep
<1>7. QED
  BY <1>5, <1>6

\* What ends control: a refusal, a failure of the session bus, a lock, a disconnect
LEMMA SuspendStep ==
  ASSUME DeskInv, Desktop!InputRefused \/ Desktop!OsFailed \/ Desktop!Lock \/ Desktop!DisconnectCommand
  PROVE  DeskInv'
<1>1. "suspended" \in DeskStates /\ "locking" \in DeskStates
  BY DEF DeskStates
<1>2. World(Desktop!Suspend(Desktop!Whole, "suspended")) /\ World(Desktop!Suspend(Desktop!Whole, "locking"))
  BY <1>1, DeskNow, Suspended, StillWorld DEF GivesUp
<1>3. World(Desktop!Disconnect(Desktop!Whole))
  BY DeskNow, Disconnected, StillWorld DEF GivesUp
<1>4. CASE Desktop!InputRefused
  BY <1>4, DeskNow, RefusedStep DEF Desktop!InputRefused
<1>5. CASE Desktop!OsFailed
  BY <1>2, <1>5, HandledStep DEF Desktop!OsFailed
<1>6. CASE Desktop!Lock
  BY <1>2, <1>6, HandledStep DEF Desktop!Lock
<1>7. CASE Desktop!DisconnectCommand
  BY <1>3, <1>7, HandledStep DEF Desktop!DisconnectCommand
<1>8. QED
  BY <1>4, <1>5, <1>6, <1>7

\* The helper ends.
LEMMA QuitStep == ASSUME DeskInv, Desktop!Quit PROVE DeskInv'
<1>1. PICK w : w = Desktop!Disconnect(Desktop!Whole)
  OBVIOUS
<1>2. World(w)
  BY <1>1, DeskNow, Disconnected, StillWorld DEF GivesUp
<1>3. w \in Worlds /\ w.desk \in Desks
  BY <1>2 DEF World, Base, Worlds
<1>4. PICK d : d = [w.desk EXCEPT !.alive = FALSE]
  OBVIOUS
<1>5. PICK x : x = [w EXCEPT !.desk = d]
  OBVIOUS
<1>6. x = [w EXCEPT !.desk.alive = FALSE]
  BY <1>3, <1>4, <1>5 DEF Worlds
<1>7. d \in Desks
  BY <1>3, <1>4 DEF Desks
<1>8. Alike(w.desk, d) /\ d.media = w.desk.media
  BY <1>3, <1>4, <1>7 DEF Desks, Alike
<1>9. World(x)
  BY <1>2, <1>5, <1>8, AlikeBecomes
<1>10. Desktop!Becomes(x) /\ UNCHANGED <<os, monitors>> /\ Desktop!Quiet
  BY <1>1, <1>6 DEF Desktop!Quit
<1>11. QED
  BY <1>9, <1>10, QuietStep

\* A read begins in control: of this generation and this epoch.
LEMMA StartReadStep ==
  ASSUME DeskInv, NEW r \in Reads, NEW why \in {"get", "sync"}, Desktop!StartRead(r, why)
  PROVE  DeskInv'
<1>1. Desktop!InControl(desk)
  <2>1. Desktop!Admitted \/ desk.enabled
    BY DEF Desktop!StartRead
  <2>2. QED
    BY <2>1, DeskNow DEF Desktop!Admitted, Connection
<1>2. PICK e : e = [why |-> why, epoch |-> TRUE, generation |-> TRUE]
  OBVIOUS
<1>3. PICK q : q = [reads EXCEPT ![r] = e]
  OBVIOUS
<1>4. PICK w : w = [Desktop!Whole EXCEPT !.reads = q]
  OBVIOUS
<1>5. w = [Desktop!Whole EXCEPT !.reads[r] = [why |-> why, epoch |-> TRUE, generation |-> TRUE]]
  BY <1>2, <1>3, <1>4, DeskNow DEF Worlds
<1>6. Desktop!Handled(w)
  BY <1>5 DEF Desktop!StartRead
<1>7. e \in Readings /\ e.generation
  BY <1>2 DEF Readings
<1>8. q \in [Reads -> Readings] /\ \A k \in Reads : q[k] = reads[k] \/ q[k] = e
  BY <1>3, <1>7, DeskNow
<1>9. w \in Worlds /\ w.desk = desk /\ w.down = down /\ w.reads = q
  BY <1>4, <1>8, DeskNow DEF Worlds
<1>10. desk.conn # "none"
  BY <1>1, ControlOf
<1>11. Reading(w)
  <2>1. \A k \in Reads : reads[k].epoch => reads[k].generation
    BY DeskNow DEF Reading
  <2>2. QED
    BY <1>1, <1>7, <1>8, <1>9, <1>10, <2>1 DEF Reading
<1>12. Liftable(w)
  BY <1>9, DeskNow DEF Liftable
<1>13. World(w)
  BY <1>9, <1>11, <1>12, DeskNow DEF World, Base
<1>14. QED
  BY <1>6, <1>13, HandledStep

\* A read ends: its text is sent in control, if control never changed.
LEMMA FinishReadStep ==
  ASSUME DeskInv, NEW r \in Reads, Desktop!FinishRead(r)
  PROVE  DeskInv'
<1>1. PICK sent : sent = (/\ Desktop!Delivers(reads[r])
                          /\ IF reads[r].why = "get" THEN reads[r].generation
                             ELSE desk.sync /\ Desktop!InControl(desk))
  OBVIOUS
<1>2. did' = IF sent THEN [what |-> "text", unbroken |-> reads[r].generation, control |-> Desktop!InControl(desk)]
             ELSE Desktop!Plain
  BY <1>1 DEF Desktop!FinishRead
<1>3. reads[r].why # "none" /\ reads[r] \in Readings
  BY DeskNow DEF Desktop!FinishRead
<1>4. ASSUME sent PROVE reads[r].generation /\ Desktop!InControl(desk)
  <2>1. CASE reads[r].why = "get"
    BY <1>1, <1>4, <2>1, DeskNow DEF Reading
  <2>2. CASE reads[r].why = "sync"
    <3>1. Desktop!Delivers(reads[r]) /\ Desktop!InControl(desk)
      BY <1>1, <1>4, <2>2
    <3>2. reads[r].epoch
      BY <2>2, <3>1 DEF Desktop!Delivers
    <3>3. QED
      BY <3>1, <3>2, DeskNow DEF Reading
  <2>3. QED
    BY <1>3, <2>1, <2>2 DEF Readings
<1>5. did'.what # "observed" /\ (did'.what = "text" => did'.unbroken /\ did'.control)
  <2>1. CASE sent
    BY <1>2, <1>4, <2>1
  <2>2. CASE ~sent
    BY <1>2, <2>2 DEF Desktop!Plain
  <2>3. QED
    BY <2>1, <2>2
<1>6. PICK q : q = [reads EXCEPT ![r] = Desktop!NoRead]
  OBVIOUS
<1>7. reads' = q /\ UNCHANGED <<os, monitors, desk, down>>
  BY <1>6 DEF Desktop!FinishRead
<1>8. /\ Desktop!NoRead \in Readings /\ ~Desktop!NoRead.epoch /\ ~Desktop!NoRead.generation
  BY DEF Desktop!NoRead, Readings
<1>9. q \in [Reads -> Readings] /\ \A k \in Reads : q[k] = reads[k] \/ q[k] = Desktop!NoRead
  BY <1>6, <1>8, DeskNow
<1>10. PICK w : w = [desk |-> desk, down |-> down, reads |-> q]
  OBVIOUS
<1>11. Desktop!Whole' = w
  BY <1>7, <1>10 DEF Desktop!Whole
<1>12. w \in Worlds /\ w.desk = desk /\ w.down = down /\ w.reads = q
  BY <1>9, <1>10, DeskNow DEF Worlds
<1>13. Reading(w)
  <2>1. \A k \in Reads : /\ reads[k].epoch => reads[k].generation /\ desk.conn # "none"
                         /\ reads[k].why = "get" /\ reads[k].generation => Desktop!InControl(desk)
    BY DeskNow DEF Reading
  <2>2. QED
    BY <1>8, <1>9, <1>12, <2>1 DEF Reading
<1>14. Liftable(w)
  BY <1>12, DeskNow DEF Liftable
<1>15. World(w)
  BY <1>12, <1>13, <1>14, DeskNow DEF World, Base
<1>16. QED
  BY <1>5, <1>7, <1>11, <1>15 DEF DeskInv

\* Every command keeps the invariant.
LEMMA CommandStep == ASSUME DeskInv, Desktop!Command PROVE DeskInv'
  BY ProbeStep, KeyframeStep, ReleaseHeldStep, SuspendStep, ConnectStep, ReconfigureStep, FrameAckStep,
     SetSyncStep, PressStep, LiftStep, StrokesStep DEF Desktop!Command

\* Every step of the desktop keeps the invariant.
LEMMA DeskStep == DeskInv /\ [Desktop!Next]_Desktop!vars => DeskInv'
<1> SUFFICES ASSUME DeskInv, [Desktop!Next]_Desktop!vars PROVE DeskInv'
  OBVIOUS
<1>1. CASE Desktop!Next
  BY <1>1, ElsewhereStep, SignalStep, SessionClosedStep, MediaStep, ObserveStep, PortalAnswersStep,
     InputCompletedStep, CommandStep, QuitStep, FinishReadStep, StartReadStep DEF Desktop!Next
<1>2. CASE UNCHANGED Desktop!vars
  <2>1. Desktop!Whole' = Desktop!Whole /\ UNCHANGED <<os, monitors, desk, did>>
    BY <1>2 DEF Desktop!vars, Desktop!Whole
  <2>2. (Desktop!Observed(desk))' = Desktop!Observed(desk)
    BY <2>1 DEF Desktop!Observed
  <2>3. QED
    BY <2>1, <2>2 DEF DeskInv
<1>3. QED
  BY <1>1, <1>2

\* What the invariant says of what is held
LEMMA DeskInSight == DeskInv => Desktop!HeldInSight
<1> SUFFICES ASSUME DeskInv PROVE Desktop!HeldInSight
  OBVIOUS
<1>1. Desktop!TypeOK
  <2>1. /\ desk.conn \in {"none", "connecting", "connected"}
        /\ desk.portal \in {"none", "starting", "open", "closed"}
        /\ desk.media \in {"none", "running", "invalid", "unstarted"}
        /\ desk.pending \in 0..MaxPending /\ desk.sent \in 0..MaxFrames /\ desk.painted \in 0..MaxFrames
        /\ desk.held \subseteq Keys /\ down \subseteq Keys
        /\ desk.state \in DeskStates
    BY DeskNow DEF Desks
  <2>2. desk.painted <= desk.sent
    BY DeskNow DEF Connection
  <2>3. 0 <= desk.painted /\ desk.sent <= MaxFrames
    BY <2>1, DesktopAssumption
  <2>4. QED
    BY <2>1, <2>2, <2>3, DeskNow DEF Desktop!TypeOK, DeskStates
<1>2. desk.held # {} \/ down # {} =>
        desk.conn = "connected" /\ Desktop!InControl(desk) /\ (desk.kind = "wayland" => desk.portal = "open")
  BY DeskNow, ControlOf DEF Commanded, Liftable
<1>3. desk.conn = "none" =>
        desk.kind = "none" /\ desk.portal = "none" /\ desk.media \notin {"running", "invalid"} /\ ~desk.enabled
  BY DeskNow, ControlOf DEF Connection
<1>4. QED
  BY <1>1, <1>2, <1>3 DEF DeskInv, Desktop!HeldInSight

\* A behaviour of the parts is one of the desktop of HostDesktop.
LEMMA PartsAreDesktop == PartsSpec => Desktop!Spec
<1>1. PartsInit => Desktop!Init
  BY DEF PartsInit
<1>2. [PartsNext]_<<part, vars, desktopVars>> => [Desktop!Next]_Desktop!vars
  BY DEF PartsNext, desktopVars, Desktop!vars
<1>3. QED
  BY <1>1, <1>2, PTL DEF PartsSpec, Desktop!Spec

\* A behaviour of the parts is one of the grant of PortalGrant.
LEMMA PartsAreGrant == PartsSpec => Spec
<1>1. PartsInit => Init
  BY DEF PartsInit
<1>2. [PartsNext]_<<part, vars, desktopVars>> => [Next]_vars
  BY DEF PartsNext, vars
<1>3. QED
  BY <1>1, <1>2, PTL DEF PartsSpec, Spec

\* What is down in the session is held by a helper that controls what it sees, and
\* clipboard text reaches the client in control alone (HostDesktop's handlers).
THEOREM HeldWithinSight == PartsSpec => []HeldInSight
<1>1. Desktop!Spec => []DeskInv
  BY DeskInit, DeskStep, PTL DEF Desktop!Spec
<1>2. DeskInv => HeldInSight
  BY DeskInSight DEF HeldInSight
<1>3. QED
  BY <1>1, <1>2, PartsAreDesktop, PTL

\* Behind a desktop that runs beside it, the grant keeps what it promises alone: one
\* rotation at a time, no token submitted twice, the newest one restored.
THEOREM GrantBesideDesktop == PartsSpec => [](OneRotation /\ NeverReplayed /\ NewestRestores)
  BY PartsAreGrant, Invariance, PTL DEF IInv
=============================================================================
