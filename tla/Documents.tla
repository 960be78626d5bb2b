------------------------------ MODULE Documents ------------------------------
(* The private document facade (desktop_documents.py and                     *)
(* desktop_document_service.py): the file portal and the launcher of one     *)
(* prepared application export files through it to the document service of  *)
(* the host, which other applications of the user share.  The facade keeps  *)
(* which documents belong to the instance and which of them it may remove.  *)
(* Every callback runs on the one main loop and is one step; the host, its  *)
(* bus and the two callers are the environment.  Paths, permissions and     *)
(* descriptors are reduced to the file they stand for, the persistence flag *)
(* is left out.                                                              *)
EXTENDS Integers, Sequences, FiniteSets

CONSTANTS
  Docs,            \* the identifiers of the host's document service
  Files,           \* what a descriptor may stand for
  MaxCalls,        \* bound: operations asked for
  MaxDocuments,    \* MAX_DOCUMENTS
  MaxWaiting,      \* MAX_PENDING
  None, Removed    \* an identifier that stands for nothing yet, or not any more

VARIABLES
  authority,   \* DocumentAuthority: whether a role is bound, and to a process that has ended
  facade,      \* DocumentService with its DocumentGrants
  call,        \* per operation: what it asks for while it waits, and the answers to it
  link,        \* the host connection: calls GDBus waits for, both directions in order
  host         \* external: the files that documents stand for, and what came of
               \* this instance's exports

vars == <<authority, facade, call, link, host>>

Calls == 1..MaxCalls
Roles == {"portal", "launcher"}

Nothing == [method |-> "none"]
Done == [method |-> "done"]   \* what it asked for is forgotten with its answer

\* An export of files, or an operation on a document; Info stands for
\* GrantPermissions too.
Operations ==
  [method : {"Add"}, files : SUBSET Files \ {{}}, unique : BOOLEAN]
    \cup [method : {"Delete", "RevokePermissions", "Info"}, files : {{}}, document : Docs]
    \cup [method : {"GetMountPoint"}, files : {{}}]

Removes(op) == op.method \in {"Delete", "RevokePermissions"}
Op(c) == call[c].op
Granted == {d \in Docs : facade.documents[d] # "none"}
\* The documents that calls under way may still be answered with.
Promised == UNION {{c} \X Op(c).files : c \in facade.pending}

\* DocumentGrants, and DocumentService, as they are made and as they are closed
Unopened == [open |-> FALSE, started |-> FALSE,
             documents |-> [d \in Docs |-> "none"], pending |-> {}, calls |-> {}]
Opened == [Unopened EXCEPT !.open = TRUE, !.started = TRUE]
Closed == [Unopened EXCEPT !.started = TRUE]

Nobody == [peer |-> [role \in Roles |-> "none"], initial |-> {}]

Init ==
  /\ authority = Nobody
  /\ facade = Unopened
  /\ call = [c \in Calls |-> [op |-> Nothing, answers |-> 0]]
  /\ link = [asked |-> {}, out |-> <<>>, back |-> <<>>]
  \* What other applications exported before.
  /\ \E files \in [Docs -> Files \cup {None}] : host = [file |-> files, made |-> {}, told |-> {}]

----------------------------------------------------------------------------
(* DocumentAuthority *)

\* admit: the process that calls is the bound portal, or a process of the launcher
\* that executes what was admitted.
Admitted(role) == facade.open /\ authority.peer[role] = "bound"

\* bind_portal when its name is on the private bus, bind_launcher when it was
\* spawned, with the files the user opened the application on; neither twice.
Bind(role) ==
  /\ facade.open /\ authority.peer[role] = "none"
  /\ \E files \in IF role = "launcher" THEN SUBSET Files ELSE {authority.initial} :
       authority' = [peer |-> [authority.peer EXCEPT ![role] = "bound"], initial |-> files]
  /\ UNCHANGED <<facade, call, link, host>>

\* A process ends, or the launcher executes something else: it is not valid any more.
CallerEnds(role) ==
  /\ authority.peer[role] = "bound"
  /\ authority' = [peer |-> [authority.peer EXCEPT ![role] = "ended"],
                   initial |-> IF role = "launcher" THEN {} ELSE authority.initial]
  /\ UNCHANGED <<facade, call, link, host>>

----------------------------------------------------------------------------
(* DocumentGrants *)

WithinLimit(op) ==
  Cardinality(Granted) + Cardinality(Promised) + Cardinality(op.files) <= MaxDocuments

\* DocumentGrants.admit
Grantable(role, op) ==
  /\ Cardinality(facade.pending) < MaxWaiting
  /\ op.method = "Info" => facade.documents[op.document] # "none"
  /\ Removes(op) => facade.documents[op.document] = "unique"
  /\ role = "launcher" => op.files \subseteq authority.initial
  /\ WithinLimit(op)

\* DocumentGrants.complete
Recorded(op, reply) ==
  [d \in Docs |->
     CASE op.method = "Delete" /\ d = op.document -> "none"
       [] d \in reply -> IF op.unique /\ facade.documents[d] = "none" THEN "unique" ELSE "shared"
       [] OTHER -> facade.documents[d]]

----------------------------------------------------------------------------
(* DocumentService *)

Answered(c) == [op |-> Done, answers |-> call[c].answers + 1]
Settled(c) == [facade EXCEPT !.pending = @ \ {c}, !.calls = @ \ {c}]

\* The service is made before anybody is bound, of a host's service of the same
\* user and of a version it knows; one that cannot be made is closed again, and
\* the session fails.
Start == ~facade.started /\ facade' \in {Opened, Closed} /\ UNCHANGED <<authority, call, link, host>>

\* The call goes on to the host with its descriptors, and waits for its reply.
Forwarded(c, op) == link' = [link EXCEPT !.asked = @ \cup {c}, !.out = Append(@, [call |-> c, op |-> op])]

\* call, refused before anything of it is kept, or because the host's connection
\* takes no call any more.
Refused(c) ==
  /\ call' = [call EXCEPT ![c] = Answered(c)]
  /\ UNCHANGED <<authority, facade, link, host>>

\* call
Call(c, role, op) ==
  /\ Admitted(role) /\ Grantable(role, op)
  /\ call' = [call EXCEPT ![c].op = op]
  /\ facade' = [facade EXCEPT !.pending = @ \cup {c}, !.calls = @ \cup {c}]
  /\ Forwarded(c, op)
  /\ UNCHANGED <<authority, host>>

\* completed: the documents are recorded, whether or not the caller is still
\* there to be told; an error, a reply that names too few documents or the end
\* of the five seconds gives the instance nothing.
Completed(c, reply, valid) ==
  /\ facade' = IF valid THEN [Settled(c) EXCEPT !.documents = Recorded(Op(c), reply)]
               ELSE Settled(c)
  /\ call' = [call EXCEPT ![c] = Answered(c)]
  /\ host' = IF valid /\ Op(c).method = "Add" /\ ~Op(c).unique
               THEN [host EXCEPT !.told = @ \cup reply] ELSE host

\* GDBus drops the reply to a call that it stopped waiting for.
Reply ==
  /\ facade.open /\ link.back # <<>>
  /\ LET answer == Head(link.back) IN
     IF answer.call \in link.asked
     THEN /\ link' = [link EXCEPT !.back = Tail(@), !.asked = @ \ {answer.call}]
          /\ Completed(answer.call, answer.documents, answer.valid)
     ELSE link' = [link EXCEPT !.back = Tail(@)] /\ UNCHANGED <<facade, call, host>>
  /\ UNCHANGED authority

\* "A timeout does not revoke a completed host grant or replay an export."
Timeout(c) ==
  /\ facade.open /\ c \in link.asked
  /\ link' = [link EXCEPT !.asked = @ \ {c}]
  /\ Completed(c, {}, FALSE)
  /\ UNCHANGED authority

\* close, also when the document service leaves the host's bus (owner_changed,
\* lost): every waiting caller is told, no grant is taken back.  Whom the
\* authority still admits matters no more, it is written as closed with it.
Close ==
  /\ facade.open
  /\ facade' = Closed
  /\ call' = [c \in Calls |-> IF c \in facade.calls THEN Answered(c) ELSE call[c]]
  /\ link' = [asked |-> {}, out |-> <<>>, back |-> <<>>]
  /\ authority' = Nobody
  /\ UNCHANGED host

----------------------------------------------------------------------------
(* The document service of the host *)

Sends(c, documents, valid) ==
  link' = [link EXCEPT !.out = Tail(@),
                       !.back = Append(@, [call |-> c, documents |-> documents, valid |-> valid])]

\* An export: a document of its own per file, or one that stands for the file
\* already; the reply may name too few.
HostExports(c, op) == \E document \in [op.files -> Docs], valid \in BOOLEAN :
  /\ \A f, g \in op.files : document[f] = document[g] => f = g
  /\ \A f \in op.files : host.file[document[f]] \in IF op.unique THEN {None} ELSE {None, f}
  /\ host' = [host EXCEPT
       !.file = [d \in Docs |->
         IF \E f \in op.files : document[f] = d THEN CHOOSE f \in op.files : document[f] = d
         ELSE host.file[d]],
       !.made = IF op.unique THEN @ \cup {document[f] : f \in op.files} ELSE @]
  /\ Sends(c, {document[f] : f \in op.files}, valid)

\* Identifiers are not given out twice: a removed document is none that can be
\* exported again.
HostRemoves(c, op) ==
  /\ host' = [host EXCEPT !.file[op.document] = Removed]
  /\ Sends(c, {}, TRUE)

\* The next call: what it asks for is done, or looked up, or refused; what a
\* permission lets the application do is left out.
Host ==
  /\ link.out # <<>>
  /\ LET c == Head(link.out).call  op == Head(link.out).op IN
     \/ op.method = "Add" /\ HostExports(c, op)
     \/ op.method = "Delete" /\ HostRemoves(c, op)
     \/ \E valid \in BOOLEAN : Sends(c, {}, valid /\ op.method \notin {"Add", "Delete"}) /\ UNCHANGED host
  /\ UNCHANGED <<authority, facade, call>>

Next ==
  \/ \E role \in Roles : Bind(role) \/ CallerEnds(role)
  \/ \E c \in Calls :
       /\ Op(c) = Nothing /\ \A b \in Calls : b < c => Op(b) # Nothing
       /\ Refused(c) \/ \E role \in Roles, op \in Operations : Call(c, role, op)
  \/ \E c \in Calls : Timeout(c)
  \/ Start \/ Reply \/ Close \/ Host

Spec == Init /\ [][Next]_vars

----------------------------------------------------------------------------
(* Properties *)

TypeOK ==
  /\ authority.peer \in [Roles -> {"none", "bound", "ended"}] /\ authority.initial \subseteq Files
  /\ facade.open \in BOOLEAN /\ (facade.open => facade.started) /\ facade.documents \in [Docs -> {"none", "shared", "unique"}]
  /\ \A c \in Calls : Op(c) \in Operations \cup {Nothing, Done} /\ call[c].answers \in 0..1
  /\ link.asked \subseteq Calls /\ host.told \subseteq Docs
  /\ host.file \in [Docs -> Files \cup {None, Removed}] /\ host.made \subseteq Docs

\* Every operation is answered once, and what is on its way counts against the
\* instance's documents: whatever the host grants to calls admitted together
\* fits, and a call that timed out holds no place.
Accounted ==
  /\ TypeOK
  /\ facade.pending = facade.calls /\ facade.calls = link.asked
  /\ \A c \in Calls : Op(c) # Nothing => (call[c].answers = 0 <=> c \in facade.calls)
  /\ Cardinality(Granted) + Cardinality(Promised) <= MaxDocuments

\* The host is asked to remove only documents that it created for a unique
\* export of this instance and that no later export was answered with: "Existing
\* host grants ... are never deleted", "Reuse never grants deletion authority,
\* including after an earlier unique export of this path".
OwnGrantsOnly ==
  /\ []Accounted
  /\ [][\A c \in Calls : Op(c) = Nothing /\ c \in facade'.calls /\ Removes(Op(c)') =>
          Op(c)'.document \in host.made \ host.told]_vars
=============================================================================
