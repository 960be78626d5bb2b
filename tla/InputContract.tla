------------------------------ MODULE InputContract ------------------------------
(* What ordered input promises a caller, whoever delivers it. A request is      *)
(* queued, issued to the application, and settled: confirmed, failed once       *)
(* issued, or refused before it was issued. What is refused never reaches the   *)
(* application; what reaches it does so once and in the order of the requests;  *)
(* a confirmed text is in the application's document; and nothing is issued     *)
(* while an earlier text or clipboard publication of its connection is open.    *)
EXTENDS Naturals, Sequences, SequencesExt

CONSTANTS Stamps,      \* the requests, numbered in the order they are made
          Owners       \* the connections that make them

VARIABLES status,      \* of every request
          owner,       \* the connection that made it
          kind,        \* what it asks for
          doc          \* the requests the application has acted on, in order

contractVars == <<status, owner, kind, doc>>

Confirmable == {"text", "clip"}
Settled == {"confirmed", "failed", "refused"}

Init ==
  /\ status = [s \in Stamps |-> "none"]
  /\ owner = [s \in Stamps |-> 0]
  /\ kind = [s \in Stamps |-> "none"]
  /\ doc = <<>>

\* Nothing that a request of w must follow is still open.
Clear(s, w) == \A t \in Stamps :
  t < s /\ owner[t] = w /\ kind[t] \in Confirmable => status[t] \in Settled

\* A request made: it waits its turn, or is refused, or a close is sent, at once.
Ask(s) ==
  /\ status[s] = "none"
  /\ \A t \in Stamps : t < s => status[t] # "none"
  /\ \E w \in Owners, k \in Confirmable \cup {"down", "up", "close"} :
       owner' = [owner EXCEPT ![s] = w] /\ kind' = [kind EXCEPT ![s] = k]
  /\ \E r \in {"queued", "refused", "confirmed"} :
       /\ r = "confirmed" => kind'[s] = "close" /\ Clear(s, owner'[s])
       /\ status' = [status EXCEPT ![s] = r]
  /\ doc' = doc

\* A request goes to the application.
Issue(s) ==
  /\ status[s] = "queued"
  /\ Clear(s, owner[s])
  /\ \E r \in {"issued", "confirmed"} :
       /\ r = "confirmed" => kind[s] \notin Confirmable
       /\ status' = [status EXCEPT ![s] = r]
  /\ UNCHANGED <<owner, kind, doc>>

\* A text is confirmed when the document has it.
Confirm(s) ==
  /\ status[s] = "issued"
  /\ kind[s] = "text" => s \in ToSet(doc)
  /\ status' = [status EXCEPT ![s] = "confirmed"]
  /\ UNCHANGED <<owner, kind, doc>>

\* Requests given up together: a scene, a controller or a connection is retired.
GiveUp ==
  /\ \E gone \in SUBSET {s \in Stamps : status[s] \in {"queued", "issued"}} :
       /\ gone # {}
       /\ status' = [s \in Stamps |->
                      IF s \in gone THEN IF status[s] = "queued" THEN "refused" ELSE "failed"
                      ELSE status[s]]
  /\ UNCHANGED <<owner, kind, doc>>

\* The application acts on a request that was issued: once, and never behind a later one.
Apply(s) ==
  /\ status[s] \in {"issued", "confirmed", "failed"}
  /\ \A i \in DOMAIN doc : doc[i] < s
  /\ doc' = Append(doc, s)
  /\ UNCHANGED <<status, owner, kind>>

Next == GiveUp \/ \E s \in Stamps : Ask(s) \/ Issue(s) \/ Confirm(s) \/ Apply(s)

Spec == Init /\ [][Next]_contractVars
================================================================================
