----------------------- MODULE LoginAttachmentProofs -----------------------
(***************************************************************************)
(* Proofs about LoginAttachment, for any seats, window and bounds.         *)
(*                                                                         *)
(* IInv joins the types with what stands behind a key (Shown, Claimed),    *)
(* the steps of the paste chord (Chording), the order and number of the    *)
(* frames between the capture worker and the viewer (InOrder), and what    *)
(* the goroutines of the text transfers have reported (Reporting).  Moves  *)
(* says what any step does to the authority and the capture worker's       *)
(* channel, so that InOrder has five cases; the other parts have a lemma   *)
(* with one step per action.                                               *)
(***************************************************************************)
EXTENDS LoginAttachment, SequenceTheorems, FiniteSetTheorems, TLAPS

\* What a channel holds, and what the records hold
Commands == [current : BOOLEAN]
Messages == [kind : {"inactive", "displays", "frame"}, frame : 0..MaxFrames, current : BOOLEAN]
Results == [transfer : Transfers, prepared : BOOLEAN, ok : BOOLEAN]
ResultLists == {<<>>} \cup {<<r>> : r \in Results}
Stages == {"none", "selecting", "prepared", "done"}
Modes == {"view", "control"}
Authorities == [mode : Modes, seat : Seats \cup {None}, frame : 0..MaxFrames,
                offered : SUBSET (1..MaxFrames), painted : 0..MaxFrames]
PendingTexts == [transfer : Transfers \cup {None}, current : BOOLEAN, controlHeld : BOOLEAN]
Texts == [pending : PendingTexts, worker : BOOLEAN, results : ResultLists,
          stage : [Transfers -> Stages]]

\* The types, in the parts that steps change together
PlaceOK == /\ seat \in Seats \cup {None} /\ controller \in {None, "me", "other"} /\ life \in {"open", "closed", "done"}
           /\ pc \in {"select", "enter", "press", "check", "stroke", "return", "gone"}
           /\ asked \in [seat : Seats \cup {None}, mode : Modes] /\ stroke \in 0..3
           /\ link \in [connected : BOOLEAN, waking : BOOLEAN, refused : BOOLEAN]
HeldOK == held \subseteq Keys
AuthOK == auth \in Authorities
ChannelsOK == /\ commands \in Seq(Commands) /\ Len(commands) <= MaxCommands
              /\ releases \in Seq(Commands) /\ Len(releases) <= 1
MessagesOK == messages \in Seq(Messages) /\ Len(messages) <= MaxMessages
TextOK == text \in Texts
MediaOK == media \in [on : BOOLEAN, sequence : 0..MaxFrames, acknowledged : 0..MaxFrames]
Types == PlaceOK /\ HeldOK /\ AuthOK /\ ChannelsOK /\ MessagesOK /\ TextOK /\ MediaOK

Texting == text.pending.transfer # None

\* A painted frame stands behind every key that is or will be pressed.
Painted == auth.mode = "control" /\ auth.painted # 0
Shown == /\ held # {} \/ pc \in {"press", "check", "stroke"} => Painted
         /\ Texting /\ text.pending.current => Painted

\* Control is claimed before a transition takes it.
Claimed == life = "open" =>
  /\ pc = "enter" /\ asked.mode = "control" => controller = "me"
  /\ pc # "enter" /\ (auth.mode = "control" \/ held # {}) => controller = "me"

\* The keys of the chord, step by step
Chording ==
  /\ pc \in {"check", "stroke"} => Texting /\ text.pending.current /\ stroke \in 1..3
  /\ pc = "press" => ~Texting
  /\ held \cap Chord # {} => Texting /\ text.pending.current
  /\ Texting => "key" \notin held
  /\ pc \in {"check", "stroke"} /\ stroke = 1 => held = {}
  /\ pc = "select" \/ (pc \in {"check", "stroke"} /\ stroke = 2) => held \cap Chord \subseteq {"ControlLeft"}
  /\ pc # "return" /\ held \cap Chord # {} => text.pending.controlHeld

\* The frames between the authority's and the worker's are in the channel, in
\* order, and the window covers those that the viewer has not acknowledged.
Current(i) == messages[i].current /\ messages[i].kind = "frame"
InOrder ==
  /\ auth.frame <= media.sequence
  /\ media.sequence - media.acknowledged <= Window /\ media.acknowledged <= auth.frame
  /\ auth.offered \subseteq (media.acknowledged + 1) .. auth.frame
  /\ \A i \in 1..Len(messages) : Current(i) => messages[i].frame \in (auth.frame + 1) .. media.sequence
  /\ \A i, j \in 1..Len(messages) : Current(i) /\ Current(j) /\ i < j => messages[i].frame < messages[j].frame
  /\ \A f \in (auth.frame + 1) .. media.sequence :
       \E i \in 1..Len(messages) : Current(i) /\ messages[i].frame = f
  /\ ~link.refused

\* The goroutine of a transfer reports what it has done.
Reporting ==
  /\ text.results # <<>> => LET r == text.results[1] IN
       text.stage[r.transfer] = IF r.prepared THEN "prepared" ELSE "done"
  /\ \A t \in Transfers : text.stage[t] = "done" => text.results # <<>> /\ text.results[1].transfer = t
  /\ pc # "return" /\ Texting /\ text.pending.current => text.stage[text.pending.transfer] # "none"

\* The command that is handled is still in its channel.
Handling == pc \in {"enter", "press"} => commands # <<>>

IInv == Types /\ Shown /\ Claimed /\ Chording /\ InOrder /\ Reporting /\ Handling

(* The channels *)

\* A function on 1..n is a sequence of length n.
LEMMA ListOf ==
  ASSUME NEW S, NEW n \in Nat, NEW q \in [1..n -> S]
  PROVE  q \in Seq(S) /\ Len(q) = n
<1>1. q \in Seq(S)
  BY SeqDef
<1>2. Len(q) \in Nat /\ DOMAIN q = 1..Len(q)
  BY <1>1, LenProperties
<1>3. 1..Len(q) = 1..n
  BY <1>2
<1>4. Len(q) = n
  BY <1>2, <1>3
<1>5. QED
  BY <1>1, <1>4

\* Retiring a channel keeps its length and what it holds well typed.
LEMMA RetiredCommands ==
  ASSUME NEW q \in Seq(Commands)
  PROVE  Retired(q) \in Seq(Commands) /\ Len(Retired(q)) = Len(q)
<1>1. DOMAIN q = 1..Len(q) /\ Len(q) \in Nat /\ \A i \in 1..Len(q) : q[i] \in Commands
  BY LenProperties, ElementOfSeq
<1>2. \A i \in 1..Len(q) : [q[i] EXCEPT !.current = FALSE] \in Commands
  BY <1>1 DEF Commands
<1>3. Retired(q) = [i \in 1..Len(q) |-> [q[i] EXCEPT !.current = FALSE]]
  BY <1>1 DEF Retired
<1>4. Retired(q) \in [1..Len(q) -> Commands]
  BY <1>2, <1>3
<1>5. QED
  BY <1>1, <1>4, ListOf

\* A retired message is one, and not current.
LEMMA MessageTypes ==
  ASSUME NEW m \in Messages
  PROVE  [m EXCEPT !.current = FALSE] \in Messages /\ [m EXCEPT !.current = FALSE].current = FALSE
  BY DEF Messages

\* Nothing in a retired channel is current.
LEMMA RetiredMessages ==
  ASSUME NEW q \in Seq(Messages)
  PROVE  /\ Retired(q) \in Seq(Messages) /\ Len(Retired(q)) = Len(q)
         /\ \A i \in 1..Len(q) : Retired(q)[i].current = FALSE
<1>1. DOMAIN q = 1..Len(q) /\ Len(q) \in Nat /\ \A i \in 1..Len(q) : q[i] \in Messages
  BY LenProperties, ElementOfSeq
<1>2. \A i \in 1..Len(q) : [q[i] EXCEPT !.current = FALSE] \in Messages
  BY <1>1, MessageTypes
<1>3. Retired(q) = [i \in 1..Len(q) |-> [q[i] EXCEPT !.current = FALSE]]
  BY <1>1 DEF Retired
<1>4. Retired(q) \in [1..Len(q) -> Messages]
  BY <1>2, <1>3
<1>5. Retired(q) \in Seq(Messages) /\ Len(Retired(q)) = Len(q)
  BY <1>1, <1>4, ListOf
<1>6. ASSUME NEW i \in 1..Len(q) PROVE Retired(q)[i].current = FALSE
  <2>1. Retired(q)[i] = [q[i] EXCEPT !.current = FALSE]
    BY <1>3, <1>6
  <2>2. QED
    BY <1>1, <1>6, <2>1, MessageTypes
<1>7. QED
  BY <1>5, <1>6

\* What is left of a channel when its first item is taken
LEMMA TailTypes ==
  ASSUME NEW S, NEW q \in Seq(S), q # <<>>
  PROVE  /\ Tail(q) \in Seq(S) /\ Len(Tail(q)) = Len(q) - 1 /\ Len(q) \in Nat \ {0} /\ Head(q) = q[1] /\ Head(q) \in S
         /\ \A i \in 1..(Len(q) - 1) : Tail(q)[i] = q[i + 1]
  BY HeadTailProperties, EmptySeq, LenProperties

\* The results that are waiting: none or one
LEMMA ResultTypes ==
  /\ <<>> \in ResultLists
  /\ \A r \in Results : <<r>> \in ResultLists /\ <<r>> # <<>> /\ <<r>>[1] = r
  /\ \A q \in ResultLists : q # <<>> => q[1] \in Results
  BY DEF ResultLists

\* One key of the chord
LEMMA StrokeSteps ==
  ASSUME Stroke, stroke \in 1..3
  PROVE  /\ pc' \in {IF stroke = 3 THEN "select" ELSE "check", "return"}
         /\ stroke = 1 => held' = held \cup {"ControlLeft"}
         /\ stroke = 2 => held' = held \cup {"KeyV"}
         /\ stroke = 3 => held' = held \ {"KeyV"} \/ (held' = held /\ pc' = "return")
<1>1. CASE stroke = 1
  BY <1>1 DEF Stroke, Physical
<1>2. CASE stroke = 2
  BY <1>2 DEF Stroke, Physical
<1>3. CASE stroke = 3
  BY <1>3 DEF Stroke, Physical
<1>4. QED
  BY <1>1, <1>2, <1>3

(* What the steps do to the authority *)

\* An authority that has just entered a generation
LEMMA NewAuthorityType ==
  ASSUME NEW s \in Seats \cup {None}, NEW m \in Modes
  PROVE  /\ NewAuthority(s, m) \in Authorities
         /\ NewAuthority(s, m).mode = m /\ NewAuthority(s, m).frame = 0
         /\ NewAuthority(s, m).offered = {} /\ NewAuthority(s, m).painted = 0
  BY BoundsAssumption DEF NewAuthority, Authorities

\* A transition, the wakening of the output, and the end of the attachment
Stale(q) == q \in Seq(Messages) /\ Len(q) <= Len(messages) /\ \A i \in 1..Len(q) : q[i].current = FALSE
Renews(m) ==
  /\ \E s \in Seats \cup {None} : auth' = NewAuthority(s, m)
  /\ held' = {} /\ link'.refused = link.refused
  /\ media' \in {NewMedia, [NewMedia EXCEPT !.on = FALSE]}
  /\ ~text'.pending.current
  /\ Stale(messages')
  /\ pc' \notin {"press", "check", "stroke", "enter"}

\* The authority offers the next frame, or learns that one was painted.
Offers(f) ==
  /\ f = Head(messages).frame /\ Head(messages).current /\ Head(messages).kind = "frame" /\ messages # <<>>
  /\ messages' = Tail(messages)
  /\ auth' = IF Accepts(f) THEN [auth EXCEPT !.frame = f, !.offered = @ \cup {f}] ELSE auth
  /\ link'.refused = ~Accepts(f) /\ auth.seat # None
  /\ UNCHANGED media

Paints(f) ==
  /\ f \in auth.offered /\ auth' = Acknowledge(f) /\ media' = [media EXCEPT !.acknowledged = f]
  /\ UNCHANGED <<messages, link>>

\* Nothing that is current is taken from the channel of the capture worker.
Passes ==
  /\ UNCHANGED <<auth, media>> /\ link'.refused = link.refused
  /\ messages' = messages \/ (messages # <<>> /\ messages' = Tail(messages)
                                /\ ~(Head(messages).current /\ Head(messages).kind = "frame"))

Captured == Captures \/ Suspends

\* The loop, the seat and the controller
LEMMA PlaceTyped ==
  ASSUME PlaceOK, pc = "stroke" => stroke \in 1..3, [Next]_vars
  PROVE  PlaceOK'
<1> USE DEF PlaceOK, Modes, loop, channels
<1>1. CASE Sends
  BY <1>1 DEF Sends
<1>2. CASE SendsRelease
  BY <1>2 DEF SendsRelease
<1>3. CASE Closes
  BY <1>3 DEF Closes
<1>4. CASE SeatChanges
  BY <1>4 DEF SeatChanges
<1>5. CASE OthersClaim
  BY <1>5 DEF OthersClaim
<1>6. CASE Revoke
  BY <1>6 DEF Revoke, Unclaimed
<1>7. ASSUME NEW t \in Transfers, Prepares(t) PROVE PlaceOK'
  BY <1>7 DEF Prepares
<1>8. ASSUME NEW t \in Transfers, Completes(t) PROVE PlaceOK'
  BY <1>8 DEF Completes
<1>9. CASE Captures
  BY <1>9 DEF Captures, Emit
<1>10. CASE Suspends
  BY <1>10 DEF Suspends, Emit
<1>11. CASE TakeRelease
  BY <1>11 DEF TakeRelease, Transition, Requeued
<1>12. CASE TakeResult
  BY <1>12 DEF TakeResult, OfPending, Prepared, Settled, Received, Physical
<1>13. CASE Check
  BY <1>13 DEF Check
<1>14. CASE Stroke
  <2>1. pc' \in {"select", "check", "return"} /\ stroke \in 1..3
    BY <1>14, StrokeSteps DEF Stroke
  <2>2. stroke' \in 0..3
    <3>1. CASE pc' = "check"
      <4>1. stroke # 3
        BY <1>14, <2>1, <3>1, StrokeSteps
      <4>2. QED
        BY <1>14, <2>1, <3>1, <4>1 DEF Stroke
    <3>2. CASE pc' # "check"
      BY <1>14, <3>2 DEF Stroke
    <3>3. QED
      BY <3>1, <3>2
  <2>3. QED
    BY <1>14, <2>1, <2>2 DEF Stroke
<1>15. CASE Answered
  BY <1>15 DEF Answered, Command
<1>16. CASE UnlockCancel
  BY <1>16 DEF UnlockCancel, Valid, Command, Transition, Requeued
<1>17. CASE Disconnect
  BY <1>17 DEF Disconnect, Command
<1>18. ASSUME NEW m \in {"view", "control"}, Connect(m) PROVE PlaceOK'
  BY <1>18 DEF Connect, Command, Claim, Unclaimed
<1>19. CASE Enter
  BY <1>19 DEF Enter, Transition, Requeued
<1>20. ASSUME NEW f \in 1..MaxFrames, FrameAck(f) PROVE PlaceOK'
  BY <1>20 DEF FrameAck, Valid, Command, Acknowledge
<1>21. CASE InputLost
  BY <1>21 DEF InputLost, Valid, Command
<1>22. CASE InputElsewhere
  BY <1>22 DEF InputElsewhere, Valid, Command, Transition, Requeued
<1>23. CASE Key
  BY <1>23 DEF Key, InputHere, Valid, Command, Admitted
<1>24. CASE Text
  BY <1>24 DEF Text, InputHere, Valid, Command, Admitted
<1>25. CASE Press
  BY <1>25 DEF Press, Physical
<1>26. CASE WatchSeat
  BY <1>26 DEF WatchSeat, Transition, Requeued
<1>27. CASE Inactive
  BY <1>27 DEF Inactive, Message, Requeued
<1>28. CASE Displays
  BY <1>28 DEF Displays, Message, Transition, Requeued
<1>29. CASE Frame
  BY <1>29 DEF Frame, Message, Accepts, Transition, Requeued
<1>30. CASE Leave
  BY <1>30 DEF Leave
<1>31. CASE Fails
  BY <1>31 DEF Fails
<1>32. CASE End
  BY <1>32 DEF End, Unclaimed
<1>33. CASE UNCHANGED vars
  BY <1>33 DEF vars
<1> QED
  BY <1>1, <1>2, <1>3, <1>4, <1>5, <1>6, <1>7, <1>8, <1>9, <1>10, <1>11, <1>12, <1>13, <1>14, <1>15,
     <1>16, <1>17, <1>18, <1>19, <1>20, <1>21, <1>22, <1>23, <1>24, <1>25, <1>26, <1>27, <1>28,
     <1>29, <1>30, <1>31, <1>32, <1>33 DEF Next, Loop, Beside, TakeCommand, TakeMessage

\* The keys
LEMMA HeldTyped ==
  ASSUME HeldOK, pc = "stroke" => stroke \in 1..3, [Next]_vars
  PROVE  HeldOK'
<1> USE DEF HeldOK, Keys, Chord, loop, channels
<1>1. CASE Sends
  BY <1>1 DEF Sends
<1>2. CASE SendsRelease
  BY <1>2 DEF SendsRelease
<1>3. CASE Closes
  BY <1>3 DEF Closes
<1>4. CASE SeatChanges
  BY <1>4 DEF SeatChanges
<1>5. CASE OthersClaim
  BY <1>5 DEF OthersClaim
<1>6. CASE Revoke
  BY <1>6 DEF Revoke, Unclaimed
<1>7. ASSUME NEW t \in Transfers, Prepares(t) PROVE HeldOK'
  BY <1>7 DEF Prepares
<1>8. ASSUME NEW t \in Transfers, Completes(t) PROVE HeldOK'
  BY <1>8 DEF Completes
<1>9. CASE Captures
  BY <1>9 DEF Captures, Emit
<1>10. CASE Suspends
  BY <1>10 DEF Suspends, Emit
<1>11. CASE TakeRelease
  BY <1>11 DEF TakeRelease, Transition, Requeued
<1>12. CASE TakeResult
  BY <1>12 DEF TakeResult, OfPending, Prepared, Settled, Received, Physical
<1>13. CASE Check
  BY <1>13 DEF Check
<1>14. CASE Stroke
  <2>1. stroke \in 1..3
    BY <1>14 DEF Stroke
  <2>2. held' \subseteq held \cup {"ControlLeft", "KeyV"}
    <3> HIDE DEF HeldOK
    <3>1. stroke = 1 \/ stroke = 2 \/ stroke = 3
      BY <2>1
    <3>2. QED
      BY <2>1, <3>1, <1>14, StrokeSteps
  <2>3. QED
    BY <2>2
<1>15. CASE Answered
  BY <1>15 DEF Answered, Command
<1>16. CASE UnlockCancel
  BY <1>16 DEF UnlockCancel, Valid, Command, Transition, Requeued
<1>17. CASE Disconnect
  BY <1>17 DEF Disconnect, Command
<1>18. ASSUME NEW m \in {"view", "control"}, Connect(m) PROVE HeldOK'
  BY <1>18 DEF Connect, Command, Claim, Unclaimed
<1>19. CASE Enter
  BY <1>19 DEF Enter, Transition, Requeued
<1>20. ASSUME NEW f \in 1..MaxFrames, FrameAck(f) PROVE HeldOK'
  BY <1>20 DEF FrameAck, Valid, Command, Acknowledge
<1>21. CASE InputLost
  BY <1>21 DEF InputLost, Valid, Command
<1>22. CASE InputElsewhere
  BY <1>22 DEF InputElsewhere, Valid, Command, Transition, Requeued
<1>23. CASE Key
  BY <1>23 DEF Key, InputHere, Valid, Command, Admitted
<1>24. CASE Text
  BY <1>24 DEF Text, InputHere, Valid, Command, Admitted
<1>25. CASE Press
  BY <1>25 DEF Press, Physical
<1>26. CASE WatchSeat
  BY <1>26 DEF WatchSeat, Transition, Requeued
<1>27. CASE Inactive
  BY <1>27 DEF Inactive, Message, Requeued
<1>28. CASE Displays
  BY <1>28 DEF Displays, Message, Transition, Requeued
<1>29. CASE Frame
  BY <1>29 DEF Frame, Message, Accepts, Transition, Requeued
<1>30. CASE Leave
  BY <1>30 DEF Leave
<1>31. CASE Fails
  BY <1>31 DEF Fails
<1>32. CASE End
  BY <1>32 DEF End, Unclaimed
<1>33. CASE UNCHANGED vars
  BY <1>33 DEF vars
<1> QED
  BY <1>1, <1>2, <1>3, <1>4, <1>5, <1>6, <1>7, <1>8, <1>9, <1>10, <1>11, <1>12, <1>13, <1>14, <1>15,
     <1>16, <1>17, <1>18, <1>19, <1>20, <1>21, <1>22, <1>23, <1>24, <1>25, <1>26, <1>27, <1>28,
     <1>29, <1>30, <1>31, <1>32, <1>33 DEF Next, Loop, Beside, TakeCommand, TakeMessage

Moves ==
  \/ Captured \/ Passes
  \/ \E f \in 0..MaxFrames : Offers(f)
  \/ \E f \in 1..MaxFrames : Paints(f)
  \/ Renews(auth.mode) \/ (pc = "enter" /\ Renews(asked.mode)) \/ (pc = "return" /\ Renews("view"))

\* A retired channel holds nothing current.
LEMMA StaleRetired == ASSUME NEW q \in Seq(Messages), Len(q) <= Len(messages) PROVE Stale(Retired(q))
  BY RetiredMessages DEF Stale

\* Every transition renews the authority.
LEMMA TransitionRenews ==
  ASSUME TextOK, NEW s \in Seats \cup {None}, NEW m \in Modes, Transition(s, m), Stale(messages'),
         link'.refused = link.refused, pc' = "select"
  PROVE  Renews(m)
<1>1. ~text'.pending.current
  BY DEF Transition, TextOK, Texts, PendingTexts, NoPending
<1>2. QED
  BY <1>1 DEF Transition, Renews

\* Every step is one of these.
LEMMA StepMoves ==
  ASSUME PlaceOK, AuthOK, MessagesOK, TextOK, [Next]_vars
  PROVE  Moves
<1> USE DEF loop, channels
<1>1. CASE Sends
  <2>1. Passes
    BY <1>1 DEF Sends, Passes
  <2>2. QED
    BY <2>1 DEF Moves
<1>2. CASE SendsRelease
  <2>1. Passes
    BY <1>2 DEF SendsRelease, Passes
  <2>2. QED
    BY <2>1 DEF Moves
<1>3. CASE Closes
  <2>1. Passes
    BY <1>3 DEF Closes, Passes
  <2>2. QED
    BY <2>1 DEF Moves
<1>4. CASE SeatChanges
  <2>1. Passes
    BY <1>4 DEF SeatChanges, Passes
  <2>2. QED
    BY <2>1 DEF Moves
<1>5. CASE OthersClaim
  <2>1. Passes
    BY <1>5 DEF OthersClaim, Passes
  <2>2. QED
    BY <2>1 DEF Moves
<1>6. CASE Revoke
  <2>1. Passes
    BY <1>6 DEF Revoke, Unclaimed, Passes
  <2>2. QED
    BY <2>1 DEF Moves
<1>7. ASSUME NEW t \in Transfers, Prepares(t) PROVE Moves
  <2>1. Passes
    BY <1>7 DEF Prepares, Passes
  <2>2. QED
    BY <2>1 DEF Moves
<1>8. ASSUME NEW t \in Transfers, Completes(t) PROVE Moves
  <2>1. Passes
    BY <1>8 DEF Completes, Passes
  <2>2. QED
    BY <2>1 DEF Moves
<1>9. CASE Captures
  BY <1>9 DEF Moves, Captured
<1>10. CASE Suspends
  BY <1>10 DEF Moves, Captured
<1>11. CASE TakeRelease
  <2>1. CASE releases[1].current /\ text.pending.transfer # None
    <3>1. Stale(messages')
      BY <1>11, <2>1, StaleRetired, TailTypes DEF TakeRelease, Requeued, MessagesOK
    <3>2. link'.refused = link.refused
      BY <1>11, <2>1 DEF TakeRelease, PlaceOK
    <3>3. Transition(auth.seat, auth.mode) /\ pc' = "select" 
      BY <1>11, <2>1 DEF TakeRelease
    <3>4. Renews(auth.mode)
      BY <3>1, <3>2, <3>3, TransitionRenews DEF PlaceOK, AuthOK, Authorities
    <3>5. QED
      BY <3>3, <3>4 DEF Moves
  <2>2. CASE ~(releases[1].current /\ text.pending.transfer # None)
    <3>1. Passes
      BY <1>11, <2>2 DEF TakeRelease, Transition, Requeued, Passes
    <3>2. QED
      BY <3>1 DEF Moves
  <2>3. QED
    BY <2>1, <2>2
<1>12. CASE TakeResult
  <2>1. Passes
    BY <1>12 DEF TakeResult, OfPending, Prepared, Settled, Received, Physical, Passes
  <2>2. QED
    BY <2>1 DEF Moves
<1>13. CASE Check
  <2>1. Passes
    BY <1>13 DEF Check, Passes
  <2>2. QED
    BY <2>1 DEF Moves
<1>14. CASE Stroke
  <2>1. Passes
    BY <1>14 DEF Stroke, Physical, Passes
  <2>2. QED
    BY <2>1 DEF Moves
<1>15. CASE Answered
  <2>1. Passes
    BY <1>15 DEF Answered, Command, Passes
  <2>2. QED
    BY <2>1 DEF Moves
<1>16. CASE UnlockCancel
  <2>1. Stale(messages')
    BY <1>16, StaleRetired, TailTypes DEF UnlockCancel, Valid, Command, Requeued, MessagesOK
  <2>2. link'.refused = link.refused
    BY <1>16 DEF UnlockCancel, Valid, Command, PlaceOK
  <2>3. Transition(auth.seat, auth.mode) /\ pc' = "select" 
    BY <1>16 DEF UnlockCancel, Valid, Command
  <2>4. Renews(auth.mode)
    BY <2>1, <2>2, <2>3, TransitionRenews DEF PlaceOK, AuthOK, Authorities
  <2>5. QED
    BY <2>3, <2>4 DEF Moves
<1>17. CASE Disconnect
  <2>1. Passes
    BY <1>17 DEF Disconnect, Command, Passes
  <2>2. QED
    BY <2>1 DEF Moves
<1>18. ASSUME NEW m \in {"view", "control"}, Connect(m) PROVE Moves
  <2>1. Passes
    BY <1>18 DEF Connect, Command, Claim, Unclaimed, Passes
  <2>2. QED
    BY <2>1 DEF Moves
<1>19. CASE Enter
  <2>1. Stale(messages')
    BY <1>19, StaleRetired, TailTypes DEF Enter, Requeued, MessagesOK
  <2>2. link'.refused = link.refused
    BY <1>19 DEF Enter, PlaceOK
  <2>3. Transition(asked.seat, asked.mode) /\ pc' = "select" /\ pc = "enter"
    BY <1>19 DEF Enter
  <2>4. Renews(asked.mode)
    BY <2>1, <2>2, <2>3, TransitionRenews DEF PlaceOK, AuthOK, Authorities
  <2>5. QED
    BY <2>3, <2>4 DEF Moves
<1>20. ASSUME NEW f \in 1..MaxFrames, FrameAck(f) PROVE Moves
  <2>1. Paints(f)
    BY <1>20 DEF FrameAck, Valid, Command, Acknowledge, Paints
  <2>2. QED
    BY <2>1 DEF Moves
<1>21. CASE InputLost
  <2>1. Passes
    BY <1>21 DEF InputLost, Valid, Command, Passes
  <2>2. QED
    BY <2>1 DEF Moves
<1>22. CASE InputElsewhere
  <2>1. Stale(messages')
    BY <1>22, StaleRetired, TailTypes DEF InputElsewhere, Valid, Command, Requeued, MessagesOK
  <2>2. link'.refused = link.refused
    BY <1>22 DEF InputElsewhere, Valid, Command, PlaceOK
  <2>3. Transition(seat, auth.mode) /\ pc' = "select" 
    BY <1>22 DEF InputElsewhere, Valid, Command
  <2>4. Renews(auth.mode)
    BY <2>1, <2>2, <2>3, TransitionRenews DEF PlaceOK, AuthOK, Authorities
  <2>5. QED
    BY <2>3, <2>4 DEF Moves
<1>23. CASE Key
  <2>1. Passes
    BY <1>23 DEF Key, InputHere, Valid, Command, Admitted, Passes
  <2>2. QED
    BY <2>1 DEF Moves
<1>24. CASE Text
  <2>1. Passes
    BY <1>24 DEF Text, InputHere, Valid, Command, Admitted, Passes
  <2>2. QED
    BY <2>1 DEF Moves
<1>25. CASE Press
  <2>1. Passes
    BY <1>25 DEF Press, Physical, Passes
  <2>2. QED
    BY <2>1 DEF Moves
<1>26. CASE WatchSeat
  <2>1. CASE seat # None
    <3>1. Stale(messages')
      BY <1>26, <2>1, StaleRetired, TailTypes DEF WatchSeat, Requeued, MessagesOK
    <3>2. link'.refused = link.refused
      BY <1>26, <2>1 DEF WatchSeat, PlaceOK
    <3>3. Transition(seat, auth.mode) /\ pc' = "select" 
      BY <1>26, <2>1 DEF WatchSeat
    <3>4. Renews(auth.mode)
      BY <3>1, <3>2, <3>3, TransitionRenews DEF PlaceOK, AuthOK, Authorities
    <3>5. QED
      BY <3>3, <3>4 DEF Moves
  <2>2. CASE ~(seat # None)
    <3>1. Passes
      BY <1>26, <2>2 DEF WatchSeat, Transition, Requeued, Passes
    <3>2. QED
      BY <3>1 DEF Moves
  <2>3. QED
    BY <2>1, <2>2
<1>27. CASE Inactive
  <2>1. CASE Head(messages).current /\ ~link.waking /\ seat # None
    <3>1. Stale(messages')
      <4>1. messages # <<>> /\ messages' = Retired(Tail(messages))
        BY <1>27, <2>1 DEF Inactive, Message, Requeued
      <4>2. Tail(messages) \in Seq(Messages) /\ Len(Tail(messages)) <= Len(messages)
        BY <4>1, TailTypes DEF MessagesOK
      <4>3. QED
        BY <4>1, <4>2, StaleRetired
    <3>2. auth' = NewAuthority(seat, auth.mode) /\ held' = {} /\ media' = NewMedia /\ pc' \in {"select", "return"}
      BY <1>27, <2>1 DEF Inactive
    <3>3. link'.refused = link.refused /\ ~text'.pending.current
      BY <1>27, <2>1 DEF Inactive, PlaceOK, TextOK, Texts, PendingTexts
    <3>4. Renews(auth.mode)
      BY <3>1, <3>2, <3>3 DEF Renews, PlaceOK
    <3>5. QED
      BY <3>4 DEF Moves
  <2>2. CASE ~(Head(messages).current /\ ~link.waking /\ seat # None)
    <3>1. Passes
      BY <1>27, <2>2 DEF Inactive, Message, Passes
    <3>2. QED
      BY <3>1 DEF Moves
  <2>3. QED
    BY <2>1, <2>2
<1>28. CASE Displays
  <2>1. CASE Head(messages).current /\ seat # None
    <3>1. Stale(messages')
      <4>1. messages # <<>> /\ messages' = Retired(Tail(messages))
        BY <1>28, <2>1 DEF Displays, Message, Requeued
      <4>2. Tail(messages) \in Seq(Messages) /\ Len(Tail(messages)) <= Len(messages)
        BY <4>1, TailTypes DEF MessagesOK
      <4>3. QED
        BY <4>1, <4>2, StaleRetired
    <3>2. link'.refused = link.refused
      BY <1>28, <2>1 DEF Displays, Message, PlaceOK
    <3>3. Transition(seat, auth.mode) /\ pc' = "select" 
      BY <1>28, <2>1 DEF Displays, Message
    <3>4. Renews(auth.mode)
      BY <3>1, <3>2, <3>3, TransitionRenews DEF PlaceOK, AuthOK, Authorities
    <3>5. QED
      BY <3>3, <3>4 DEF Moves
  <2>2. CASE ~(Head(messages).current /\ seat # None)
    <3>1. Passes
      BY <1>28, <2>2 DEF Displays, Message, Transition, Requeued, Passes
    <3>2. QED
      BY <3>1 DEF Moves
  <2>3. QED
    BY <2>1, <2>2
<1>29. CASE Frame
  <2>1. CASE Head(messages).current /\ seat # None /\ seat # auth.seat
    <3>1. Stale(messages')
      <4>1. messages # <<>> /\ messages' = Retired(Tail(messages))
        BY <1>29, <2>1 DEF Frame, Message, Requeued
      <4>2. Tail(messages) \in Seq(Messages) /\ Len(Tail(messages)) <= Len(messages)
        BY <4>1, TailTypes DEF MessagesOK
      <4>3. QED
        BY <4>1, <4>2, StaleRetired
    <3>2. link'.refused = link.refused
      BY <1>29, <2>1 DEF Frame, Message, Accepts, PlaceOK
    <3>3. Transition(seat, auth.mode) /\ pc' = "select" 
      BY <1>29, <2>1 DEF Frame, Message, Accepts
    <3>4. Renews(auth.mode)
      BY <3>1, <3>2, <3>3, TransitionRenews DEF PlaceOK, AuthOK, Authorities
    <3>5. QED
      BY <3>3, <3>4 DEF Moves
  <2>2. CASE ~(Head(messages).current /\ seat # None /\ seat # auth.seat)
    <3>1. CASE Head(messages).current /\ seat # None
      <4>1. Head(messages) \in Messages
        BY <1>29, TailTypes DEF Frame, Message, MessagesOK
      <4>2. Head(messages).frame \in 0..MaxFrames
        BY <4>1 DEF Messages
      <4>3. seat = auth.seat
        BY <2>2, <3>1
      <4>4. Offers(Head(messages).frame)
        BY <1>29, <3>1, <4>3 DEF Frame, Message, Offers, PlaceOK
      <4>5. QED
        BY <4>2, <4>4 DEF Moves
    <3>2. CASE ~(Head(messages).current /\ seat # None)
      <4>1. Passes
        BY <1>29, <3>2 DEF Frame, Message, Passes
      <4>2. QED
        BY <4>1 DEF Moves
    <3>3. QED
      BY <3>1, <3>2
  <2>3. QED
    BY <2>1, <2>2
<1>30. CASE Leave
  <2>1. Passes
    BY <1>30 DEF Leave, Passes
  <2>2. QED
    BY <2>1 DEF Moves
<1>31. CASE Fails
  <2>1. Passes
    BY <1>31 DEF Fails, Passes
  <2>2. QED
    BY <2>1 DEF Moves
<1>32. CASE End
  <2>1. Stale(messages')
    BY <1>32, EmptySeq, LenProperties DEF End, Stale, MessagesOK
  <2>2. auth' = NewAuthority(None, "view") /\ held' = {} /\ media' = [NewMedia EXCEPT !.on = FALSE] /\ pc' = "gone"
    BY <1>32 DEF End
  <2>3. link'.refused = link.refused /\ ~text'.pending.current
    BY <1>32 DEF End, PlaceOK, TextOK, Texts, PendingTexts, NoPending
  <2>4. Renews("view")
    BY <2>1, <2>2, <2>3 DEF Renews
  <2>5. QED
    BY <1>32, <2>4 DEF End, Moves
<1>33. CASE UNCHANGED vars
  <2>1. Passes
    BY <1>33 DEF vars, Passes
  <2>2. QED
    BY <2>1 DEF Moves
<1> QED
  BY <1>1, <1>2, <1>3, <1>4, <1>5, <1>6, <1>7, <1>8, <1>9, <1>10, <1>11, <1>12, <1>13, <1>14, <1>15,
     <1>16, <1>17, <1>18, <1>19, <1>20, <1>21, <1>22, <1>23, <1>24, <1>25, <1>26, <1>27, <1>28,
     <1>29, <1>30, <1>31, <1>32, <1>33 DEF Next, Loop, Beside, TakeCommand, TakeMessage

\* What happens to the channels from the viewer
CommandMoves ==
  \/ commands' \in {commands, <<>>, Retired(commands)}
  \/ commands' = Append(commands, [current |-> TRUE]) /\ Len(commands) < MaxCommands
  \/ commands # <<>> /\ commands' \in {Tail(commands), Retired(Tail(commands))}
ReleaseMoves == releases' \in {releases, <<>>, Retired(releases), Retired(<<>>), <<[current |-> TRUE]>>}

\* Each step makes one of these moves.
LEMMA ChannelMoves ==
  ASSUME PlaceOK, Handling, [Next]_vars
  PROVE  CommandMoves /\ ReleaseMoves
<1> USE DEF loop, channels
<1>1. CASE Sends
  <2>1. CommandMoves /\ ReleaseMoves
    BY <1>1 DEF Sends, CommandMoves, ReleaseMoves, Handling
  <2>2. QED
    BY <2>1
<1>2. CASE SendsRelease
  <2>1. CommandMoves /\ ReleaseMoves
    BY <1>2 DEF SendsRelease, CommandMoves, ReleaseMoves, Handling
  <2>2. QED
    BY <2>1
<1>3. CASE Closes
  <2>1. CommandMoves /\ ReleaseMoves
    BY <1>3 DEF Closes, CommandMoves, ReleaseMoves, Handling
  <2>2. QED
    BY <2>1
<1>4. CASE SeatChanges
  <2>1. CommandMoves /\ ReleaseMoves
    BY <1>4 DEF SeatChanges, CommandMoves, ReleaseMoves, Handling
  <2>2. QED
    BY <2>1
<1>5. CASE OthersClaim
  <2>1. CommandMoves /\ ReleaseMoves
    BY <1>5 DEF OthersClaim, CommandMoves, ReleaseMoves, Handling
  <2>2. QED
    BY <2>1
<1>6. CASE Revoke
  <2>1. CommandMoves /\ ReleaseMoves
    BY <1>6 DEF Revoke, Unclaimed, CommandMoves, ReleaseMoves, Handling
  <2>2. QED
    BY <2>1
<1>7. ASSUME NEW t \in Transfers, Prepares(t) PROVE CommandMoves /\ ReleaseMoves
  <2>1. CommandMoves /\ ReleaseMoves
    BY <1>7 DEF Prepares, CommandMoves, ReleaseMoves, Handling
  <2>2. QED
    BY <2>1
<1>8. ASSUME NEW t \in Transfers, Completes(t) PROVE CommandMoves /\ ReleaseMoves
  <2>1. CommandMoves /\ ReleaseMoves
    BY <1>8 DEF Completes, CommandMoves, ReleaseMoves, Handling
  <2>2. QED
    BY <2>1
<1>9. CASE Captures
  <2>1. CommandMoves /\ ReleaseMoves
    BY <1>9 DEF Captures, Emit, CommandMoves, ReleaseMoves, Handling
  <2>2. QED
    BY <2>1
<1>10. CASE Suspends
  <2>1. CommandMoves /\ ReleaseMoves
    BY <1>10 DEF Suspends, Emit, CommandMoves, ReleaseMoves, Handling
  <2>2. QED
    BY <2>1
<1>11. CASE TakeRelease
  <2>1. CommandMoves /\ ReleaseMoves
    BY <1>11 DEF TakeRelease, Transition, Requeued, CommandMoves, ReleaseMoves, Handling
  <2>2. QED
    BY <2>1
<1>12. CASE TakeResult
  <2>1. CommandMoves /\ ReleaseMoves
    BY <1>12 DEF TakeResult, OfPending, Prepared, Settled, Received, Physical, CommandMoves, ReleaseMoves, Handling
  <2>2. QED
    BY <2>1
<1>13. CASE Check
  <2>1. CommandMoves /\ ReleaseMoves
    BY <1>13 DEF Check, CommandMoves, ReleaseMoves, Handling
  <2>2. QED
    BY <2>1
<1>14. CASE Stroke
  <2>1. CommandMoves /\ ReleaseMoves
    BY <1>14 DEF Stroke, Physical, CommandMoves, ReleaseMoves, Handling
  <2>2. QED
    BY <2>1
<1>15. CASE Answered
  <2>1. CommandMoves /\ ReleaseMoves
    BY <1>15 DEF Answered, Command, CommandMoves, ReleaseMoves, Handling
  <2>2. QED
    BY <2>1
<1>16. CASE UnlockCancel
  <2>1. CommandMoves /\ ReleaseMoves
    BY <1>16 DEF UnlockCancel, Valid, Command, Transition, Requeued, CommandMoves, ReleaseMoves, Handling
  <2>2. QED
    BY <2>1
<1>17. CASE Disconnect
  <2>1. CommandMoves /\ ReleaseMoves
    BY <1>17 DEF Disconnect, Command, CommandMoves, ReleaseMoves, Handling
  <2>2. QED
    BY <2>1
<1>18. ASSUME NEW m \in {"view", "control"}, Connect(m) PROVE CommandMoves /\ ReleaseMoves
  <2>1. CommandMoves /\ ReleaseMoves
    BY <1>18 DEF Connect, Command, Claim, Unclaimed, CommandMoves, ReleaseMoves, Handling
  <2>2. QED
    BY <2>1
<1>19. CASE Enter
  <2>1. CommandMoves /\ ReleaseMoves
    BY <1>19 DEF Enter, Transition, Requeued, CommandMoves, ReleaseMoves, Handling
  <2>2. QED
    BY <2>1
<1>20. ASSUME NEW f \in 1..MaxFrames, FrameAck(f) PROVE CommandMoves /\ ReleaseMoves
  <2>1. CommandMoves /\ ReleaseMoves
    BY <1>20 DEF FrameAck, Valid, Command, Acknowledge, CommandMoves, ReleaseMoves, Handling
  <2>2. QED
    BY <2>1
<1>21. CASE InputLost
  <2>1. CommandMoves /\ ReleaseMoves
    BY <1>21 DEF InputLost, Valid, Command, CommandMoves, ReleaseMoves, Handling
  <2>2. QED
    BY <2>1
<1>22. CASE InputElsewhere
  <2>1. CommandMoves /\ ReleaseMoves
    BY <1>22 DEF InputElsewhere, Valid, Command, Transition, Requeued, CommandMoves, ReleaseMoves, Handling
  <2>2. QED
    BY <2>1
<1>23. CASE Key
  <2>1. CommandMoves /\ ReleaseMoves
    BY <1>23 DEF Key, InputHere, Valid, Command, Admitted, CommandMoves, ReleaseMoves, Handling
  <2>2. QED
    BY <2>1
<1>24. CASE Text
  <2>1. CommandMoves /\ ReleaseMoves
    BY <1>24 DEF Text, InputHere, Valid, Command, Admitted, CommandMoves, ReleaseMoves, Handling
  <2>2. QED
    BY <2>1
<1>25. CASE Press
  <2>1. CommandMoves /\ ReleaseMoves
    BY <1>25 DEF Press, Physical, CommandMoves, ReleaseMoves, Handling
  <2>2. QED
    BY <2>1
<1>26. CASE WatchSeat
  <2>1. CommandMoves /\ ReleaseMoves
    BY <1>26 DEF WatchSeat, Transition, Requeued, CommandMoves, ReleaseMoves, Handling
  <2>2. QED
    BY <2>1
<1>27. CASE Inactive
  <2>1. CommandMoves /\ ReleaseMoves
    BY <1>27 DEF Inactive, Message, Requeued, CommandMoves, ReleaseMoves, Handling
  <2>2. QED
    BY <2>1
<1>28. CASE Displays
  <2>1. CommandMoves /\ ReleaseMoves
    BY <1>28 DEF Displays, Message, Transition, Requeued, CommandMoves, ReleaseMoves, Handling
  <2>2. QED
    BY <2>1
<1>29. CASE Frame
  <2>1. CommandMoves /\ ReleaseMoves
    BY <1>29 DEF Frame, Message, Accepts, Transition, Requeued, CommandMoves, ReleaseMoves, Handling
  <2>2. QED
    BY <2>1
<1>30. CASE Leave
  <2>1. CommandMoves /\ ReleaseMoves
    BY <1>30 DEF Leave, CommandMoves, ReleaseMoves, Handling
  <2>2. QED
    BY <2>1
<1>31. CASE Fails
  <2>1. CommandMoves /\ ReleaseMoves
    BY <1>31 DEF Fails, CommandMoves, ReleaseMoves, Handling
  <2>2. QED
    BY <2>1
<1>32. CASE End
  <2>1. CommandMoves /\ ReleaseMoves
    BY <1>32 DEF End, Unclaimed, CommandMoves, ReleaseMoves, Handling
  <2>2. QED
    BY <2>1
<1>33. CASE UNCHANGED vars
  <2>1. CommandMoves /\ ReleaseMoves
    BY <1>33 DEF vars, CommandMoves, ReleaseMoves, Handling
  <2>2. QED
    BY <2>1
<1> QED
  BY <1>1, <1>2, <1>3, <1>4, <1>5, <1>6, <1>7, <1>8, <1>9, <1>10, <1>11, <1>12, <1>13, <1>14, <1>15,
     <1>16, <1>17, <1>18, <1>19, <1>20, <1>21, <1>22, <1>23, <1>24, <1>25, <1>26, <1>27, <1>28,
     <1>29, <1>30, <1>31, <1>32, <1>33 DEF Next, Loop, Beside, TakeCommand, TakeMessage

\* The channels of commands and releases keep their bounds.
LEMMA ChannelsTyped == ASSUME PlaceOK, Handling, ChannelsOK, [Next]_vars PROVE ChannelsOK'
<1>1. CommandMoves /\ ReleaseMoves
  BY ChannelMoves
<1>2. /\ <<>> \in Seq(Commands) /\ Len(<<>>) = 0 /\ Len(commands) \in Nat /\ Len(releases) \in Nat
      /\ [current |-> TRUE] \in Commands
      /\ Retired(commands) \in Seq(Commands) /\ Len(Retired(commands)) = Len(commands)
      /\ Retired(releases) \in Seq(Commands) /\ Len(Retired(releases)) = Len(releases)
      /\ Retired(<<>>) \in Seq(Commands) /\ Len(Retired(<<>>)) = 0
  BY EmptySeq, LenProperties, RetiredCommands DEF ChannelsOK, Commands
<1>3. commands' \in Seq(Commands) /\ Len(commands') <= MaxCommands
  <2>1. CASE commands' \in {commands, <<>>, Retired(commands)}
    BY <1>2, <2>1, BoundsAssumption DEF ChannelsOK
  <2>2. CASE commands' = Append(commands, [current |-> TRUE]) /\ Len(commands) < MaxCommands
    BY <1>2, <2>2, AppendProperties, BoundsAssumption DEF ChannelsOK
  <2>3. CASE commands # <<>> /\ commands' \in {Tail(commands), Retired(Tail(commands))}
    <3>1. Tail(commands) \in Seq(Commands) /\ Len(Tail(commands)) <= MaxCommands
      BY <1>2, <2>3, TailTypes, BoundsAssumption DEF ChannelsOK
    <3>2. QED
      BY <2>3, <3>1, RetiredCommands
  <2>4. QED
    BY <1>1, <2>1, <2>2, <2>3 DEF CommandMoves
<1>4. releases' \in Seq(Commands) /\ Len(releases') <= 1
  <2>1. <<[current |-> TRUE]>> \in Seq(Commands) /\ Len(<<[current |-> TRUE]>>) = 1
    BY <1>2
  <2>2. CASE releases' = <<[current |-> TRUE]>>
    BY <2>1, <2>2
  <2>3. CASE releases' \in {releases, <<>>, Retired(releases), Retired(<<>>)}
    BY <1>2, <2>3 DEF ChannelsOK
  <2>4. QED
    BY <1>1, <2>2, <2>3 DEF ReleaseMoves
<1>5. QED
  BY <1>3, <1>4 DEF ChannelsOK

\* The authority keeps its type.
LEMMA AuthorityTyped == ASSUME PlaceOK, AuthOK, MessagesOK, TextOK, [Next]_vars PROVE AuthOK'
<1>1. Moves
  BY StepMoves
<1>2. auth.mode \in Modes /\ asked.mode \in Modes /\ "view" \in Modes
  BY DEF PlaceOK, AuthOK, Authorities, Modes
<1>3. CASE Captured
  BY <1>3 DEF Captured, Captures, Suspends, Emit, loop, AuthOK
<1>4. CASE Passes
  BY <1>4 DEF Passes, AuthOK
<1>5. ASSUME NEW f \in 0..MaxFrames, Offers(f) PROVE AuthOK'
  <2>1. CASE Accepts(f)
    <3>1. f \in 1..MaxFrames
      BY <2>1, BoundsAssumption DEF Accepts, AuthOK, Authorities
    <3>2. QED
      BY <1>5, <2>1, <3>1 DEF Offers, AuthOK, Authorities
  <2>2. CASE ~Accepts(f)
    BY <1>5, <2>2 DEF Offers, AuthOK
  <2>3. QED
    BY <2>1, <2>2
<1>6. ASSUME NEW f \in 1..MaxFrames, Paints(f) PROVE AuthOK'
  <2>1. {g \in auth.offered : g > f} \in SUBSET (1..MaxFrames) /\ f \in 0..MaxFrames
    BY DEF AuthOK, Authorities
  <2>2. QED
    BY <1>6, <2>1 DEF Paints, Acknowledge, AuthOK, Authorities
<1>7. ASSUME NEW m \in Modes, Renews(m) PROVE AuthOK'
  BY <1>7, NewAuthorityType DEF Renews, AuthOK
<1>8. QED
  BY <1>1, <1>2, <1>3, <1>4, <1>5, <1>6, <1>7 DEF Moves

\* The state of the capture worker keeps its type.
LEMMA MediaTyped == ASSUME PlaceOK, AuthOK, MessagesOK, TextOK, MediaOK, [Next]_vars PROVE MediaOK'
<1>1. Moves
  BY StepMoves
<1>2. auth.mode \in Modes /\ asked.mode \in Modes /\ "view" \in Modes
  BY DEF PlaceOK, AuthOK, Authorities, Modes
<1>3. CASE Captured
  <2>1. CASE Captures
    BY <2>1, BoundsAssumption DEF Captures, MediaOK
  <2>2. CASE Suspends
    BY <2>2 DEF Suspends, MediaOK
  <2>3. QED
    BY <1>3, <2>1, <2>2 DEF Captured
<1>4. CASE Passes
  BY <1>4 DEF Passes, MediaOK
<1>5. ASSUME NEW f \in 0..MaxFrames, Offers(f) PROVE MediaOK'
  BY <1>5 DEF Offers, MediaOK
<1>6. ASSUME NEW f \in 1..MaxFrames, Paints(f) PROVE MediaOK'
  BY <1>6 DEF Paints, MediaOK
<1>7. ASSUME NEW m \in Modes, Renews(m) PROVE MediaOK'
  <2>1. 0 \in 0..MaxFrames
    BY BoundsAssumption
  <2>2. NewMedia \in [on : BOOLEAN, sequence : 0..MaxFrames, acknowledged : 0..MaxFrames]
        /\ [NewMedia EXCEPT !.on = FALSE] \in [on : BOOLEAN, sequence : 0..MaxFrames, acknowledged : 0..MaxFrames]
    BY <2>1 DEF NewMedia
  <2>3. QED
    BY <1>7, <2>2 DEF Renews, MediaOK
<1>8. QED
  BY <1>1, <1>2, <1>3, <1>4, <1>5, <1>6, <1>7 DEF Moves

\* A message is appended.
LEMMA Emitted ==
  ASSUME MediaOK, MessagesOK, Captured
  PROVE  \E m \in Messages :
           /\ messages' = Append(messages, m) /\ Len(messages) < MaxMessages /\ m.current
           /\ m.kind = "frame" => /\ m.frame = media.sequence + 1 /\ media.sequence - media.acknowledged < Window
                                  /\ media'.sequence = media.sequence + 1
           /\ m.kind # "frame" => media'.sequence = media.sequence
           /\ media'.acknowledged = media.acknowledged
<1>1. CASE Captures
  <2> DEFINE m == [kind |-> "frame", frame |-> media.sequence + 1, current |-> TRUE]
  <2>1. m \in Messages
    BY <1>1, BoundsAssumption DEF Captures, MediaOK, Messages
  <2>2. /\ messages' = Append(messages, m) /\ Len(messages) < MaxMessages
        /\ media'.sequence = media.sequence + 1 /\ media'.acknowledged = media.acknowledged
        /\ media.sequence - media.acknowledged < Window
    BY <1>1 DEF Captures, Emit, MediaOK
  <2>3. QED
    BY <2>1, <2>2
<1>2. CASE Suspends
  <2>1. PICK k \in {"inactive", "displays"} : messages' = Append(messages, [kind |-> k, frame |-> 0, current |-> TRUE])
                                            /\ Len(messages) < MaxMessages
    BY <1>2 DEF Suspends, Emit
  <2>2. [kind |-> k, frame |-> 0, current |-> TRUE] \in Messages
    BY BoundsAssumption DEF Messages
  <2>3. media'.sequence = media.sequence /\ media'.acknowledged = media.acknowledged
    BY <1>2 DEF Suspends, MediaOK
  <2>4. QED
    BY <2>1, <2>2, <2>3
<1>3. QED
  BY <1>1, <1>2 DEF Captured

\* The capture worker's channel keeps its bound.
LEMMA MessagesTyped == ASSUME PlaceOK, AuthOK, MessagesOK, TextOK, MediaOK, [Next]_vars PROVE MessagesOK'
<1>1. Moves
  BY StepMoves
<1>2. Len(messages) \in Nat /\ auth.mode \in Modes /\ asked.mode \in Modes /\ "view" \in Modes
  BY LenProperties DEF PlaceOK, AuthOK, Authorities, Modes, MessagesOK
<1>3. CASE Captured
  <2>1. PICK m \in Messages : messages' = Append(messages, m) /\ Len(messages) < MaxMessages
    BY <1>3, Emitted
  <2>2. QED
    BY <1>2, <2>1, AppendProperties, BoundsAssumption DEF MessagesOK
<1>4. CASE Passes
  BY <1>2, <1>4, TailTypes, BoundsAssumption DEF Passes, MessagesOK
<1>5. ASSUME NEW f \in 0..MaxFrames, Offers(f) PROVE MessagesOK'
  BY <1>2, <1>5, TailTypes, BoundsAssumption DEF Offers, MessagesOK
<1>6. ASSUME NEW f \in 1..MaxFrames, Paints(f) PROVE MessagesOK'
  BY <1>6 DEF Paints, MessagesOK
<1>7. ASSUME NEW m \in Modes, Renews(m) PROVE MessagesOK'
  <2>1. messages' \in Seq(Messages) /\ Len(messages') <= Len(messages)
    BY <1>7 DEF Renews, Stale
  <2>2. QED
    BY <1>2, <2>1, LenProperties, BoundsAssumption DEF MessagesOK
<1>8. QED
  BY <1>1, <1>2, <1>3, <1>4, <1>5, <1>6, <1>7 DEF Moves

\* The fields of the texts
LEMMA TextFields ==
  ASSUME NEW x \in Texts
  PROVE  /\ x.pending \in PendingTexts /\ x.worker \in BOOLEAN /\ x.results \in ResultLists /\ x.stage \in [Transfers -> Stages]
         /\ x.pending.transfer \in Transfers \cup {None} /\ x.pending.current \in BOOLEAN /\ x.pending.controlHeld \in BOOLEAN
  BY DEF Texts, PendingTexts

\* What the steps make of the texts is well typed.
LEMMA TextShapes ==
  ASSUME NEW x \in Texts
  PROVE  /\ \A w \in BOOLEAN : [x EXCEPT !.pending = NoPending, !.worker = w] \in Texts
         /\ [x EXCEPT !.pending.current = FALSE] \in Texts
         /\ \A w \in BOOLEAN : [x EXCEPT !.worker = w] \in Texts
         /\ \A b \in BOOLEAN : [x EXCEPT !.pending.controlHeld = b] \in Texts
         /\ \A t \in Transfers, g \in Stages, q \in ResultLists : [x EXCEPT !.stage[t] = g, !.results = q] \in Texts
         /\ \A t \in Transfers : [x EXCEPT !.pending = [transfer |-> t, current |-> TRUE, controlHeld |-> FALSE],
                                           !.worker = TRUE, !.stage[t] = "selecting"] \in Texts
         /\ [x EXCEPT !.pending = NoPending, !.worker = FALSE, !.results = <<>>,
                      !.stage = [t \in Transfers |-> "none"]] \in Texts
<1>1. NoPending \in PendingTexts
  BY DEF NoPending, PendingTexts
<1>2. \A w \in BOOLEAN : [x EXCEPT !.pending = NoPending, !.worker = w] \in Texts
  BY <1>1 DEF Texts
<1>3. [x EXCEPT !.pending.current = FALSE] \in Texts
  BY DEF Texts, PendingTexts
<1>4. \A w \in BOOLEAN : [x EXCEPT !.worker = w] \in Texts
  BY DEF Texts
<1>5. \A b \in BOOLEAN : [x EXCEPT !.pending.controlHeld = b] \in Texts
  BY DEF Texts, PendingTexts
<1>6. ASSUME NEW t \in Transfers, NEW g \in Stages, NEW q \in ResultLists
      PROVE  [x EXCEPT !.stage[t] = g, !.results = q] \in Texts
  BY DEF Texts
<1>7. ASSUME NEW t \in Transfers
      PROVE  [x EXCEPT !.pending = [transfer |-> t, current |-> TRUE, controlHeld |-> FALSE],
                       !.worker = TRUE, !.stage[t] = "selecting"] \in Texts
  <2>1. [transfer |-> t, current |-> TRUE, controlHeld |-> FALSE] \in PendingTexts /\ "selecting" \in Stages
    BY DEF PendingTexts, Stages
  <2>2. QED
    BY <2>1 DEF Texts
<1>8. [x EXCEPT !.pending = NoPending, !.worker = FALSE, !.results = <<>>,
                !.stage = [t \in Transfers |-> "none"]] \in Texts
  BY <1>1, ResultTypes DEF Texts, Stages
<1>9. QED
  BY <1>2, <1>3, <1>4, <1>5, <1>6, <1>7, <1>8

\* What taking a result leaves of the texts
LEMMA ReceivedType ==
  ASSUME text \in Texts, NEW r \in Results
  PROVE  /\ Received(r) \in Texts /\ Received(r).pending = text.pending /\ Received(r).results = <<>>
         /\ Received(r).stage = [text.stage EXCEPT ![r.transfer] = IF r.prepared THEN @ ELSE "none"]
<1>1. r.transfer \in Transfers /\ "none" \in Stages /\ <<>> \in ResultLists
  BY ResultTypes DEF Results, Stages
<1>2. QED
  BY <1>1 DEF Received, Texts

\* The texts keep their types.
LEMMA TextTyped ==
  ASSUME TextOK, [Next]_vars
  PROVE  TextOK'
<1> USE DEF TextOK, loop, channels
<1>1. CASE Sends
  BY <1>1 DEF Sends
<1>2. CASE SendsRelease
  BY <1>2 DEF SendsRelease
<1>3. CASE Closes
  BY <1>3 DEF Closes
<1>4. CASE SeatChanges
  BY <1>4 DEF SeatChanges
<1>5. CASE OthersClaim
  BY <1>5 DEF OthersClaim
<1>6. CASE Revoke
  BY <1>6 DEF Revoke, Unclaimed
<1>7. ASSUME NEW t \in Transfers, Prepares(t) PROVE TextOK'
  <2>1. [transfer |-> t, prepared |-> TRUE, ok |-> TRUE] \in Results /\ "prepared" \in Stages
    BY DEF Results, Stages
  <2>2. <<[transfer |-> t, prepared |-> TRUE, ok |-> TRUE]>> \in ResultLists
    BY <2>1, ResultTypes
  <2>3. QED
    BY <1>7, <2>1, <2>2, TextShapes DEF Prepares, TextOK
<1>8. ASSUME NEW t \in Transfers, Completes(t) PROVE TextOK'
  <2>1. PICK ok \in BOOLEAN :
          text' = [text EXCEPT !.stage[t] = "done", !.results = <<[transfer |-> t, prepared |-> FALSE, ok |-> ok]>>]
    BY <1>8 DEF Completes
  <2>2. [transfer |-> t, prepared |-> FALSE, ok |-> ok] \in Results /\ "done" \in Stages
    BY DEF Results, Stages
  <2>3. <<[transfer |-> t, prepared |-> FALSE, ok |-> ok]>> \in ResultLists
    BY <2>2, ResultTypes
  <2>4. QED
    BY <2>1, <2>2, <2>3, TextShapes DEF TextOK
<1>9. CASE Captures
  BY <1>9 DEF Captures, Emit
<1>10. CASE Suspends
  BY <1>10 DEF Suspends, Emit
<1>11. CASE TakeRelease
  <2>1. text' = text \/ \E w \in BOOLEAN : text' = [text EXCEPT !.pending = NoPending, !.worker = w]
    BY <1>11 DEF TakeRelease, Transition, Requeued
  <2>2. QED
    BY <2>1, TextShapes DEF TextOK
<1>12. CASE TakeResult
  <2> DEFINE r == text.results[1]
  <2>1. r \in Results
    BY <1>12, TextFields, ResultTypes DEF TakeResult, TextOK
  <2>2. Received(r) \in Texts
    BY <2>1, ReceivedType DEF TextOK
  <2>3. \/ text' = Received(r) \/ text' = [Received(r) EXCEPT !.worker = FALSE]
        \/ text' = [Received(r) EXCEPT !.pending = NoPending, !.worker = Received(r).worker /\ r.ok]
    <3>1. Prepared(r) \/ Settled(r) \/ text' = Received(r)
      BY <1>12 DEF TakeResult
    <3>2. CASE Prepared(r)
      BY <3>2 DEF Prepared
    <3>3. CASE Settled(r)
      BY <3>3 DEF Settled
    <3>4. QED
      BY <3>1, <3>2, <3>3
  <2>4. r.ok \in BOOLEAN
    BY <2>1 DEF Results
  <2> HIDE DEF r
  <2>5. (Received(r).worker /\ r.ok) \in BOOLEAN
    BY <2>2, <2>4, TextFields
  <2>6. QED
    BY <2>2, <2>3, <2>5, TextShapes DEF TextOK
<1>13. CASE Check
  <2>1. text' = text \/ text' = [text EXCEPT !.worker = FALSE]
    BY <1>13 DEF Check
  <2>2. QED
    BY <2>1, TextShapes DEF TextOK
<1>14. CASE Stroke
  <2>1. \E b \in BOOLEAN : text' = [text EXCEPT !.pending.controlHeld = b]
    BY <1>14, TextFields DEF Stroke, TextOK
  <2>2. QED
    BY <2>1, TextShapes DEF TextOK
<1>15. CASE Answered
  BY <1>15 DEF Answered, Command
<1>16. CASE UnlockCancel
  <2>1. \E w \in BOOLEAN : text' = [text EXCEPT !.pending = NoPending, !.worker = w]
    BY <1>16 DEF UnlockCancel, Valid, Command, Transition, Requeued
  <2>2. QED
    BY <2>1, TextShapes DEF TextOK
<1>17. CASE Disconnect
  BY <1>17 DEF Disconnect, Command
<1>18. ASSUME NEW m \in {"view", "control"}, Connect(m) PROVE TextOK'
  BY <1>18 DEF Connect, Command, Claim, Unclaimed
<1>19. CASE Enter
  <2>1. \E w \in BOOLEAN : text' = [text EXCEPT !.pending = NoPending, !.worker = w]
    BY <1>19 DEF Enter, Transition, Requeued
  <2>2. QED
    BY <2>1, TextShapes DEF TextOK
<1>20. ASSUME NEW f \in 1..MaxFrames, FrameAck(f) PROVE TextOK'
  BY <1>20 DEF FrameAck, Valid, Command, Acknowledge
<1>21. CASE InputLost
  BY <1>21 DEF InputLost, Valid, Command
<1>22. CASE InputElsewhere
  <2>1. \E w \in BOOLEAN : text' = [text EXCEPT !.pending = NoPending, !.worker = w]
    BY <1>22 DEF InputElsewhere, Valid, Command, Transition, Requeued
  <2>2. QED
    BY <2>1, TextShapes DEF TextOK
<1>23. CASE Key
  BY <1>23 DEF Key, InputHere, Valid, Command, Admitted
<1>24. CASE Text
  <2>1. \E t \in Transfers : text' = [text EXCEPT !.pending = [transfer |-> t, current |-> TRUE, controlHeld |-> FALSE],
                                              !.worker = TRUE, !.stage[t] = "selecting"]
    BY <1>24 DEF Text
  <2>2. QED
    BY <2>1, TextShapes DEF TextOK
<1>25. CASE Press
  BY <1>25 DEF Press, Physical
<1>26. CASE WatchSeat
  <2>1. text' = text \/ \E w \in BOOLEAN : text' = [text EXCEPT !.pending = NoPending, !.worker = w]
    BY <1>26 DEF WatchSeat, Transition, Requeued
  <2>2. QED
    BY <2>1, TextShapes DEF TextOK
<1>27. CASE Inactive
  <2>1. text' = text \/ text' = [text EXCEPT !.pending.current = FALSE]
    BY <1>27 DEF Inactive, Message, Requeued
  <2>2. QED
    BY <2>1, TextShapes DEF TextOK
<1>28. CASE Displays
  <2>1. text' = text \/ \E w \in BOOLEAN : text' = [text EXCEPT !.pending = NoPending, !.worker = w]
    BY <1>28 DEF Displays, Message, Transition, Requeued
  <2>2. QED
    BY <2>1, TextShapes DEF TextOK
<1>29. CASE Frame
  <2>1. text' = text \/ \E w \in BOOLEAN : text' = [text EXCEPT !.pending = NoPending, !.worker = w]
    BY <1>29 DEF Frame, Message, Accepts, Transition, Requeued
  <2>2. QED
    BY <2>1, TextShapes DEF TextOK
<1>30. CASE Leave
  BY <1>30 DEF Leave
<1>31. CASE Fails
  BY <1>31 DEF Fails
<1>32. CASE End
  <2>1. text' = [text EXCEPT !.pending = NoPending, !.worker = FALSE, !.results = <<>>,
                          !.stage = [t \in Transfers |-> "none"]]
    BY <1>32 DEF End
  <2>2. QED
    BY <2>1, TextShapes DEF TextOK
<1>33. CASE UNCHANGED vars
  BY <1>33 DEF vars
<1> QED
  BY <1>1, <1>2, <1>3, <1>4, <1>5, <1>6, <1>7, <1>8, <1>9, <1>10, <1>11, <1>12, <1>13, <1>14, <1>15,
     <1>16, <1>17, <1>18, <1>19, <1>20, <1>21, <1>22, <1>23, <1>24, <1>25, <1>26, <1>27, <1>28,
     <1>29, <1>30, <1>31, <1>32, <1>33 DEF Next, Loop, Beside, TakeCommand, TakeMessage

\* An interval shorter than the window has fewer members.
LEMMA OfferedCount ==
  ASSUME NEW a \in Nat, NEW b \in Nat, NEW w \in Nat, a <= b, b - a < w, NEW S, S \subseteq (a + 1)..b
  PROVE  Cardinality(S) < w
<1>1. IsFiniteSet((a + 1)..b) /\ Cardinality((a + 1)..b) <= b - a /\ Cardinality((a + 1)..b) \in Nat
  <2>1. a + 1 \in Int /\ b \in Int
    OBVIOUS
  <2>2. IsFiniteSet((a + 1)..b) /\ Cardinality((a + 1)..b) = IF a + 1 > b THEN 0 ELSE b - (a + 1) + 1
    BY <2>1, FS_Interval
  <2>3. CASE a + 1 > b
    BY <2>2, <2>3
  <2>4. CASE ~(a + 1 > b)
    BY <2>2, <2>4
  <2>5. QED
    BY <2>3, <2>4
<1>2. Cardinality(S) \in Nat /\ Cardinality(S) <= Cardinality((a + 1)..b)
  BY <1>1, FS_Subset, FS_CardinalityType
<1>3. QED
  BY <1>1, <1>2

\* Every step keeps the frames in order and the window unexceeded.
LEMMA InOrderKept == ASSUME Types, InOrder, [Next]_vars PROVE InOrder'
<1> USE DEF Types
<1>1. Moves
  BY StepMoves
<1>2. /\ auth.mode \in Modes /\ asked.mode \in Modes /\ "view" \in Modes
      /\ auth.frame \in Nat /\ media.sequence \in Nat /\ media.acknowledged \in Nat /\ Window \in Nat \ {0}
      /\ Len(messages) \in Nat
  BY LenProperties, BoundsAssumption DEF PlaceOK, AuthOK, Authorities, Modes, MediaOK, MessagesOK
<1>3. CASE Captured
  <2>1. PICK m \in Messages :
           /\ messages' = Append(messages, m) /\ Len(messages) < MaxMessages /\ m.current
           /\ m.kind = "frame" => /\ m.frame = media.sequence + 1 /\ media.sequence - media.acknowledged < Window
                                  /\ media'.sequence = media.sequence + 1
           /\ m.kind # "frame" => media'.sequence = media.sequence
           /\ media'.acknowledged = media.acknowledged
    BY <1>3, Emitted
  <2>2. auth' = auth /\ link' = link
    BY <1>3 DEF Captured, Captures, Suspends, Emit, loop
  <2>0. PICK n \in Nat : n = Len(messages)
    BY <1>2
  <2>3. /\ Len(messages') = n + 1 /\ messages'[n + 1] = m
        /\ \A i \in 1..n : messages'[i] = messages[i]
    BY <1>2, <2>0, <2>1, AppendProperties DEF MessagesOK
  <2>4. \A i \in 1..n : Current(i)' <=> Current(i)
    BY <2>3 DEF Current
  <2>5. Current(n + 1)' <=> m.kind = "frame"
    <3>1. messages'[n + 1] = m /\ m.current
      BY <2>1, <2>3
    <3>2. QED
      BY <3>1 DEF Current
  <2>6. \A i \in 1..(n + 1) : i \in 1..n \/ i = n + 1
    BY <1>2, <2>0
  <2>7. media.sequence <= media'.sequence /\ media'.sequence \in Nat
    BY <1>2, <2>0, <2>1
  <2>8. ASSUME NEW i \in 1..(n + 1), Current(i)'
        PROVE  messages'[i].frame \in (auth.frame + 1) .. media'.sequence
    <3>1. CASE i \in 1..n
      <4>1. messages[i].frame \in (auth.frame + 1) .. media.sequence
        BY <2>0, <2>4, <2>8, <3>1 DEF InOrder
      <4>2. QED
        BY <1>2, <2>0, <2>3, <2>7, <3>1, <4>1
    <3>2. CASE i = n + 1
      <4>1. m.kind = "frame"
        BY <2>5, <2>8, <3>2
      <4>2. m.frame = media.sequence + 1 /\ media'.sequence = media.sequence + 1 /\ auth.frame <= media.sequence
        BY <2>1, <4>1 DEF InOrder
      <4>3. QED
        BY <1>2, <2>0, <2>3, <3>2, <4>2
    <3>3. QED
      BY <2>6, <3>1, <3>2
  <2>9. ASSUME NEW i \in 1..(n + 1), NEW j \in 1..(n + 1), Current(i)', Current(j)', i < j
        PROVE  messages'[i].frame < messages'[j].frame
    <3>1. i \in 1..n
      BY <1>2, <2>0, <2>6, <2>9
    <3>2. CASE j \in 1..n
      <4>1. messages[i].frame < messages[j].frame
        BY <2>0, <2>4, <2>9, <3>1, <3>2 DEF InOrder
      <4>2. QED
        BY <2>3, <3>1, <3>2, <4>1
    <3>3. CASE j = n + 1
      <4>1. m.kind = "frame"
        BY <2>5, <2>9, <3>3
      <4>2. m.frame = media.sequence + 1
        BY <2>1, <4>1
      <4>3. messages[i].frame \in (auth.frame + 1) .. media.sequence
        BY <2>0, <2>4, <2>9, <3>1 DEF InOrder
      <4>4. messages[i].frame < m.frame
        BY <1>2, <2>0, <4>2, <4>3
      <4>5. QED
        BY <2>3, <3>1, <3>3, <4>4
    <3>4. QED
      BY <2>6, <3>2, <3>3
  <2>10. ASSUME NEW f \in (auth.frame + 1) .. media'.sequence
         PROVE  \E i \in 1..(n + 1) : Current(i)' /\ messages'[i].frame = f
    <3>1. CASE f \in (auth.frame + 1) .. media.sequence
      <4>1. PICK i \in 1..n : Current(i) /\ messages[i].frame = f
        BY <2>0, <3>1 DEF InOrder
      <4>2. i \in 1..(n + 1) /\ Current(i)' /\ messages'[i].frame = f
        BY <1>2, <2>0, <2>3, <2>4, <4>1
      <4>3. QED
        BY <4>2
    <3>2. CASE f \notin (auth.frame + 1) .. media.sequence
      <4>1. m.kind = "frame"
        BY <2>1, <3>2
      <4>2. f = m.frame /\ n + 1 \in 1..(n + 1)
        BY <1>2, <2>0, <2>1, <3>2, <4>1
      <4>3. QED
        BY <2>3, <2>5, <4>1, <4>2
    <3>3. QED
      BY <3>1, <3>2
  <2>11. auth.frame <= media'.sequence /\ media'.sequence - media'.acknowledged <= Window
    <3>1. CASE m.kind = "frame"
      BY <1>2, <2>0, <2>1, <3>1 DEF InOrder
    <3>2. CASE m.kind # "frame"
      BY <1>2, <2>0, <2>1, <3>2 DEF InOrder
    <3>3. QED
      BY <3>1, <3>2
  <2>12. Len(messages') = n + 1 /\ media'.acknowledged = media.acknowledged
    BY <2>0, <2>1, <2>3
  <2>13. \A i \in 1..Len(messages') : Current(i)' => messages'[i].frame \in (auth'.frame + 1) .. media'.sequence
    BY <2>2, <2>8, <2>12
  <2>14. \A i, j \in 1..Len(messages') : Current(i)' /\ Current(j)' /\ i < j => messages'[i].frame < messages'[j].frame
    BY <2>9, <2>12
  <2>15. \A f \in (auth'.frame + 1) .. media'.sequence : \E i \in 1..Len(messages') : Current(i)' /\ messages'[i].frame = f
    BY <2>2, <2>10, <2>12
  <2>16. QED
    BY <2>2, <2>11, <2>12, <2>13, <2>14, <2>15 DEF InOrder
<1>4. CASE Passes
  <2>1. UNCHANGED <<auth, media>> /\ link'.refused = link.refused
    BY <1>4 DEF Passes
  <2>2. CASE messages' = messages
    BY <2>1, <2>2 DEF InOrder, Current
  <2>3. CASE messages # <<>> /\ messages' = Tail(messages) /\ ~(Head(messages).current /\ Head(messages).kind = "frame")
    <3>1. /\ Len(messages') = Len(messages) - 1 /\ Len(messages) >= 1
          /\ \A i \in 1..Len(messages') : messages'[i] = messages[i + 1]
          /\ Head(messages) = messages[1]
      BY <1>2, <2>3, TailTypes DEF MessagesOK
    <3>2. ~Current(1)
      BY <2>3, <3>1 DEF Current
    <3>3. \A i \in 1..Len(messages') : Current(i)' <=> Current(i + 1)
      BY <3>1 DEF Current
    <3>4. \A f \in (auth'.frame + 1) .. media'.sequence :
            \E i \in 1..Len(messages') : Current(i)' /\ messages'[i].frame = f
      <4> SUFFICES ASSUME NEW f \in (auth.frame + 1) .. media.sequence
                   PROVE  \E i \in 1..Len(messages') : Current(i)' /\ messages'[i].frame = f
        BY <2>1
      <4>1. PICK i \in 1..Len(messages) : Current(i) /\ messages[i].frame = f
        BY DEF InOrder
      <4>2. i # 1 /\ i - 1 \in 1..Len(messages')
        BY <1>2, <3>1, <3>2, <4>1
      <4>3. (i - 1) + 1 = i
        BY <4>1
      <4>4. Current(i - 1)' /\ messages'[i - 1].frame = f
        BY <3>1, <3>3, <4>1, <4>2, <4>3
      <4>5. QED
        BY <4>2, <4>4
    <3>5. \A i \in 1..Len(messages') : i + 1 \in 1..Len(messages)
      BY <1>2, <3>1
    <3>6. \A i \in 1..Len(messages') : Current(i)' => messages'[i].frame \in (auth'.frame + 1) .. media'.sequence
      BY <2>1, <3>1, <3>3, <3>5 DEF InOrder
    <3>7. \A i, j \in 1..Len(messages') : Current(i)' /\ Current(j)' /\ i < j => messages'[i].frame < messages'[j].frame
      <4> SUFFICES ASSUME NEW i \in 1..Len(messages'), NEW j \in 1..Len(messages'), Current(i)', Current(j)', i < j
                   PROVE  messages'[i].frame < messages'[j].frame
        OBVIOUS
      <4>1. i + 1 \in 1..Len(messages) /\ j + 1 \in 1..Len(messages) /\ i + 1 < j + 1
        BY <1>2, <3>1
      <4>2. Current(i + 1) /\ Current(j + 1)
        BY <3>3
      <4>3. messages[i + 1].frame < messages[j + 1].frame
        BY <4>1, <4>2 DEF InOrder
      <4>4. QED
        BY <3>1, <4>3
    <3>8. QED
      BY <2>1, <3>4, <3>6, <3>7 DEF InOrder
  <2>4. QED
    BY <1>4, <2>2, <2>3 DEF Passes
<1>5. ASSUME NEW f \in 0..MaxFrames, Offers(f) PROVE InOrder'
  <2>1. /\ Len(messages') = Len(messages) - 1 /\ Len(messages) >= 1
        /\ \A i \in 1..Len(messages') : messages'[i] = messages[i + 1]
        /\ Head(messages) = messages[1] /\ media' = media
    BY <1>2, <1>5, TailTypes DEF Offers, MessagesOK
  <2>2. Current(1) /\ messages[1].frame = f
    BY <1>5, <2>1 DEF Offers, Current
  <2>3. \A i \in 1..Len(messages') : (Current(i)' <=> Current(i + 1)) /\ i + 1 \in 2..Len(messages)
    BY <1>2, <2>1 DEF Current
  <2>4. f \in (auth.frame + 1)..media.sequence
    BY <1>2, <2>1, <2>2 DEF InOrder
  <2>5. f = auth.frame + 1
    <3>1. auth.frame + 1 \in (auth.frame + 1)..media.sequence
      BY <1>2, <2>4
    <3>2. PICK i \in 1..Len(messages) : Current(i) /\ messages[i].frame = auth.frame + 1
      BY <3>1 DEF InOrder
    <3>3. i = 1 \/ 1 < i
      OBVIOUS
    <3>4. 1 < i => f < auth.frame + 1
      BY <1>2, <2>1, <2>2, <3>2 DEF InOrder
    <3>5. QED
      BY <1>2, <2>2, <2>4, <3>2, <3>3, <3>4
  <2>6. Accepts(f)
    <3>1. media.acknowledged <= auth.frame /\ auth.frame - media.acknowledged < Window
      BY <1>2, <2>4 DEF InOrder
    <3>2. Cardinality(auth.offered) < Window
      BY <1>2, <3>1, OfferedCount DEF InOrder
    <3>3. QED
      BY <1>5, <2>5, <3>2 DEF Accepts, Offers
  <2>7. auth'.frame = f /\ auth'.offered = auth.offered \cup {f} /\ ~link'.refused
    BY <1>5, <2>6 DEF Offers, AuthOK, Authorities
  <2>8. auth'.offered \subseteq (media'.acknowledged + 1)..auth'.frame
    BY <1>2, <2>1, <2>5, <2>7 DEF InOrder
  <2>9. \A i \in 1..Len(messages') : Current(i)' => messages'[i].frame \in (auth'.frame + 1) .. media'.sequence
    <3> SUFFICES ASSUME NEW i \in 1..Len(messages'), Current(i)'
                 PROVE  messages'[i].frame \in (auth'.frame + 1) .. media'.sequence
      OBVIOUS
    <3>1. Current(i + 1) /\ i + 1 \in 2..Len(messages) /\ messages'[i] = messages[i + 1]
      BY <2>1, <2>3
    <3>2. 1 \in 1..Len(messages) /\ i + 1 \in 1..Len(messages) /\ 1 < i + 1
      BY <1>2, <3>1
    <3>3. messages[1].frame < messages[i + 1].frame /\ messages[i + 1].frame \in (auth.frame + 1)..media.sequence
      BY <2>2, <3>1, <3>2 DEF InOrder
    <3>4. QED
      BY <1>2, <2>1, <2>2, <2>4, <2>7, <3>1, <3>3
  <2>10. \A i, j \in 1..Len(messages') : Current(i)' /\ Current(j)' /\ i < j => messages'[i].frame < messages'[j].frame
    <3> SUFFICES ASSUME NEW i \in 1..Len(messages'), NEW j \in 1..Len(messages'), Current(i)', Current(j)', i < j
                 PROVE  messages'[i].frame < messages'[j].frame
      OBVIOUS
    <3>1. i + 1 \in 1..Len(messages) /\ j + 1 \in 1..Len(messages) /\ i + 1 < j + 1
      BY <1>2, <2>1
    <3>2. Current(i + 1) /\ Current(j + 1)
      BY <2>3
    <3>3. messages[i + 1].frame < messages[j + 1].frame
      BY <3>1, <3>2 DEF InOrder
    <3>4. QED
      BY <2>1, <3>3
  <2>11. \A g \in (auth'.frame + 1) .. media'.sequence :
           \E i \in 1..Len(messages') : Current(i)' /\ messages'[i].frame = g
    <3> SUFFICES ASSUME NEW g \in (f + 1) .. media.sequence
                 PROVE  \E i \in 1..Len(messages') : Current(i)' /\ messages'[i].frame = g
      BY <2>1, <2>7
    <3>1. g \in (auth.frame + 1)..media.sequence /\ g # f
      BY <1>2, <2>5
    <3>2. PICK i \in 1..Len(messages) : Current(i) /\ messages[i].frame = g
      BY <3>1 DEF InOrder
    <3>3. i # 1 /\ i - 1 \in 1..Len(messages')
      BY <1>2, <2>1, <2>2, <3>1, <3>2
    <3>4. (i - 1) + 1 = i
      BY <3>2
    <3>5. Current(i - 1)' /\ messages'[i - 1].frame = g
      BY <2>1, <2>3, <3>2, <3>3, <3>4
    <3>6. QED
      BY <3>3, <3>5
  <2>12. auth'.frame <= media'.sequence /\ media'.acknowledged <= auth'.frame
         /\ media'.sequence - media'.acknowledged <= Window
    BY <1>2, <2>1, <2>4, <2>5, <2>7 DEF InOrder
  <2>13. QED
    BY <2>7, <2>8, <2>9, <2>10, <2>11, <2>12 DEF InOrder
<1>6. ASSUME NEW f \in 1..MaxFrames, Paints(f) PROVE InOrder'
  <2>1. /\ auth'.frame = auth.frame /\ auth'.offered = {g \in auth.offered : g > f}
        /\ media'.sequence = media.sequence /\ media'.acknowledged = f
        /\ UNCHANGED <<messages, link>> /\ f \in auth.offered
    BY <1>6 DEF Paints, Acknowledge, AuthOK, Authorities, MediaOK
  <2>2. f \in (media.acknowledged + 1)..auth.frame
    BY <2>1 DEF InOrder
  <2>3. auth'.offered \subseteq (f + 1)..auth.frame
    BY <1>2, <2>1 DEF InOrder
  <2>4. media.sequence - f <= Window /\ f <= auth.frame
    BY <1>2, <2>2 DEF InOrder
  <2>5. QED
    BY <2>1, <2>3, <2>4 DEF InOrder, Current
<1>7. ASSUME NEW m \in Modes, Renews(m) PROVE InOrder'
  <2>1. auth'.frame = 0 /\ auth'.offered = {} /\ media'.sequence = 0 /\ media'.acknowledged = 0
        /\ link'.refused = link.refused
    BY <1>7, NewAuthorityType DEF Renews, NewMedia
  <2>2. \A i \in 1..Len(messages') : ~Current(i)'
    BY <1>7 DEF Renews, Stale, Current
  <2>3. QED
    BY <1>2, <2>1, <2>2 DEF InOrder
<1>8. QED
  BY <1>1, <1>2, <1>3, <1>4, <1>5, <1>6, <1>7 DEF Moves

\* What a transition does, whatever it changes to
LEMMA TransitionFacts ==
  ASSUME TextOK, NEW s, NEW m, Transition(s, m)
  PROVE  /\ auth'.mode = m /\ auth'.painted = 0 /\ held' = {}
         /\ text'.pending = NoPending /\ ~text'.pending.current /\ text'.pending.transfer = None
         /\ text'.results = text.results /\ text'.stage = text.stage
  BY DEF Transition, NewAuthority, TextOK, Texts, PendingTexts, NoPending

\* What is held or pending was painted.
LEMMA ShownKept ==
  ASSUME PlaceOK, AuthOK, TextOK, Shown, [Next]_vars
  PROVE  Shown'
<1> USE DEF PlaceOK, Shown, Painted, AuthOK, Authorities, TextOK, Texts, PendingTexts, NoPending,
            NewAuthority, Texting, loop, channels
<1>1. CASE Sends
  BY <1>1 DEF Sends
<1>2. CASE SendsRelease
  BY <1>2 DEF SendsRelease
<1>3. CASE Closes
  BY <1>3 DEF Closes
<1>4. CASE SeatChanges
  BY <1>4 DEF SeatChanges
<1>5. CASE OthersClaim
  BY <1>5 DEF OthersClaim
<1>6. CASE Revoke
  BY <1>6 DEF Revoke, Unclaimed
<1>7. ASSUME NEW t \in Transfers, Prepares(t) PROVE Shown'
  BY <1>7 DEF Prepares
<1>8. ASSUME NEW t \in Transfers, Completes(t) PROVE Shown'
  BY <1>8 DEF Completes
<1>9. CASE Captures
  BY <1>9 DEF Captures, Emit
<1>10. CASE Suspends
  BY <1>10 DEF Suspends, Emit
<1>11. CASE TakeRelease
  <2>1. \/ \E s \in Seats \cup {None} : Transition(s, auth.mode) /\ pc = "select" /\ pc' = pc /\ UNCHANGED <<controller, life, asked>>
        \/ (UNCHANGED <<auth, text, controller, life, asked>> /\ pc' \in {pc, "select", "return"} /\ pc = "select" /\ held' \in {{}, held})
    BY <1>11 DEF TakeRelease, Requeued
  <2>2. CASE \E s \in Seats \cup {None} : Transition(s, auth.mode) /\ pc = "select" /\ pc' = pc /\ UNCHANGED <<controller, life, asked>>
    BY <2>2, TransitionFacts
  <2>3. CASE (UNCHANGED <<auth, text, controller, life, asked>> /\ pc' \in {pc, "select", "return"} /\ pc = "select" /\ held' \in {{}, held})
    BY <1>11, <2>3
  <2>4. QED
    BY <2>1, <2>2, <2>3
<1>12. CASE TakeResult
  <2>1. text'.pending \in {text.pending, NoPending}
    <3> DEFINE r == text.results[1]
    <3>1. r \in Results
      BY <1>12, TextFields, ResultTypes DEF TakeResult
    <3>2. Received(r) \in Texts /\ Received(r).pending = text.pending
      BY <3>1, ReceivedType
    <3>3. Prepared(r) \/ Settled(r) \/ text' = Received(r)
      BY <1>12 DEF TakeResult
    <3> HIDE DEF r
    <3>4. CASE Prepared(r)
      BY <3>2, <3>4 DEF Prepared
    <3>5. CASE Settled(r)
      BY <3>2, <3>5 DEF Settled
    <3>6. QED
      BY <3>2, <3>3, <3>4, <3>5
  <2>2. /\ UNCHANGED auth /\ pc = "select"
        /\ held' # {} => held # {}
        /\ pc' = "check" => Texting /\ text.pending.current
        /\ pc' \in {"select", "check", "return"}
    <3> DEFINE r == text.results[1]
    <3>0. r \in Results
      BY <1>12, TextFields, ResultTypes DEF TakeResult
    <3>1. UNCHANGED auth /\ pc = "select"
      BY <1>12 DEF TakeResult
    <3>2. \/ (OfPending(r) /\ Prepared(r)) \/ Settled(r) \/ UNCHANGED <<pc, held>>
      BY <1>12 DEF TakeResult
    <3> HIDE DEF r
    <3>3. CASE OfPending(r) /\ Prepared(r)
      <4>1. text.pending.current /\ text.pending.transfer \in Transfers
        BY <3>0, <3>3 DEF OfPending, Results
      <4>2. Texting
        BY <4>1, SeatsAssumption
      <4>3. QED
        BY <3>1, <3>3, <4>1, <4>2 DEF Prepared
    <3>4. CASE Settled(r)
      BY <3>1, <3>4 DEF Settled, Physical
    <3>5. QED
      BY <3>1, <3>2, <3>3, <3>4
  <2>3. QED
    BY <2>1, <2>2
<1>13. CASE Check
  BY <1>13 DEF Check
<1>14. CASE Stroke
  BY <1>14 DEF Stroke, Physical
<1>15. CASE Answered
  BY <1>15 DEF Answered, Command
<1>16. CASE UnlockCancel
  BY <1>16 DEF UnlockCancel, Valid, Command, Transition, Requeued
<1>17. CASE Disconnect
  BY <1>17 DEF Disconnect, Command
<1>18. ASSUME NEW m \in {"view", "control"}, Connect(m) PROVE Shown'
  BY <1>18 DEF Connect, Command, Claim, Unclaimed
<1>19. CASE Enter
  BY <1>19 DEF Enter, Transition, Requeued
<1>20. ASSUME NEW f \in 1..MaxFrames, FrameAck(f) PROVE Shown'
  BY <1>20 DEF FrameAck, Valid, Command, Acknowledge
<1>21. CASE InputLost
  BY <1>21 DEF InputLost, Valid, Command
<1>22. CASE InputElsewhere
  BY <1>22 DEF InputElsewhere, Valid, Command, Transition, Requeued
<1>23. CASE Key
  BY <1>23 DEF Key, InputHere, Valid, Command, Admitted
<1>24. CASE Text
  BY <1>24 DEF Text, InputHere, Valid, Command, Admitted
<1>25. CASE Press
  BY <1>25 DEF Press, Physical
<1>26. CASE WatchSeat
  <2>1. \/ \E s \in Seats \cup {None} : Transition(s, auth.mode) /\ pc = "select" /\ pc' = pc /\ UNCHANGED <<controller, life, asked>>
        \/ (UNCHANGED <<auth, text, controller, life, asked>> /\ pc' \in {pc, "select", "return"} /\ pc = "select" /\ held' \in {{}, held})
    BY <1>26 DEF WatchSeat, Requeued
  <2>2. CASE \E s \in Seats \cup {None} : Transition(s, auth.mode) /\ pc = "select" /\ pc' = pc /\ UNCHANGED <<controller, life, asked>>
    BY <2>2, TransitionFacts
  <2>3. CASE (UNCHANGED <<auth, text, controller, life, asked>> /\ pc' \in {pc, "select", "return"} /\ pc = "select" /\ held' \in {{}, held})
    BY <1>26, <2>3
  <2>4. QED
    BY <2>1, <2>2, <2>3
<1>27. CASE Inactive
  BY <1>27 DEF Inactive, Message, Requeued
<1>28. CASE Displays
  <2>1. \/ \E s \in Seats \cup {None} : Transition(s, auth.mode) /\ pc = "select" /\ pc' = pc /\ UNCHANGED <<controller, life, asked>>
        \/ (UNCHANGED <<auth, text, controller, life, asked>> /\ pc' \in {pc, "select", "return"} /\ pc = "select" /\ held' \in {{}, held})
    BY <1>28 DEF Displays, Message, Requeued
  <2>2. CASE \E s \in Seats \cup {None} : Transition(s, auth.mode) /\ pc = "select" /\ pc' = pc /\ UNCHANGED <<controller, life, asked>>
    BY <2>2, TransitionFacts
  <2>3. CASE (UNCHANGED <<auth, text, controller, life, asked>> /\ pc' \in {pc, "select", "return"} /\ pc = "select" /\ held' \in {{}, held})
    BY <1>28, <2>3
  <2>4. QED
    BY <2>1, <2>2, <2>3
<1>29. CASE Frame
  <2>1. \/ \E s \in Seats \cup {None} : Transition(s, auth.mode)
        \/ auth'.mode = auth.mode /\ auth'.painted = auth.painted /\ UNCHANGED <<text, held>>
    BY <1>29 DEF Frame, Message
  <2>2. pc = "select" /\ pc' \in {"select", "return"} /\ UNCHANGED <<controller, life, asked>>
    BY <1>29 DEF Frame, Message
  <2>3. CASE \E s \in Seats \cup {None} : Transition(s, auth.mode)
    BY <2>2, <2>3, TransitionFacts
  <2>4. CASE auth'.mode = auth.mode /\ auth'.painted = auth.painted /\ UNCHANGED <<text, held>>
    BY <1>29, <2>2, <2>4 DEF Frame, Message
  <2>5. QED
    BY <2>1, <2>3, <2>4
<1>30. CASE Leave
  BY <1>30 DEF Leave
<1>31. CASE Fails
  BY <1>31 DEF Fails
<1>32. CASE End
  BY <1>32 DEF End, Unclaimed
<1>33. CASE UNCHANGED vars
  BY <1>33 DEF vars
<1> QED
  BY <1>1, <1>2, <1>3, <1>4, <1>5, <1>6, <1>7, <1>8, <1>9, <1>10, <1>11, <1>12, <1>13, <1>14, <1>15,
     <1>16, <1>17, <1>18, <1>19, <1>20, <1>21, <1>22, <1>23, <1>24, <1>25, <1>26, <1>27, <1>28,
     <1>29, <1>30, <1>31, <1>32, <1>33 DEF Next, Loop, Beside, TakeCommand, TakeMessage

\* A mode of control was claimed.
LEMMA ClaimedKept ==
  ASSUME PlaceOK, AuthOK, TextOK, Shown, Chording, Claimed, [Next]_vars
  PROVE  Claimed'
<1> USE DEF Claimed, NewAuthority, PlaceOK, AuthOK, Authorities, loop, channels
<1>1. CASE Sends
  BY <1>1 DEF Sends
<1>2. CASE SendsRelease
  BY <1>2 DEF SendsRelease
<1>3. CASE Closes
  BY <1>3 DEF Closes
<1>4. CASE SeatChanges
  BY <1>4 DEF SeatChanges
<1>5. CASE OthersClaim
  BY <1>5, SeatsAssumption DEF OthersClaim
<1>6. CASE Revoke
  BY <1>6 DEF Revoke, Unclaimed
<1>7. ASSUME NEW t \in Transfers, Prepares(t) PROVE Claimed'
  BY <1>7 DEF Prepares
<1>8. ASSUME NEW t \in Transfers, Completes(t) PROVE Claimed'
  BY <1>8 DEF Completes
<1>9. CASE Captures
  BY <1>9 DEF Captures, Emit
<1>10. CASE Suspends
  BY <1>10 DEF Suspends, Emit
<1>11. CASE TakeRelease
  <2>1. \/ \E s \in Seats \cup {None} : Transition(s, auth.mode) /\ pc = "select" /\ pc' = pc /\ UNCHANGED <<controller, life, asked>>
        \/ (UNCHANGED <<auth, text, controller, life, asked>> /\ pc' \in {pc, "select", "return"} /\ pc = "select" /\ held' \in {{}, held})
    BY <1>11 DEF TakeRelease, Requeued
  <2>2. CASE \E s \in Seats \cup {None} : Transition(s, auth.mode) /\ pc = "select" /\ pc' = pc /\ UNCHANGED <<controller, life, asked>>
    BY <2>2, TransitionFacts
  <2>3. CASE (UNCHANGED <<auth, text, controller, life, asked>> /\ pc' \in {pc, "select", "return"} /\ pc = "select" /\ held' \in {{}, held})
    BY <1>11, <2>3
  <2>4. QED
    BY <2>1, <2>2, <2>3
<1>12. CASE TakeResult
  BY <1>12 DEF TakeResult, OfPending, Prepared, Settled, Received, Physical
<1>13. CASE Check
  BY <1>13 DEF Check
<1>14. CASE Stroke
  <2>1. UNCHANGED <<auth, life, controller, asked>> /\ pc = "stroke" /\ pc' # "enter"
    BY <1>14, StrokeSteps DEF Stroke, Chording
  <2>2. QED
    BY <2>1 DEF Shown, Painted
<1>15. CASE Answered
  BY <1>15 DEF Answered, Command
<1>16. CASE UnlockCancel
  BY <1>16 DEF UnlockCancel, Valid, Command, Transition, Requeued
<1>17. CASE Disconnect
  BY <1>17 DEF Disconnect, Command
<1>18. ASSUME NEW m \in {"view", "control"}, Connect(m) PROVE Claimed'
  BY <1>18 DEF Connect, Command, Claim, Unclaimed
<1>19. CASE Enter
  BY <1>19 DEF Enter, Transition, Requeued
<1>20. ASSUME NEW f \in 1..MaxFrames, FrameAck(f) PROVE Claimed'
  BY <1>20 DEF FrameAck, Valid, Command, Acknowledge
<1>21. CASE InputLost
  BY <1>21 DEF InputLost, Valid, Command
<1>22. CASE InputElsewhere
  BY <1>22 DEF InputElsewhere, Valid, Command, Transition, Requeued
<1>23. CASE Key
  BY <1>23 DEF Key, InputHere, Valid, Command, Admitted
<1>24. CASE Text
  BY <1>24 DEF Text, InputHere, Valid, Command, Admitted
<1>25. CASE Press
  <2>1. UNCHANGED <<auth, life, controller, asked>> /\ pc = "press" /\ pc' # "enter"
    BY <1>25 DEF Press, Physical
  <2>2. QED
    BY <2>1 DEF Shown, Painted
<1>26. CASE WatchSeat
  <2>1. \/ \E s \in Seats \cup {None} : Transition(s, auth.mode) /\ pc = "select" /\ pc' = pc /\ UNCHANGED <<controller, life, asked>>
        \/ (UNCHANGED <<auth, text, controller, life, asked>> /\ pc' \in {pc, "select", "return"} /\ pc = "select" /\ held' \in {{}, held})
    BY <1>26 DEF WatchSeat, Requeued
  <2>2. CASE \E s \in Seats \cup {None} : Transition(s, auth.mode) /\ pc = "select" /\ pc' = pc /\ UNCHANGED <<controller, life, asked>>
    BY <2>2, TransitionFacts
  <2>3. CASE (UNCHANGED <<auth, text, controller, life, asked>> /\ pc' \in {pc, "select", "return"} /\ pc = "select" /\ held' \in {{}, held})
    BY <1>26, <2>3
  <2>4. QED
    BY <2>1, <2>2, <2>3
<1>27. CASE Inactive
  BY <1>27 DEF Inactive, Message, Requeued
<1>28. CASE Displays
  <2>1. \/ \E s \in Seats \cup {None} : Transition(s, auth.mode) /\ pc = "select" /\ pc' = pc /\ UNCHANGED <<controller, life, asked>>
        \/ (UNCHANGED <<auth, text, controller, life, asked>> /\ pc' \in {pc, "select", "return"} /\ pc = "select" /\ held' \in {{}, held})
    BY <1>28 DEF Displays, Message, Requeued
  <2>2. CASE \E s \in Seats \cup {None} : Transition(s, auth.mode) /\ pc = "select" /\ pc' = pc /\ UNCHANGED <<controller, life, asked>>
    BY <2>2, TransitionFacts
  <2>3. CASE (UNCHANGED <<auth, text, controller, life, asked>> /\ pc' \in {pc, "select", "return"} /\ pc = "select" /\ held' \in {{}, held})
    BY <1>28, <2>3
  <2>4. QED
    BY <2>1, <2>2, <2>3
<1>29. CASE Frame
  <2>1. \/ \E s \in Seats \cup {None} : Transition(s, auth.mode)
        \/ auth'.mode = auth.mode /\ auth'.painted = auth.painted /\ UNCHANGED <<text, held>>
    BY <1>29 DEF Frame, Message
  <2>2. pc = "select" /\ pc' \in {"select", "return"} /\ UNCHANGED <<controller, life, asked>>
    BY <1>29 DEF Frame, Message
  <2>3. CASE \E s \in Seats \cup {None} : Transition(s, auth.mode)
    BY <2>2, <2>3, TransitionFacts
  <2>4. CASE auth'.mode = auth.mode /\ auth'.painted = auth.painted /\ UNCHANGED <<text, held>>
    BY <1>29, <2>2, <2>4 DEF Frame, Message
  <2>5. QED
    BY <2>1, <2>3, <2>4
<1>30. CASE Leave
  BY <1>30 DEF Leave
<1>31. CASE Fails
  BY <1>31 DEF Fails
<1>32. CASE End
  BY <1>32 DEF End, Unclaimed
<1>33. CASE UNCHANGED vars
  BY <1>33 DEF vars
<1> QED
  BY <1>1, <1>2, <1>3, <1>4, <1>5, <1>6, <1>7, <1>8, <1>9, <1>10, <1>11, <1>12, <1>13, <1>14, <1>15,
     <1>16, <1>17, <1>18, <1>19, <1>20, <1>21, <1>22, <1>23, <1>24, <1>25, <1>26, <1>27, <1>28,
     <1>29, <1>30, <1>31, <1>32, <1>33 DEF Next, Loop, Beside, TakeCommand, TakeMessage

\* A command is handled until it is done.
LEMMA HandlingKept ==
  ASSUME PlaceOK, ChannelsOK, Chording, Handling, [Next]_vars
  PROVE  Handling'
<1> USE DEF Handling, loop, channels
<1>1. CASE Sends
  BY <1>1 DEF Sends
<1>2. CASE SendsRelease
  BY <1>2 DEF SendsRelease
<1>3. CASE Closes
  BY <1>3 DEF Closes
<1>4. CASE SeatChanges
  BY <1>4 DEF SeatChanges
<1>5. CASE OthersClaim
  BY <1>5 DEF OthersClaim
<1>6. CASE Revoke
  BY <1>6 DEF Revoke, Unclaimed
<1>7. ASSUME NEW t \in Transfers, Prepares(t) PROVE Handling'
  BY <1>7 DEF Prepares
<1>8. ASSUME NEW t \in Transfers, Completes(t) PROVE Handling'
  BY <1>8 DEF Completes
<1>9. CASE Captures
  BY <1>9 DEF Captures, Emit
<1>10. CASE Suspends
  BY <1>10 DEF Suspends, Emit
<1>11. CASE TakeRelease
  BY <1>11 DEF TakeRelease, Transition, Requeued
<1>12. CASE TakeResult
  BY <1>12 DEF TakeResult, OfPending, Prepared, Settled, Received, Physical
<1>13. CASE Check
  BY <1>13 DEF Check
<1>14. CASE Stroke
  BY <1>14, StrokeSteps DEF Stroke, Chording
<1>15. CASE Answered
  BY <1>15 DEF Answered, Command
<1>16. CASE UnlockCancel
  BY <1>16 DEF UnlockCancel, Valid, Command, Transition, Requeued
<1>17. CASE Disconnect
  BY <1>17 DEF Disconnect, Command
<1>18. ASSUME NEW m \in {"view", "control"}, Connect(m) PROVE Handling'
  BY <1>18 DEF Connect, Command, Claim, Unclaimed
<1>19. CASE Enter
  BY <1>19 DEF Enter, Transition, Requeued
<1>20. ASSUME NEW f \in 1..MaxFrames, FrameAck(f) PROVE Handling'
  BY <1>20 DEF FrameAck, Valid, Command, Acknowledge
<1>21. CASE InputLost
  BY <1>21 DEF InputLost, Valid, Command
<1>22. CASE InputElsewhere
  BY <1>22 DEF InputElsewhere, Valid, Command, Transition, Requeued
<1>23. CASE Key
  BY <1>23 DEF Key, InputHere, Valid, Command, Admitted
<1>24. CASE Text
  BY <1>24 DEF Text, InputHere, Valid, Command, Admitted
<1>25. CASE Press
  BY <1>25 DEF Press, Physical
<1>26. CASE WatchSeat
  BY <1>26 DEF WatchSeat, Transition, Requeued
<1>27. CASE Inactive
  BY <1>27 DEF Inactive, Message, Requeued
<1>28. CASE Displays
  BY <1>28 DEF Displays, Message, Transition, Requeued
<1>29. CASE Frame
  BY <1>29 DEF Frame, Message, Accepts, Transition, Requeued
<1>30. CASE Leave
  BY <1>30 DEF Leave
<1>31. CASE Fails
  BY <1>31 DEF Fails
<1>32. CASE End
  BY <1>32 DEF End, Unclaimed
<1>33. CASE UNCHANGED vars
  BY <1>33 DEF vars
<1> QED
  BY <1>1, <1>2, <1>3, <1>4, <1>5, <1>6, <1>7, <1>8, <1>9, <1>10, <1>11, <1>12, <1>13, <1>14, <1>15,
     <1>16, <1>17, <1>18, <1>19, <1>20, <1>21, <1>22, <1>23, <1>24, <1>25, <1>26, <1>27, <1>28,
     <1>29, <1>30, <1>31, <1>32, <1>33 DEF Next, Loop, Beside, TakeCommand, TakeMessage

\* What a result of a transfer does to the texts
ResultMoves(r) ==
  \/ /\ OfPending(r) /\ r.prepared /\ text'.pending = text.pending
     /\ \/ pc' = "check" /\ stroke' = 1 /\ held = {} /\ held' = held
        \/ UNCHANGED <<pc, stroke, held>>
  \/ /\ OfPending(r) /\ ~r.prepared /\ UNCHANGED stroke
     /\ \/ /\ pc' = "select" /\ text'.pending = NoPending
           /\ held' = IF text.pending.controlHeld THEN held \ {"ControlLeft"} ELSE held
        \/ pc' = "return" /\ held' = held /\ text'.pending = text.pending
  \/ ~OfPending(r) /\ text'.pending = text.pending /\ UNCHANGED <<pc, stroke, held>>

\* A result that is taken makes one of these moves.
LEMMA ResultSteps ==
  ASSUME TextOK, TakeResult
  PROVE  /\ pc = "select" /\ text.results # <<>> /\ text.results[1] \in Results
         /\ text'.results = <<>>
         /\ text'.stage = [text.stage EXCEPT ![text.results[1].transfer] = IF text.results[1].prepared THEN @ ELSE "none"]
         /\ ResultMoves(text.results[1])
<1> DEFINE r == text.results[1]
<1>1. pc = "select" /\ text.results # <<>> /\ r \in Results
  BY TextFields, ResultTypes DEF TakeResult, TextOK
<1>2. /\ Received(r) \in Texts /\ Received(r).pending = text.pending /\ Received(r).results = <<>>
      /\ Received(r).stage = [text.stage EXCEPT ![r.transfer] = IF r.prepared THEN @ ELSE "none"]
  BY <1>1, ReceivedType DEF TextOK
<1>3. \/ OfPending(r) /\ r.prepared /\ Prepared(r)
      \/ OfPending(r) /\ ~r.prepared /\ Settled(r)
      \/ ~OfPending(r) /\ text' = Received(r) /\ UNCHANGED <<pc, stroke, held>>
  BY DEF TakeResult
<1> DEFINE Stage == [text.stage EXCEPT ![r.transfer] = IF r.prepared THEN @ ELSE "none"]
<1> DEFINE Taken == text'.results = <<>> /\ text'.stage = Stage
<1> HIDE DEF r, Stage
<1>4. ASSUME OfPending(r) /\ r.prepared /\ Prepared(r) PROVE Taken /\ ResultMoves(r)
  <2>1. text' = Received(r) \/ text' = [Received(r) EXCEPT !.worker = FALSE]
    BY <1>4 DEF Prepared
  <2>2. Taken /\ text'.pending = text.pending
    BY <1>2, <2>1 DEF Texts, Stage
  <2>3. \/ pc' = "check" /\ stroke' = 1 /\ held = {} /\ held' = held
        \/ UNCHANGED <<pc, stroke, held>>
    BY <1>4 DEF Prepared
  <2>4. QED
    BY <1>4, <2>2, <2>3 DEF ResultMoves
<1>5. ASSUME OfPending(r) /\ ~r.prepared /\ Settled(r) PROVE Taken /\ ResultMoves(r)
  <2>1. IF text.pending.controlHeld THEN Physical("ControlLeft", FALSE, "select") ELSE UNCHANGED <<held, pc>>
    BY <1>5 DEF Settled
  <2>2. /\ text' = IF pc' = "return" THEN Received(r)
                   ELSE [Received(r) EXCEPT !.pending = NoPending, !.worker = Received(r).worker /\ r.ok]
        /\ UNCHANGED stroke
    BY <1>5 DEF Settled
  <2>3. CASE pc' = "return"
    <3>1. Taken /\ text'.pending = text.pending
      BY <1>2, <2>2, <2>3 DEF Stage
    <3>2. held' = held
      BY <1>1, <2>1, <2>3 DEF Physical
    <3>3. QED
      BY <1>5, <2>2, <2>3, <3>1, <3>2 DEF ResultMoves
  <2>4. CASE pc' # "return"
    <3>1. Taken /\ text'.pending = NoPending
      BY <1>2, <2>2, <2>4 DEF Texts, Stage
    <3>2. pc' = "select" /\ held' = IF text.pending.controlHeld THEN held \ {"ControlLeft"} ELSE held
      BY <1>1, <2>1, <2>4 DEF Physical
    <3>3. QED
      BY <1>5, <2>2, <3>1, <3>2 DEF ResultMoves
  <2>5. QED
    BY <2>3, <2>4
<1>6. ASSUME ~OfPending(r) /\ text' = Received(r) /\ UNCHANGED <<pc, stroke, held>> PROVE Taken /\ ResultMoves(r)
  <2>1. Taken /\ text'.pending = text.pending
    BY <1>2, <1>6 DEF Stage
  <2>2. QED
    BY <1>6, <2>1 DEF ResultMoves
<1>7. Taken /\ ResultMoves(r)
  BY <1>3, <1>4, <1>5, <1>6
<1>8. QED
  BY <1>1, <1>7 DEF r, Stage

\* The chord and the viewer's keys keep apart.
LEMMA ChordingKept ==
  ASSUME HeldOK, PlaceOK, AuthOK, TextOK, Chording, [Next]_vars
  PROVE  Chording'
<1> USE DEF Chording, Chord, Keys, TextOK, Texts, PendingTexts, NoPending, Texting, loop, channels
<1>1. CASE Sends
  BY <1>1 DEF Sends
<1>2. CASE SendsRelease
  BY <1>2 DEF SendsRelease
<1>3. CASE Closes
  BY <1>3 DEF Closes
<1>4. CASE SeatChanges
  BY <1>4 DEF SeatChanges
<1>5. CASE OthersClaim
  BY <1>5 DEF OthersClaim
<1>6. CASE Revoke
  BY <1>6 DEF Revoke, Unclaimed
<1>7. ASSUME NEW t \in Transfers, Prepares(t) PROVE Chording'
  BY <1>7 DEF Prepares
<1>8. ASSUME NEW t \in Transfers, Completes(t) PROVE Chording'
  BY <1>8 DEF Completes
<1>9. CASE Captures
  BY <1>9 DEF Captures, Emit
<1>10. CASE Suspends
  BY <1>10 DEF Suspends, Emit
<1>11. CASE TakeRelease
  <2>1. \/ \E s \in Seats \cup {None} : Transition(s, auth.mode) /\ pc = "select" /\ pc' = pc
        \/ (UNCHANGED <<text, stroke>> /\ pc = "select" /\ pc' \in {"select", "return"} /\ held' \in {{}, held})
    BY <1>11 DEF TakeRelease, Requeued, PlaceOK, AuthOK, Authorities
  <2>2. CASE \E s \in Seats \cup {None} : Transition(s, auth.mode) /\ pc = "select" /\ pc' = pc
    BY <2>2, TransitionFacts
  <2>3. CASE UNCHANGED <<text, stroke>> /\ pc = "select" /\ pc' \in {"select", "return"} /\ held' \in {{}, held}
    BY <2>3
  <2>4. QED
    BY <2>1, <2>2, <2>3
<1>12. CASE TakeResult
  <2>1. pc = "select" /\ ResultMoves(text.results[1]) /\ text.results[1] \in Results
    BY <1>12, ResultSteps
  <2>2. OfPending(text.results[1]) => Texting /\ text.pending.current
    BY <2>1, SeatsAssumption DEF OfPending, Results
  <2>3. QED
    BY <2>1, <2>2 DEF ResultMoves
<1>13. CASE Check
  BY <1>13 DEF Check
<1>14. CASE Stroke
  <2>1. pc = "stroke" /\ stroke \in 1..3 /\ Texting /\ text.pending.current
    BY <1>14 DEF Stroke
  <2>2. /\ pc' \in {IF stroke = 3 THEN "select" ELSE "check", "return"}
        /\ stroke' = IF pc' = "check" THEN stroke + 1 ELSE 0
        /\ text' = [text EXCEPT !.pending.controlHeld = text.pending.controlHeld \/ pc' # "return"]
    BY <1>14, <2>1, StrokeSteps DEF Stroke
  <2>3. /\ text'.pending.transfer = text.pending.transfer /\ text'.pending.current = text.pending.current
        /\ pc' # "return" => text'.pending.controlHeld
    BY <2>2
  <2>4. CASE stroke = 1
    BY <1>14, <2>1, <2>2, <2>3, <2>4, StrokeSteps
  <2>5. CASE stroke = 2
    BY <1>14, <2>1, <2>2, <2>3, <2>5, StrokeSteps
  <2>6. CASE stroke = 3
    BY <1>14, <2>1, <2>2, <2>3, <2>6, StrokeSteps
  <2>7. QED
    BY <2>1, <2>4, <2>5, <2>6
<1>15. CASE Answered
  BY <1>15 DEF Answered, Command
<1>16. CASE UnlockCancel
  BY <1>16 DEF UnlockCancel, Valid, Command, Transition, Requeued
<1>17. CASE Disconnect
  BY <1>17 DEF Disconnect, Command
<1>18. ASSUME NEW m \in {"view", "control"}, Connect(m) PROVE Chording'
  BY <1>18 DEF Connect, Command, Claim, Unclaimed
<1>19. CASE Enter
  BY <1>19 DEF Enter, Transition, Requeued
<1>20. ASSUME NEW f \in 1..MaxFrames, FrameAck(f) PROVE Chording'
  BY <1>20 DEF FrameAck, Valid, Command, Acknowledge
<1>21. CASE InputLost
  BY <1>21 DEF InputLost, Valid, Command
<1>22. CASE InputElsewhere
  BY <1>22 DEF InputElsewhere, Valid, Command, Transition, Requeued
<1>23. CASE Key
  BY <1>23 DEF Key, InputHere, Valid, Command, Admitted
<1>24. CASE Text
  BY <1>24 DEF Text, InputHere, Valid, Command, Admitted
<1>25. CASE Press
  BY <1>25 DEF Press, Physical
<1>26. CASE WatchSeat
  <2>1. \/ \E s \in Seats \cup {None} : Transition(s, auth.mode) /\ pc = "select" /\ pc' = pc
        \/ (UNCHANGED <<text, stroke>> /\ pc = "select" /\ pc' \in {"select", "return"} /\ held' \in {{}, held})
    BY <1>26 DEF WatchSeat, Requeued, PlaceOK, AuthOK, Authorities
  <2>2. CASE \E s \in Seats \cup {None} : Transition(s, auth.mode) /\ pc = "select" /\ pc' = pc
    BY <2>2, TransitionFacts
  <2>3. CASE UNCHANGED <<text, stroke>> /\ pc = "select" /\ pc' \in {"select", "return"} /\ held' \in {{}, held}
    BY <2>3
  <2>4. QED
    BY <2>1, <2>2, <2>3
<1>27. CASE Inactive
  BY <1>27 DEF Inactive, Message, Requeued
<1>28. CASE Displays
  <2>1. \/ \E s \in Seats \cup {None} : Transition(s, auth.mode) /\ pc = "select" /\ pc' = pc
        \/ (UNCHANGED <<text, stroke>> /\ pc = "select" /\ pc' \in {"select", "return"} /\ held' \in {{}, held})
    BY <1>28 DEF Displays, Message, Requeued, PlaceOK, AuthOK, Authorities
  <2>2. CASE \E s \in Seats \cup {None} : Transition(s, auth.mode) /\ pc = "select" /\ pc' = pc
    BY <2>2, TransitionFacts
  <2>3. CASE UNCHANGED <<text, stroke>> /\ pc = "select" /\ pc' \in {"select", "return"} /\ held' \in {{}, held}
    BY <2>3
  <2>4. QED
    BY <2>1, <2>2, <2>3
<1>29. CASE Frame
  <2>1. \/ \E s \in Seats \cup {None} : Transition(s, auth.mode) /\ pc = "select" /\ pc' = pc
        \/ (UNCHANGED <<text, stroke>> /\ pc = "select" /\ pc' \in {"select", "return"} /\ held' \in {{}, held})
    BY <1>29 DEF Frame, Message, Accepts, Requeued, PlaceOK, AuthOK, Authorities
  <2>2. CASE \E s \in Seats \cup {None} : Transition(s, auth.mode) /\ pc = "select" /\ pc' = pc
    BY <2>2, TransitionFacts
  <2>3. CASE UNCHANGED <<text, stroke>> /\ pc = "select" /\ pc' \in {"select", "return"} /\ held' \in {{}, held}
    BY <2>3
  <2>4. QED
    BY <2>1, <2>2, <2>3
<1>30. CASE Leave
  BY <1>30 DEF Leave
<1>31. CASE Fails
  BY <1>31 DEF Fails
<1>32. CASE End
  BY <1>32 DEF End, Unclaimed
<1>33. CASE UNCHANGED vars
  BY <1>33 DEF vars
<1> QED
  BY <1>1, <1>2, <1>3, <1>4, <1>5, <1>6, <1>7, <1>8, <1>9, <1>10, <1>11, <1>12, <1>13, <1>14, <1>15,
     <1>16, <1>17, <1>18, <1>19, <1>20, <1>21, <1>22, <1>23, <1>24, <1>25, <1>26, <1>27, <1>28,
     <1>29, <1>30, <1>31, <1>32, <1>33 DEF Next, Loop, Beside, TakeCommand, TakeMessage

\* Every transfer reports what it did.
LEMMA ReportingKept ==
  ASSUME PlaceOK, AuthOK, TextOK, Chording, Reporting, [Next]_vars
  PROVE  Reporting'
<1> USE DEF Reporting, TextOK, Texts, PendingTexts, NoPending, Texting, loop, channels
<1>1. CASE Sends
  BY <1>1 DEF Sends
<1>2. CASE SendsRelease
  BY <1>2 DEF SendsRelease
<1>3. CASE Closes
  BY <1>3 DEF Closes
<1>4. CASE SeatChanges
  BY <1>4 DEF SeatChanges
<1>5. CASE OthersClaim
  BY <1>5 DEF OthersClaim
<1>6. CASE Revoke
  BY <1>6 DEF Revoke, Unclaimed
<1>7. ASSUME NEW t \in Transfers, Prepares(t) PROVE Reporting'
  <2>1. /\ text'.pending = text.pending /\ text'.stage = [text.stage EXCEPT ![t] = "prepared"]
        /\ text'.results = <<[transfer |-> t, prepared |-> TRUE, ok |-> TRUE]>>
        /\ text.results = <<>> /\ UNCHANGED pc
    BY <1>7 DEF Prepares
  <2>2. /\ text'.results # <<>> /\ text'.results[1] = [transfer |-> t, prepared |-> TRUE, ok |-> TRUE]
    BY <2>1
  <2>3. QED
    BY <1>7, <2>1, <2>2
<1>8. ASSUME NEW t \in Transfers, Completes(t) PROVE Reporting'
  <2>1. PICK ok \in BOOLEAN :
           /\ text'.pending = text.pending /\ text'.stage = [text.stage EXCEPT ![t] = "done"]
           /\ text'.results = <<[transfer |-> t, prepared |-> FALSE, ok |-> ok]>>
           /\ text.results = <<>> /\ UNCHANGED pc
    BY <1>8 DEF Completes
  <2>2. /\ text'.results # <<>> /\ text'.results[1] = [transfer |-> t, prepared |-> FALSE, ok |-> ok]
    BY <2>1
  <2>3. QED
    BY <1>8, <2>1, <2>2
<1>9. CASE Captures
  BY <1>9 DEF Captures, Emit
<1>10. CASE Suspends
  BY <1>10 DEF Suspends, Emit
<1>11. CASE TakeRelease
  <2>1. \/ \E s \in Seats \cup {None} : Transition(s, auth.mode) /\ pc = "select" /\ pc' = pc
        \/ (UNCHANGED <<text, stroke>> /\ pc = "select" /\ pc' \in {"select", "return"} /\ held' \in {{}, held})
    BY <1>11 DEF TakeRelease, Requeued, PlaceOK, AuthOK, Authorities
  <2>2. CASE \E s \in Seats \cup {None} : Transition(s, auth.mode) /\ pc = "select" /\ pc' = pc
    BY <2>2, TransitionFacts
  <2>3. CASE UNCHANGED <<text, stroke>> /\ pc = "select" /\ pc' \in {"select", "return"} /\ held' \in {{}, held}
    BY <2>3
  <2>4. QED
    BY <2>1, <2>2, <2>3
<1>12. CASE TakeResult
  <2>1. /\ pc = "select" /\ text.results # <<>> /\ text.results[1] \in Results
        /\ text'.results = <<>>
        /\ text'.stage = [text.stage EXCEPT ![text.results[1].transfer] = IF text.results[1].prepared THEN text.stage[text.results[1].transfer] ELSE "none"]
        /\ ResultMoves(text.results[1])
    BY <1>12, ResultSteps
  <2>2. text.results[1].transfer \in Transfers
    BY <2>1 DEF Results
  <2>3. ASSUME NEW t \in Transfers PROVE text'.stage[t] # "done"
    BY <2>1, <2>2
  <2>4. pc' # "return" /\ text'.pending.transfer # None /\ text'.pending.current => text'.stage[text'.pending.transfer] # "none"
    <3> SUFFICES ASSUME pc' # "return", text'.pending.transfer # None, text'.pending.current
                 PROVE  text'.stage[text'.pending.transfer] # "none"
      OBVIOUS
    <3>1. text'.pending = text.pending
      BY <2>1 DEF ResultMoves, NoPending
    <3>2. OfPending(text.results[1]) => text.results[1].prepared
      BY <2>1 DEF ResultMoves, NoPending
    <3>3. text.results[1].transfer = text.pending.transfer => text.results[1].prepared
      BY <3>1, <3>2 DEF OfPending
    <3>4. text.stage[text.pending.transfer] # "none" /\ text.pending.transfer \in Transfers
      BY <2>1, <3>1 DEF Reporting, Texting
    <3>5. QED
      BY <2>1, <2>2, <3>1, <3>3, <3>4
  <2>5. QED
    BY <2>1, <2>3, <2>4
<1>13. CASE Check
  BY <1>13 DEF Check
<1>14. CASE Stroke
  BY <1>14 DEF Stroke, Physical
<1>15. CASE Answered
  BY <1>15 DEF Answered, Command
<1>16. CASE UnlockCancel
  BY <1>16 DEF UnlockCancel, Valid, Command, Transition, Requeued
<1>17. CASE Disconnect
  BY <1>17 DEF Disconnect, Command
<1>18. ASSUME NEW m \in {"view", "control"}, Connect(m) PROVE Reporting'
  BY <1>18 DEF Connect, Command, Claim, Unclaimed
<1>19. CASE Enter
  BY <1>19 DEF Enter, Transition, Requeued
<1>20. ASSUME NEW f \in 1..MaxFrames, FrameAck(f) PROVE Reporting'
  BY <1>20 DEF FrameAck, Valid, Command, Acknowledge
<1>21. CASE InputLost
  BY <1>21 DEF InputLost, Valid, Command
<1>22. CASE InputElsewhere
  BY <1>22 DEF InputElsewhere, Valid, Command, Transition, Requeued
<1>23. CASE Key
  BY <1>23 DEF Key, InputHere, Valid, Command, Admitted
<1>24. CASE Text
  <2>1. PICK t \in Transfers :
           /\ text.stage[t] = "none"
           /\ text' = [text EXCEPT !.pending = [transfer |-> t, current |-> TRUE, controlHeld |-> FALSE],
                                   !.worker = TRUE, !.stage[t] = "selecting"]
    BY <1>24 DEF Text
  <2>2. /\ text'.pending.transfer = t /\ text'.results = text.results
        /\ text'.stage = [text.stage EXCEPT ![t] = "selecting"]
    BY <2>1
  <2>3. text.results # <<>> => text.results[1].transfer # t /\ text.results[1].transfer \in Transfers
    BY <2>1, ResultTypes DEF Results
  <2>4. QED
    BY <2>1, <2>2, <2>3
<1>25. CASE Press
  BY <1>25 DEF Press, Physical
<1>26. CASE WatchSeat
  <2>1. \/ \E s \in Seats \cup {None} : Transition(s, auth.mode) /\ pc = "select" /\ pc' = pc
        \/ (UNCHANGED <<text, stroke>> /\ pc = "select" /\ pc' \in {"select", "return"} /\ held' \in {{}, held})
    BY <1>26 DEF WatchSeat, Requeued, PlaceOK, AuthOK, Authorities
  <2>2. CASE \E s \in Seats \cup {None} : Transition(s, auth.mode) /\ pc = "select" /\ pc' = pc
    BY <2>2, TransitionFacts
  <2>3. CASE UNCHANGED <<text, stroke>> /\ pc = "select" /\ pc' \in {"select", "return"} /\ held' \in {{}, held}
    BY <2>3
  <2>4. QED
    BY <2>1, <2>2, <2>3
<1>27. CASE Inactive
  BY <1>27 DEF Inactive, Message, Requeued
<1>28. CASE Displays
  <2>1. \/ \E s \in Seats \cup {None} : Transition(s, auth.mode) /\ pc = "select" /\ pc' = pc
        \/ (UNCHANGED <<text, stroke>> /\ pc = "select" /\ pc' \in {"select", "return"} /\ held' \in {{}, held})
    BY <1>28 DEF Displays, Message, Requeued, PlaceOK, AuthOK, Authorities
  <2>2. CASE \E s \in Seats \cup {None} : Transition(s, auth.mode) /\ pc = "select" /\ pc' = pc
    BY <2>2, TransitionFacts
  <2>3. CASE UNCHANGED <<text, stroke>> /\ pc = "select" /\ pc' \in {"select", "return"} /\ held' \in {{}, held}
    BY <2>3
  <2>4. QED
    BY <2>1, <2>2, <2>3
<1>29. CASE Frame
  <2>1. \/ \E s \in Seats \cup {None} : Transition(s, auth.mode) /\ pc = "select" /\ pc' = pc
        \/ (UNCHANGED <<text, stroke>> /\ pc = "select" /\ pc' \in {"select", "return"} /\ held' \in {{}, held})
    BY <1>29 DEF Frame, Message, Accepts, Requeued, PlaceOK, AuthOK, Authorities
  <2>2. CASE \E s \in Seats \cup {None} : Transition(s, auth.mode) /\ pc = "select" /\ pc' = pc
    BY <2>2, TransitionFacts
  <2>3. CASE UNCHANGED <<text, stroke>> /\ pc = "select" /\ pc' \in {"select", "return"} /\ held' \in {{}, held}
    BY <2>3
  <2>4. QED
    BY <2>1, <2>2, <2>3
<1>30. CASE Leave
  BY <1>30 DEF Leave
<1>31. CASE Fails
  BY <1>31 DEF Fails
<1>32. CASE End
  BY <1>32 DEF End, Unclaimed
<1>33. CASE UNCHANGED vars
  BY <1>33 DEF vars
<1> QED
  BY <1>1, <1>2, <1>3, <1>4, <1>5, <1>6, <1>7, <1>8, <1>9, <1>10, <1>11, <1>12, <1>13, <1>14, <1>15,
     <1>16, <1>17, <1>18, <1>19, <1>20, <1>21, <1>22, <1>23, <1>24, <1>25, <1>26, <1>27, <1>28,
     <1>29, <1>30, <1>31, <1>32, <1>33 DEF Next, Loop, Beside, TakeCommand, TakeMessage

\* No key of the viewer while a text is on the way, and none left when it has
\* settled
KeyApart == text.pending.transfer # None => "key" \notin held' \ held
SettledClean == text.pending.transfer # None /\ text'.pending.transfer = None => held' = {}

\* Every step keeps the text and the keys apart.
LEMMA TextSteps ==
  ASSUME HeldOK, PlaceOK, AuthOK, TextOK, Chording, [Next]_vars
  PROVE  KeyApart /\ SettledClean
<1> USE DEF KeyApart, SettledClean, HeldOK, Chording, Chord, Keys, TextOK, Texts, PendingTexts,
            NoPending, Texting, loop, channels
<1>1. CASE Sends
  BY <1>1 DEF Sends
<1>2. CASE SendsRelease
  BY <1>2 DEF SendsRelease
<1>3. CASE Closes
  BY <1>3 DEF Closes
<1>4. CASE SeatChanges
  BY <1>4 DEF SeatChanges
<1>5. CASE OthersClaim
  BY <1>5 DEF OthersClaim
<1>6. CASE Revoke
  BY <1>6 DEF Revoke, Unclaimed
<1>7. ASSUME NEW t \in Transfers, Prepares(t) PROVE KeyApart /\ SettledClean
  BY <1>7 DEF Prepares
<1>8. ASSUME NEW t \in Transfers, Completes(t) PROVE KeyApart /\ SettledClean
  BY <1>8 DEF Completes
<1>9. CASE Captures
  BY <1>9 DEF Captures, Emit
<1>10. CASE Suspends
  BY <1>10 DEF Suspends, Emit
<1>11. CASE TakeRelease
  <2>1. \/ \E s \in Seats \cup {None} : Transition(s, auth.mode) /\ pc = "select" /\ pc' = pc
        \/ (UNCHANGED text /\ pc = "select" /\ pc' \in {"select", "return"} /\ held' \in {{}, held})
    BY <1>11 DEF TakeRelease, Requeued, PlaceOK, AuthOK, Authorities
  <2>2. CASE \E s \in Seats \cup {None} : Transition(s, auth.mode) /\ pc = "select" /\ pc' = pc
    BY <2>2, TransitionFacts
  <2>3. CASE UNCHANGED text /\ pc = "select" /\ pc' \in {"select", "return"} /\ held' \in {{}, held}
    BY <2>3
  <2>4. QED
    BY <2>1, <2>2, <2>3
<1>12. CASE TakeResult
  <2>1. pc = "select" /\ ResultMoves(text.results[1]) /\ text.results[1] \in Results
    BY <1>12, ResultSteps
  <2>2. CASE text'.pending = text.pending /\ held' = held
    BY <2>2
  <2>3. CASE held' = IF text.pending.controlHeld THEN held \ {"ControlLeft"} ELSE held
    BY <2>1, <2>3
  <2>4. QED
    BY <2>1, <2>2, <2>3 DEF ResultMoves
<1>13. CASE Check
  BY <1>13 DEF Check
<1>14. CASE Stroke
  <2>1. stroke \in 1..3
    BY <1>14 DEF Stroke
  <2>2. text'.pending.transfer = text.pending.transfer
    BY <1>14 DEF Stroke
  <2>3. held' \ held \subseteq {"ControlLeft", "KeyV"}
    <3>1. stroke = 1 \/ stroke = 2 \/ stroke = 3
      BY <2>1
    <3>2. QED
      BY <2>1, <3>1, <1>14, StrokeSteps
  <2>4. QED
    BY <2>2, <2>3
<1>15. CASE Answered
  BY <1>15 DEF Answered, Command
<1>16. CASE UnlockCancel
  BY <1>16 DEF UnlockCancel, Valid, Command, Transition, Requeued
<1>17. CASE Disconnect
  BY <1>17 DEF Disconnect, Command
<1>18. ASSUME NEW m \in {"view", "control"}, Connect(m) PROVE KeyApart /\ SettledClean
  BY <1>18 DEF Connect, Command, Claim, Unclaimed
<1>19. CASE Enter
  BY <1>19 DEF Enter, Transition, Requeued
<1>20. ASSUME NEW f \in 1..MaxFrames, FrameAck(f) PROVE KeyApart /\ SettledClean
  BY <1>20 DEF FrameAck, Valid, Command, Acknowledge
<1>21. CASE InputLost
  BY <1>21 DEF InputLost, Valid, Command
<1>22. CASE InputElsewhere
  BY <1>22 DEF InputElsewhere, Valid, Command, Transition, Requeued
<1>23. CASE Key
  BY <1>23 DEF Key, InputHere, Valid, Command, Admitted
<1>24. CASE Text
  BY <1>24 DEF Text, InputHere, Valid, Command, Admitted
<1>25. CASE Press
  BY <1>25 DEF Press, Physical
<1>26. CASE WatchSeat
  <2>1. \/ \E s \in Seats \cup {None} : Transition(s, auth.mode) /\ pc = "select" /\ pc' = pc
        \/ (UNCHANGED text /\ pc = "select" /\ pc' \in {"select", "return"} /\ held' \in {{}, held})
    BY <1>26 DEF WatchSeat, Requeued, PlaceOK, AuthOK, Authorities
  <2>2. CASE \E s \in Seats \cup {None} : Transition(s, auth.mode) /\ pc = "select" /\ pc' = pc
    BY <2>2, TransitionFacts
  <2>3. CASE UNCHANGED text /\ pc = "select" /\ pc' \in {"select", "return"} /\ held' \in {{}, held}
    BY <2>3
  <2>4. QED
    BY <2>1, <2>2, <2>3
<1>27. CASE Inactive
  BY <1>27 DEF Inactive, Message, Requeued
<1>28. CASE Displays
  <2>1. \/ \E s \in Seats \cup {None} : Transition(s, auth.mode) /\ pc = "select" /\ pc' = pc
        \/ (UNCHANGED text /\ pc = "select" /\ pc' \in {"select", "return"} /\ held' \in {{}, held})
    BY <1>28 DEF Displays, Message, Requeued, PlaceOK, AuthOK, Authorities
  <2>2. CASE \E s \in Seats \cup {None} : Transition(s, auth.mode) /\ pc = "select" /\ pc' = pc
    BY <2>2, TransitionFacts
  <2>3. CASE UNCHANGED text /\ pc = "select" /\ pc' \in {"select", "return"} /\ held' \in {{}, held}
    BY <2>3
  <2>4. QED
    BY <2>1, <2>2, <2>3
<1>29. CASE Frame
  <2>1. \/ \E s \in Seats \cup {None} : Transition(s, auth.mode) /\ pc = "select" /\ pc' = pc
        \/ (UNCHANGED text /\ pc = "select" /\ pc' \in {"select", "return"} /\ held' \in {{}, held})
    BY <1>29 DEF Frame, Message, Accepts, Requeued, PlaceOK, AuthOK, Authorities
  <2>2. CASE \E s \in Seats \cup {None} : Transition(s, auth.mode) /\ pc = "select" /\ pc' = pc
    BY <2>2, TransitionFacts
  <2>3. CASE UNCHANGED text /\ pc = "select" /\ pc' \in {"select", "return"} /\ held' \in {{}, held}
    BY <2>3
  <2>4. QED
    BY <2>1, <2>2, <2>3
<1>30. CASE Leave
  BY <1>30 DEF Leave
<1>31. CASE Fails
  BY <1>31 DEF Fails
<1>32. CASE End
  BY <1>32 DEF End, Unclaimed
<1>33. CASE UNCHANGED vars
  BY <1>33 DEF vars
<1> QED
  BY <1>1, <1>2, <1>3, <1>4, <1>5, <1>6, <1>7, <1>8, <1>9, <1>10, <1>11, <1>12, <1>13, <1>14, <1>15,
     <1>16, <1>17, <1>18, <1>19, <1>20, <1>21, <1>22, <1>23, <1>24, <1>25, <1>26, <1>27, <1>28,
     <1>29, <1>30, <1>31, <1>32, <1>33 DEF Next, Loop, Beside, TakeCommand, TakeMessage

(* The invariant *)

\* The invariant holds initially.
LEMMA InitInv == ASSUME Init PROVE IInv
<1> USE DEF Init, NoPending, NewAuthority, NewMedia
<1>1. PlaceOK /\ HeldOK /\ AuthOK /\ MediaOK
  <2>1. PlaceOK
    BY DEF PlaceOK, Modes
  <2>2. HeldOK
    BY DEF HeldOK
  <2>3. AuthOK
    BY NewAuthorityType DEF AuthOK, Modes
  <2>4. MediaOK
    <3>1. media = [on |-> FALSE, sequence |-> 0, acknowledged |-> 0]
      BY Zenon
    <3>2. 0 \in 0..MaxFrames
      BY BoundsAssumption
    <3>3. QED
      BY <3>1, <3>2 DEF MediaOK
  <2>5. QED
    BY <2>1, <2>2, <2>3, <2>4
<1>2. ChannelsOK /\ MessagesOK
  BY BoundsAssumption, EmptySeq, LenProperties DEF ChannelsOK, MessagesOK
<1>3. TextOK
  BY ResultTypes DEF TextOK, Texts, PendingTexts, Stages
<1>4. Shown /\ Claimed /\ Chording /\ Handling
  BY DEF Shown, Claimed, Chording, Handling, Texting
<1>5. InOrder
  <2>1. Len(messages) = 0
    BY EmptySeq
  <2>2. QED
    BY <2>1, BoundsAssumption DEF InOrder
<1>6. Reporting
  BY DEF Reporting, Texting
<1>7. QED
  BY <1>1, <1>2, <1>3, <1>4, <1>5, <1>6 DEF IInv, Types

\* Every step keeps the invariant.
LEMMA NextInv == ASSUME IInv, [Next]_vars PROVE IInv'
<1>1. /\ PlaceOK /\ HeldOK /\ AuthOK /\ ChannelsOK /\ MessagesOK /\ TextOK /\ MediaOK
      /\ Shown /\ Claimed /\ Chording /\ InOrder /\ Reporting /\ Handling
  BY DEF IInv, Types
<1>2. pc = "stroke" => stroke \in 1..3
  BY <1>1 DEF Chording
<1>3. PlaceOK' /\ HeldOK'
  BY <1>1, <1>2, PlaceTyped, HeldTyped
<1>4. AuthOK' /\ MediaOK'
  BY <1>1, AuthorityTyped, MediaTyped
<1>5. ChannelsOK' /\ MessagesOK' /\ TextOK'
  BY <1>1, ChannelsTyped, MessagesTyped, TextTyped
<1>6. Shown' /\ Claimed'
  BY <1>1, ShownKept, ClaimedKept
<1>7. Chording' /\ Reporting' /\ Handling'
  BY <1>1, ChordingKept, ReportingKept, HandlingKept
<1>8. InOrder'
  BY <1>1, InOrderKept DEF Types
<1>9. QED
  BY <1>3, <1>4, <1>5, <1>6, <1>7, <1>8 DEF IInv, Types

\* The invariant holds in every state.
LEMMA InvHolds == Spec => []IInv
  BY InitInv, NextInv, PTL DEF Spec

\* The invariant gives the types.
LEMMA WellTyped == ASSUME IInv PROVE TypeOK
<1> USE DEF IInv, Types
<1>1. \A i \in DOMAIN commands : commands[i] \in [current : BOOLEAN]
  <2>1. commands \in Seq(Commands)
    BY DEF ChannelsOK
  <2>2. DOMAIN commands = 1..Len(commands) /\ \A i \in 1..Len(commands) : commands[i] \in Commands
    BY <2>1, LenProperties, ElementOfSeq
  <2>3. QED
    BY <2>2 DEF Commands
<1>2. Len(commands) <= MaxCommands /\ Len(releases) <= 1 /\ Len(messages) <= MaxMessages
  BY DEF ChannelsOK, MessagesOK
<1>3. Len(text.results) <= 1
  <2>1. text.results \in ResultLists
    BY TextFields DEF TextOK
  <2>2. CASE text.results = <<>>
    BY <2>2, EmptySeq
  <2>3. CASE \E r \in Results : text.results = <<r>>
    BY <2>3
  <2>4. QED
    BY <2>1, <2>2, <2>3 DEF ResultLists
<1>4. /\ text.pending \in PendingTexts /\ text.worker \in BOOLEAN /\ text.stage \in [Transfers -> Stages]
  BY TextFields DEF TextOK
<1>5. QED
  BY <1>1, <1>2, <1>3, <1>4 DEF TypeOK, PlaceOK, HeldOK, AuthOK, Authorities, Modes, MediaOK, PendingTexts, Stages

----------------------------------------------------------------------------
(* The theorems *)

\* Whatever the order in which the seat, the other attachments, the viewer and
\* the capture worker act, a key is down on the physical keyboard only in
\* control, under a generation whose picture the viewer has painted, and
\* control is never taken without the service's claim.
THEOREM HeldInControlHolds == Spec => []HeldInControl
<1>1. IInv => HeldInControl
  BY WellTyped DEF HeldInControl, IInv, Shown, Painted, Claimed
<1>2. QED
  BY <1>1, InvHolds, PTL

\* The loop never refuses a frame of its own generation, for any window and
\* any order of frames and acknowledgements, and a pending text always has a
\* goroutine that will report.
THEOREM NothingStallsHolds == Spec => []NothingStalls
<1>1. IInv => NothingStalls
  <2> SUFFICES ASSUME IInv PROVE NothingStalls
    OBVIOUS
  <2>1. ~link.refused
    BY DEF IInv, InOrder
  <2>2. Reporting /\ TextOK
    BY DEF IInv, Types
  <2>3. ASSUME text.pending.transfer # None, text.pending.current, pc # "return"
        PROVE  CASE text.stage[text.pending.transfer] = "done" ->
                 /\ Len(text.results) = 1
                 /\ text.results[1].transfer = text.pending.transfer /\ ~text.results[1].prepared
               [] OTHER -> text.stage[text.pending.transfer] # "none"
    <3>1. text.pending.transfer \in Transfers
      BY <2>2, <2>3, TextFields DEF TextOK
    <3>2. text.stage[text.pending.transfer] # "none"
      BY <2>2, <2>3 DEF Reporting, Texting
    <3>3. ASSUME text.stage[text.pending.transfer] = "done"
          PROVE  /\ Len(text.results) = 1
                 /\ text.results[1].transfer = text.pending.transfer /\ ~text.results[1].prepared
      <4>1. text.results # <<>> /\ text.results[1].transfer = text.pending.transfer
        BY <2>2, <3>1, <3>3 DEF Reporting
      <4>2. text.results \in ResultLists
        BY <2>2, TextFields DEF TextOK
      <4>3. Len(text.results) = 1
        BY <4>1, <4>2 DEF ResultLists
      <4>4. ~text.results[1].prepared
        BY <2>2, <3>3, <4>1 DEF Reporting
      <4>5. QED
        BY <4>1, <4>3, <4>4
    <3>4. QED
      BY <3>2, <3>3
  <2>4. QED
    BY <2>1, <2>3 DEF NothingStalls
<1>2. QED
  BY <1>1, InvHolds, PTL

\* The paste chord of a text and the keys of the viewer never meet, through
\* every stroke, failed write, change of seat and end of the attachment, and a
\* settled text leaves no key down.
THEOREM TextAloneHolds == Spec => TextAlone
<1>1. IInv => ChordAlone
  BY DEF IInv, Chording, ChordAlone, Texting
<1>2. IInv /\ [Next]_vars => [text.pending.transfer # None => "key" \notin held' \ held]_vars
  BY TextSteps DEF IInv, Types, KeyApart
<1>3. IInv /\ [Next]_vars => [text.pending.transfer # None /\ text'.pending.transfer = None => held' = {}]_vars
  BY TextSteps DEF IInv, Types, SettledClean
<1>4. QED
  BY <1>1, <1>2, <1>3, InvHolds, PTL DEF Spec, TextAlone

=============================================================================
