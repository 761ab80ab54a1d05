--------------------------- MODULE ChatRoomProofs ---------------------------
(***************************************************************************)
(* Proofs about ChatRoom for any set of call slots and any bounds.         *)
(*                                                                         *)
(* TypeOK is not inductive alone: an update step writes room.field, so one *)
(* needs that a call at such a step has seen the document.  The inductive  *)
(* invariant Inv adds what a call in flight may rely on (CallsBacked) and  *)
(* that every message goes from one of the two users to the other.         *)
(***************************************************************************)
EXTENDS ChatRoom, SequenceTheorems, FiniteSetTheorems, TLAPS

\* Every stored message is addressed to the peer of its sender.
Addressed == \A i \in DOMAIN messages : messages[i].to = Peer(messages[i].from)

Inv == TypeOK /\ CallsBacked /\ Addressed /\ RoomBacked

USE DEF At, Goto, Return, Start, hist, vars

\* A peer is a user, and a call slot is idle with well-typed contents.
LEMMA PeerType == \A u \in User : Peer(u) \in User
  BY DEF User, Peer

LEMMA IdleType == Idle \in CallState
  BY DEF Idle, CallState, PC, User

LEMMA SnapshotType ==
  ASSUME TypeOK
  PROVE  /\ Snapshot \in Roles \cup {NoRoom}
         /\ Snapshot = NoRoom <=> room = NoRoom
  BY NoRoomIsNoRoom DEF TypeOK, Snapshot, Room, Roles

-----------------------------------------------------------------------------
LEMMA InitInv == Init => Inv
  <1> SUFFICES ASSUME Init PROVE Inv
    OBVIOUS
  <1>1. TypeOK
    <2>1. messages \in Seq(Message)
      BY DEF Init
    <2>2. calls \in [Call -> CallState]
      BY IdleType DEF Init
    <2> QED
      BY <2>1, <2>2 DEF Init, TypeOK
  <1>2. CallsBacked
    BY DEF Init, CallsBacked, Idle
  <1>3. Addressed /\ RoomBacked
    BY DEF Init, Addressed, RoomBacked
  <1> QED
    BY <1>1, <1>2, <1>3 DEF Inv

\* Every way to take up an idle slot.
LEMMA BeginInv ==
  ASSUME Inv, NEW c \in Call, NEW u \in User, Begin(c, u)
  PROVE  Inv'
  <1> USE DEF Inv
  <1>0. UNCHANGED <<room, messages, creates, wasReset, faults>>
    BY DEF Begin, StartSend, StartRefresh, StartDecision
  <1>1. /\ calls' \in [Call -> CallState]
        /\ \A d \in Call :
             \/ calls'[d] = calls[d]
             \/ /\ calls'[d].snap = NoRoom
                /\ calls'[d].pc \in {"sendRead", "resetRead", "markRead",
                                     "accept", "decline"}
    <2>0. calls \in [Call -> CallState]
      BY DEF TypeOK
    <2>1. CASE \E first \in FirstStatus : StartSend(c, u, first)
      <3>1. PICK first \in FirstStatus : StartSend(c, u, first)
        BY <2>1
      <3>2. first \in {"pending", "accepted"} /\ "sendRead" \in PC
        BY FirstStatusOk DEF PC
      <3> DEFINE v == [Idle EXCEPT !.pc = "sendRead", !.user = u, !.first = first]
      <3>3. v \in CallState /\ v.pc = "sendRead" /\ v.snap = NoRoom
        BY <3>2 DEF Idle, CallState
      <3>4. calls' = [calls EXCEPT ![c] = v]
        BY <3>1 DEF StartSend
      <3> HIDE DEF v
      <3> QED
        BY <2>0, <3>3, <3>4
    <2>2. CASE \E d \in Call : StartRefresh(c, d, u)
      <3>1. PICK d \in Call : StartRefresh(c, d, u)
        BY <2>2
      <3> DEFINE v == [Idle EXCEPT !.pc = "resetRead", !.user = u]
                 w == [Idle EXCEPT !.pc = "markRead", !.user = u]
      <3>2. "resetRead" \in PC /\ "markRead" \in PC
        BY DEF PC
      <3>3. /\ v \in CallState /\ v.pc = "resetRead" /\ v.snap = NoRoom
            /\ w \in CallState /\ w.pc = "markRead" /\ w.snap = NoRoom
        BY <3>2 DEF Idle, CallState
      <3>4. calls' = [calls EXCEPT ![c] = v, ![d] = w]
        BY <3>1 DEF StartRefresh
      <3> HIDE DEF v, w
      <3> QED
        BY <2>0, <3>3, <3>4
    <2>3. CASE \E answer \in {"accept", "decline"} : StartDecision(c, u, answer)
      <3>1. PICK answer \in {"accept", "decline"} : StartDecision(c, u, answer)
        BY <2>3
      <3> DEFINE v == [Idle EXCEPT !.pc = answer, !.user = u]
      <3>2. answer \in PC
        BY DEF PC
      <3>3. v \in CallState /\ v.pc = answer /\ v.snap = NoRoom
        BY <3>2 DEF Idle, CallState
      <3>4. calls' = [calls EXCEPT ![c] = v]
        BY <3>1 DEF StartDecision
      <3> HIDE DEF v
      <3> QED
        BY <2>0, <3>3, <3>4
    <2> QED
      BY <2>1, <2>2, <2>3 DEF Begin
  <1>2. TypeOK' /\ Addressed' /\ RoomBacked'
    BY <1>0, <1>1 DEF TypeOK, Addressed, RoomBacked
  <1>3. CallsBacked'
    BY <1>0, <1>1 DEF CallsBacked
  <1> QED
    BY <1>2, <1>3

\* Slots that return and slots left alone keep the invariant when the room and
\* the messages do not change.
LEMMA ReturnInv ==
  ASSUME Inv, UNCHANGED <<room, messages>>,
         creates' \in Nat, wasReset' \in BOOLEAN, faults' \in Nat,
         calls' \in [Call -> CallState],
         \A d \in Call : calls'[d] \in {Idle, calls[d]}
  PROVE  Inv'
  <1> USE DEF Inv
  <1>1. TypeOK' /\ Addressed' /\ RoomBacked'
    BY DEF TypeOK, Addressed, RoomBacked
  <1>2. CallsBacked'
    BY DEF CallsBacked, Idle
  <1> QED
    BY <1>1, <1>2

\* One request of a call.
LEMMA StepInv ==
  ASSUME Inv, NEW c \in Call, Step(c)
  PROVE  Inv'
  <1> USE DEF Inv
  <1>0. /\ calls \in [Call -> CallState] /\ messages \in Seq(Message)
        /\ room \in Room \cup {NoRoom}
        /\ creates \in Nat /\ wasReset \in BOOLEAN /\ faults \in Nat
        /\ calls[c] \in CallState /\ calls[c].user \in User
    BY DEF TypeOK, CallState
  <1>1. CASE SendRead(c)
    <2>1. calls' = [calls EXCEPT ![c].pc = "sendAdd", ![c].snap = Snapshot]
      BY <1>1 DEF SendRead
    <2>2. Snapshot \in Roles \cup {NoRoom} /\ "sendAdd" \in PC
      BY SnapshotType DEF PC
    <2>3. [calls[c] EXCEPT !.pc = "sendAdd", !.snap = Snapshot] \in CallState
      BY <1>0, <2>2 DEF CallState
    <2>4. calls' \in [Call -> CallState]
      BY <1>0, <2>1, <2>3
    <2>5. TypeOK' /\ Addressed' /\ RoomBacked'
      BY <1>0, <1>1, <2>4 DEF SendRead, TypeOK, Addressed, RoomBacked
    <2>6. CallsBacked'
      BY <1>0, <1>1, <2>1, SnapshotType DEF SendRead, CallsBacked, CallState
    <2> QED
      BY <2>5, <2>6
  <1>2. CASE SendAdd(c)
    <2> DEFINE m == NewMessage(calls[c].user)
    <2>1. m \in Message /\ m.from = calls[c].user /\ m.to = Peer(m.from)
      BY <1>0, PeerType DEF NewMessage, Message
    <2>2. messages' = Append(messages, m)
      BY <1>2 DEF SendAdd
    <2> HIDE DEF m
    <2>3. /\ messages' \in Seq(Message)
          /\ Len(messages) \in Nat
          /\ Len(messages') = Len(messages) + 1
          /\ DOMAIN messages' = 1..(Len(messages) + 1)
          /\ DOMAIN messages = 1..Len(messages)
          /\ \A i \in DOMAIN messages : messages'[i] = messages[i]
          /\ messages'[Len(messages) + 1] = m
      <3>1. DOMAIN messages = 1..Len(messages) /\ Len(messages) \in Nat
        BY <1>0, LenProperties
      <3>2. /\ messages' \in Seq(Message)
            /\ Len(messages') = Len(messages) + 1
            /\ \A i \in 1..Len(messages) : messages'[i] = messages[i]
            /\ messages'[Len(messages) + 1] = m
        BY <1>0, <2>1, <2>2, AppendProperties
      <3>3. DOMAIN messages' = 1..Len(messages')
        BY <3>2, LenProperties
      <3> QED
        BY <3>1, <3>2, <3>3
    <2>4. calls' \in [Call -> CallState]
      <3> DEFINE p == IF calls[c].snap = NoRoom THEN "sendCreate" ELSE "sendCount"
                 v == [calls[c] EXCEPT !.pc = p, !.msg = Len(messages) + 1]
      <3>1. calls' = [calls EXCEPT ![c] = v]
        BY <1>0, <1>2 DEF SendAdd
      <3>2. p \in PC /\ Len(messages) + 1 \in Nat
        BY <2>3 DEF PC
      <3> HIDE DEF p
      <3>3. v \in CallState
        BY <1>0, <3>2 DEF CallState
      <3> HIDE DEF v
      <3> QED
        BY <1>0, <3>1, <3>3
    <2>5. TypeOK'
      BY <1>0, <1>2, <2>3, <2>4 DEF SendAdd, TypeOK
    <2>6. Addressed'
      BY <2>1, <2>3 DEF Addressed
    <2>7. RoomBacked'
      BY <1>2, <2>3 DEF SendAdd, RoomBacked
    <2>8. /\ calls'[c].snap = calls[c].snap /\ calls'[c].user = calls[c].user
          /\ calls'[c].msg = Len(messages) + 1
          /\ calls'[c].pc = IF calls[c].snap = NoRoom THEN "sendCreate"
                                                     ELSE "sendCount"
          /\ \A d \in Call \ {c} : calls'[d] = calls[d]
          /\ room' = room
      BY <1>0, <1>2 DEF SendAdd, CallState
    <2>9. ASSUME NEW d \in Call
          PROVE  /\ calls'[d].snap # NoRoom \/ calls'[d].pc \in {"sendCount", "sendLast", "resetWrite"}
                      => room' # NoRoom
                 /\ calls'[d].pc \in {"sendCount", "resetWrite"} => calls'[d].snap # NoRoom
                 /\ calls'[d].pc \in {"sendCreate", "sendCount", "sendLast", "markWrite"}
                      => calls'[d].msg \in DOMAIN messages'
                 /\ calls'[d].pc = "sendCreate" =>
                      messages'[calls'[d].msg].from = calls'[d].user
      <3>1. CASE d = c
        BY <2>1, <2>3, <2>8, <3>1 DEF CallsBacked
      <3>2. CASE d # c
        BY <2>3, <2>8, <3>2 DEF CallsBacked
      <3> QED
        BY <3>1, <3>2
    <2>10. CallsBacked'
      BY <2>9 DEF CallsBacked
    <2> QED
      BY <2>5, <2>6, <2>7, <2>10
  <1>3. CASE SendCreate(c)
    <2> DEFINE r == NewRoom(calls[c].user, calls[c].first, calls[c].msg)
    <2>1. /\ r \in Room /\ r # NoRoom
          /\ r.sender = calls[c].user /\ r.receiver = Peer(calls[c].user)
          /\ r.last = calls[c].msg
      BY <1>0, PeerType, NoRoomIsNoRoom DEF NewRoom, Room, Status, CallState
    <2>2. room' = r /\ calls' = [calls EXCEPT ![c] = Idle]
          /\ messages' = messages /\ creates' = creates + 1
          /\ wasReset' = wasReset /\ faults' = faults
      BY <1>3 DEF SendCreate
    <2> HIDE DEF r
    <2>3. TypeOK'
      BY <1>0, <2>1, <2>2, IdleType DEF TypeOK
    <2>4. calls[c].msg \in DOMAIN messages /\ messages[calls[c].msg].from = calls[c].user
      BY <1>3 DEF SendCreate, CallsBacked
    <2>5. RoomBacked'
      BY <2>1, <2>2, <2>4 DEF RoomBacked, Addressed
    <2>6. CallsBacked'
      BY <1>0, <2>1, <2>2 DEF CallsBacked, Idle
    <2> QED
      BY <2>2, <2>3, <2>5, <2>6 DEF Addressed
  <1>4. CASE SendCount(c)
    <2>1. room # NoRoom /\ room \in Room
      BY <1>0, <1>4 DEF SendCount, CallsBacked
    <2>2. /\ room' \in Room /\ room' # NoRoom
          /\ room'.sender = room.sender /\ room'.receiver = room.receiver
          /\ room'.last = room.last
      BY <1>4, <2>1, NoRoomIsNoRoom DEF SendCount, Room
    <2>3. calls' = [calls EXCEPT ![c].pc = "sendLast"]
          /\ UNCHANGED <<messages, creates, wasReset, faults>>
      BY <1>4 DEF SendCount
    <2>4. TypeOK'
      BY <1>0, <2>2, <2>3 DEF TypeOK, CallState, PC
    <2>5. CallsBacked'
      BY <1>0, <1>4, <2>2, <2>3 DEF SendCount, CallsBacked, CallState
    <2> QED
      BY <2>1, <2>2, <2>3, <2>4, <2>5 DEF Addressed, RoomBacked
  <1>5. CASE SendLast(c)
    <2>1. room # NoRoom /\ room \in Room /\ calls[c].msg \in DOMAIN messages
          /\ calls[c].msg \in Nat
      BY <1>0, <1>5 DEF SendLast, CallsBacked, CallState
    <2>2. /\ room' \in Room /\ room' # NoRoom
          /\ room'.sender = room.sender /\ room'.receiver = room.receiver
          /\ room'.last = calls[c].msg
      BY <1>5, <2>1, NoRoomIsNoRoom DEF SendLast, Room
    <2>3. calls' = [calls EXCEPT ![c] = Idle]
          /\ UNCHANGED <<messages, creates, wasReset, faults>>
      BY <1>5 DEF SendLast
    <2>4. TypeOK'
      BY <1>0, <2>2, <2>3, IdleType DEF TypeOK
    <2>5. CallsBacked'
      BY <1>0, <2>2, <2>3 DEF CallsBacked, Idle
    <2> QED
      BY <2>1, <2>2, <2>3, <2>4, <2>5 DEF Addressed, RoomBacked
  <1>6. CASE ResetRead(c)
    <2>1. CASE room = NoRoom
      BY <1>0, <1>6, <2>1, IdleType, ReturnInv DEF ResetRead
    <2>2. CASE room # NoRoom
      <3>1. calls' = [calls EXCEPT ![c].pc = "resetWrite", ![c].snap = Snapshot]
            /\ UNCHANGED <<room, messages, creates, wasReset, faults>>
        BY <1>6, <2>2 DEF ResetRead
      <3>2. TypeOK' /\ Addressed' /\ RoomBacked'
        BY <1>0, <3>1, SnapshotType DEF TypeOK, CallState, PC, Addressed, RoomBacked
      <3>3. CallsBacked'
        BY <1>0, <2>2, <3>1, SnapshotType DEF CallsBacked, CallState
      <3> QED
        BY <3>2, <3>3
    <2> QED
      BY <2>1, <2>2
  <1>7. CASE ResetWrite(c)
    <2>1. room # NoRoom /\ room \in Room
      BY <1>0, <1>7 DEF ResetWrite, CallsBacked
    <2>2. /\ room' \in Room /\ room' # NoRoom
          /\ room'.sender = room.sender /\ room'.receiver = room.receiver
          /\ room'.last = room.last
      BY <1>7, <2>1, NoRoomIsNoRoom DEF ResetWrite, Room
    <2>3. calls' = [calls EXCEPT ![c] = Idle] /\ wasReset' = TRUE
          /\ UNCHANGED <<messages, creates, faults>>
      BY <1>7 DEF ResetWrite
    <2>4. TypeOK'
      BY <1>0, <2>2, <2>3, IdleType DEF TypeOK
    <2>5. CallsBacked'
      BY <1>0, <2>2, <2>3 DEF CallsBacked, Idle
    <2> QED
      BY <2>1, <2>2, <2>3, <2>4, <2>5 DEF Addressed, RoomBacked
  <1>8. CASE MarkRead(c)
    <2>1. CASE messages # << >> /\ messages[Len(messages)].to = calls[c].user
      <3>1. calls' = [calls EXCEPT ![c].pc = "markWrite", ![c].msg = Len(messages)]
            /\ UNCHANGED <<room, messages, creates, wasReset, faults>>
        BY <1>8, <2>1 DEF MarkRead
      <3>2. Len(messages) \in DOMAIN messages /\ Len(messages) \in Nat
        BY <1>0, <2>1
      <3>3. TypeOK' /\ Addressed' /\ RoomBacked'
        BY <1>0, <3>1, <3>2 DEF TypeOK, CallState, PC, Addressed, RoomBacked
      <3>4. CallsBacked'
        BY <1>0, <1>8, <3>1, <3>2 DEF MarkRead, CallsBacked, CallState
      <3> QED
        BY <3>3, <3>4
    <2>2. CASE ~(messages # << >> /\ messages[Len(messages)].to = calls[c].user)
      <3>1. calls' = [calls EXCEPT ![c] = Idle]
            /\ UNCHANGED <<room, messages, creates, wasReset, faults>>
        BY <1>8, <2>2 DEF MarkRead
      <3> QED
        BY <1>0, <3>1, IdleType, ReturnInv
    <2> QED
      BY <2>1, <2>2
  <1>9. CASE MarkWrite(c)
    <2> DEFINE k == calls[c].msg
    <2>1. k \in DOMAIN messages
      BY <1>9 DEF MarkWrite, CallsBacked
    <2>2. messages' = [messages EXCEPT ![k].seen = TRUE]
          /\ calls' = [calls EXCEPT ![c] = Idle]
          /\ UNCHANGED <<room, creates, wasReset, faults>>
      BY <1>9 DEF MarkWrite
    <2> HIDE DEF k
    <2>3. /\ messages[k] \in Message
          /\ [messages[k] EXCEPT !.seen = TRUE] \in Message
          /\ DOMAIN messages = 1..Len(messages)
      <3>1. DOMAIN messages = 1..Len(messages)
        BY <1>0, LenProperties
      <3>2. messages[k] \in Message
        BY <1>0, <2>1, <3>1, ElementOfSeq
      <3>3. [messages[k] EXCEPT !.seen = TRUE] \in Message
        BY <3>2 DEF Message
      <3> QED
        BY <3>1, <3>2, <3>3
    <2>4. messages' \in Seq(Message) /\ DOMAIN messages' = DOMAIN messages
      BY <1>0, <2>1, <2>2, <2>3
    <2>5. \A i \in DOMAIN messages : /\ messages'[i].from = messages[i].from
                                     /\ messages'[i].to = messages[i].to
      BY <1>0, <2>1, <2>2, <2>3 DEF Message
    <2>6. TypeOK'
      BY <1>0, <2>2, <2>4, IdleType DEF TypeOK
    <2>7. Addressed' /\ RoomBacked'
      BY <2>2, <2>4, <2>5 DEF Addressed, RoomBacked
    <2>8. CallsBacked'
      BY <1>0, <2>2, <2>4, <2>5 DEF CallsBacked, Idle
    <2> QED
      BY <2>6, <2>7, <2>8
  <1>10. ASSUME NEW answer \in {"accepted", "declined"}, Decide(c, answer)
         PROVE  Inv'
    <2>1. calls' = [calls EXCEPT ![c] = Idle]
          /\ UNCHANGED <<messages, creates, wasReset, faults>>
      BY <1>10 DEF Decide
    <2>2. CASE room = NoRoom
      BY <1>0, <1>10, <2>1, <2>2, IdleType, ReturnInv DEF Decide
    <2>3. CASE room # NoRoom
      <3>1. /\ room' \in Room /\ room' # NoRoom
            /\ room'.sender = room.sender /\ room'.receiver = room.receiver
            /\ room'.last = room.last
        BY <1>0, <1>10, <2>3, NoRoomIsNoRoom DEF Decide, Room, Status
      <3>2. TypeOK'
        BY <1>0, <2>1, <3>1, IdleType DEF TypeOK
      <3>3. CallsBacked'
        BY <1>0, <2>1, <3>1 DEF CallsBacked, Idle
      <3> QED
        BY <2>1, <2>3, <3>1, <3>2, <3>3 DEF Addressed, RoomBacked
    <2> QED
      BY <2>2, <2>3
  <1> QED
    BY <1>1, <1>2, <1>3, <1>4, <1>5, <1>6, <1>7, <1>8, <1>9, <1>10
    DEF Step, Accept, Decline

LEMMA NextInv == Inv /\ [Next]_vars => Inv'
  <1> SUFFICES ASSUME Inv, [Next]_vars PROVE Inv'
    OBVIOUS
  <1>0. TypeOK
    BY DEF Inv
  <1>1. ASSUME NEW c \in Call, NEW u \in User, Begin(c, u) PROVE Inv'
    BY <1>1, BeginInv
  <1>2. ASSUME NEW c \in Call, Step(c) PROVE Inv'
    BY <1>2, StepInv
  <1>3. ASSUME NEW c \in Call, Abort(c) PROVE Inv'
    BY <1>0, <1>3, IdleType, ReturnInv DEF Abort, TypeOK
  <1>4. ASSUME NEW u \in User, Kill(u) PROVE Inv'
    BY <1>0, <1>4, IdleType, ReturnInv DEF Kill, TypeOK
  <1>5. CASE UNCHANGED vars
    BY <1>0, <1>5, ReturnInv DEF TypeOK
  <1> QED
    BY <1>1, <1>2, <1>3, <1>4, <1>5 DEF Next

\* Any number of calls in flight, failing anywhere: the state keeps its types
\* and calls never write to something that is not there.
THEOREM Invariant == Spec => []Inv
  <1>1. Init => Inv
    BY InitInv
  <1>2. Inv /\ [Next]_vars => Inv'
    BY NextInv
  <1> QED
    BY <1>1, <1>2, PTL DEF Spec

\* The type invariant of the room and its calls.
THEOREM TypeCorrect == Spec => []TypeOK
  <1>1. Inv => TypeOK
    BY DEF Inv
  <1> QED
    BY <1>1, Invariant, PTL

\* A room document always has the request message of its sender behind it, and
\* the preview of the chat lists is a stored message.
THEOREM RoomAlwaysBacked == Spec => []RoomBacked
  <1>1. Inv => RoomBacked
    BY DEF Inv
  <1> QED
    BY <1>1, Invariant, PTL

\* No update or seen mark goes to a document or message that does not exist.
THEOREM CallsAlwaysBacked == Spec => []CallsBacked
  <1>1. Inv => CallsBacked
    BY DEF Inv
  <1> QED
    BY <1>1, Invariant, PTL

-----------------------------------------------------------------------------
(***************************************************************************)
(* The badge bound.  set() puts the badges back to 1 whatever they were,   *)
(* so the bound needs that even then the increments still to come fit:     *)
(* each call about to count or to create has a message of its own.         *)
(***************************************************************************)
Pending == {c \in Call : calls[c].pc \in {"sendCount", "sendCreate"}}

PendingBounded == Cardinality(Pending) <= Len(messages)

BadgeInv == BadgesBounded /\ PendingBounded

LEMMA SlotSets ==
  ASSUME NEW A, NEW B, NEW c, A \subseteq Call, c \in Call
  PROVE  /\ Cardinality(A) \in Nat
         /\ B \subseteq A => Cardinality(B) \in Nat /\ Cardinality(B) <= Cardinality(A)
         /\ c \in A /\ B \subseteq A \ {c} => Cardinality(B) <= Cardinality(A) - 1
         /\ B \subseteq A \cup {c} => Cardinality(B) <= Cardinality(A) + 1
  <1>1. IsFiniteSet(A) /\ Cardinality(A) \in Nat
    BY CallFinite, FS_Subset, FS_CardinalityType
  <1>2. ASSUME B \subseteq A
        PROVE  Cardinality(B) \in Nat /\ Cardinality(B) <= Cardinality(A)
    BY <1>1, <1>2, FS_Subset, FS_CardinalityType
  <1>3. ASSUME c \in A, B \subseteq A \ {c}
        PROVE  Cardinality(B) <= Cardinality(A) - 1
    <2>1. IsFiniteSet(A \ {c}) /\ Cardinality(A \ {c}) = Cardinality(A) - 1
      BY <1>1, <1>3, FS_RemoveElement
    <2>2. Cardinality(B) <= Cardinality(A \ {c})
      BY <1>3, <2>1, FS_Subset
    <2> QED
      BY <2>1, <2>2
  <1>4. ASSUME B \subseteq A \cup {c}
        PROVE  Cardinality(B) <= Cardinality(A) + 1
    <2>1. IsFiniteSet(A \cup {c}) /\ Cardinality(A \cup {c}) \in Nat
          /\ Cardinality(A \cup {c}) <= Cardinality(A) + 1
      <3>1. /\ IsFiniteSet(A \cup {c})
            /\ Cardinality(A \cup {c}) = IF c \in A THEN Cardinality(A)
                                                   ELSE Cardinality(A) + 1
        BY <1>1, FS_AddElement
      <3>2. Cardinality(A \cup {c}) \in Nat
        BY <3>1, FS_CardinalityType
      <3> QED
        BY <1>1, <3>1, <3>2
    <2>2. Cardinality(B) \in Nat /\ Cardinality(B) <= Cardinality(A \cup {c})
      BY <1>4, <2>1, FS_Subset, FS_CardinalityType
    <2> QED
      BY <1>1, <2>1, <2>2
  <1> QED
    BY <1>1, <1>2, <1>3, <1>4

LEMMA BadgesType == ASSUME TypeOK PROVE Badges \in Nat
  BY DEF TypeOK, Badges, Room

\* A step that adds no message, raises no badge and lets no call come nearer
\* to counting keeps the bound.
LEMMA QuietStep ==
  ASSUME TypeOK, TypeOK', BadgeInv, Len(messages') = Len(messages),
         Badges' <= Badges, Counting' \subseteq Counting, Pending' \subseteq Pending
  PROVE  BadgeInv'
  <1>1. Badges \in Nat /\ Badges' \in Nat /\ Len(messages) \in Nat
    BY BadgesType, LenProperties DEF TypeOK, Badges, Room
  <1>2. Counting \subseteq Call /\ Pending \subseteq Call
    BY DEF Counting, Pending
  <1>3. CASE Call = {}
    <2>1. Counting' = Counting /\ Pending' = Pending
      BY <1>2, <1>3
    <2>2. Counting = {} /\ Cardinality(Counting) = 0
      BY <1>2, <1>3, FS_EmptySet
    <2> QED
      BY <1>1, <2>1, <2>2 DEF BadgeInv, BadgesBounded, PendingBounded
  <1>4. CASE Call # {}
    <2>1. PICK c \in Call : TRUE
      BY <1>4
    <2>2. /\ Cardinality(Counting) \in Nat
          /\ Cardinality(Counting') \in Nat
          /\ Cardinality(Counting') <= Cardinality(Counting)
      BY <1>2, <2>1, SlotSets
    <2>3. /\ Cardinality(Pending) \in Nat
          /\ Cardinality(Pending') \in Nat
          /\ Cardinality(Pending') <= Cardinality(Pending)
      BY <1>2, <2>1, SlotSets
    <2>4. Badges' + Cardinality(Counting') <= Len(messages')
      BY <1>1, <2>2 DEF BadgeInv, BadgesBounded
    <2>5. Cardinality(Pending') <= Len(messages')
      BY <1>1, <2>3 DEF BadgeInv, PendingBounded
    <2> QED
      BY <2>4, <2>5 DEF BadgeInv, BadgesBounded, PendingBounded
  <1> QED
    BY <1>3, <1>4

LEMMA NextBadgeInv == Inv /\ Inv' /\ BadgeInv /\ [Next]_vars => BadgeInv'
  <1> SUFFICES ASSUME Inv, Inv', BadgeInv, [Next]_vars PROVE BadgeInv'
    OBVIOUS
  <1>0. /\ TypeOK /\ TypeOK'
        /\ calls \in [Call -> CallState] /\ messages \in Seq(Message)
        /\ Badges \in Nat /\ Len(messages) \in Nat
    BY BadgesType, LenProperties DEF Inv, TypeOK
  <1>00. Counting \subseteq Call /\ Pending \subseteq Call
    BY DEF Counting, Pending
  \* Slots whose pc moves to anything but sendCount and sendCreate.
  <1>1. ASSUME Len(messages') = Len(messages), Badges' <= Badges,
               \A c \in Call : \/ calls'[c].pc = calls[c].pc
                              \/ calls'[c].pc \notin {"sendCount", "sendCreate"}
        PROVE  BadgeInv'
    <2>1. Counting' \subseteq Counting /\ Pending' \subseteq Pending
      BY <1>1 DEF Counting, Pending
    <2> QED
      BY <1>0, <1>1, <2>1, QuietStep
  <1>2. ASSUME NEW c \in Call, NEW u \in User, Begin(c, u) PROVE BadgeInv'
    <2>1. UNCHANGED <<room, messages>>
      BY <1>2 DEF Begin, StartSend, StartRefresh, StartDecision
    <2>2. \A d \in Call : \/ calls'[d].pc = calls[d].pc
                         \/ calls'[d].pc \notin {"sendCount", "sendCreate"}
      <3> DEFINE v(p) == [Idle EXCEPT !.pc = p, !.user = u]
                 w(first) == [Idle EXCEPT !.pc = "sendRead", !.user = u, !.first = first]
      <3>1. /\ \A p : v(p).pc = p
            /\ \A first : w(first).pc = "sendRead"
        BY DEF Idle
      <3>2. \/ \E first : calls' = [calls EXCEPT ![c] = w(first)]
            \/ \E d \in Call : calls' = [calls EXCEPT ![c] = v("resetRead"),
                                                   ![d] = v("markRead")]
            \/ \E answer \in {"accept", "decline"} :
                  calls' = [calls EXCEPT ![c] = v(answer)]
        BY <1>2 DEF Begin, StartSend, StartRefresh, StartDecision
      <3> HIDE DEF v, w
      <3> QED
        BY <1>0, <3>1, <3>2
    <2>3. Badges' = Badges
      BY <2>1 DEF Badges
    <2> QED
      BY <1>0, <1>1, <2>1, <2>2, <2>3
  <1>3. ASSUME NEW c \in Call, SendRead(c) PROVE BadgeInv'
    <2>1. Badges' = Badges /\ messages' = messages
      BY <1>3 DEF SendRead, Badges
    <2>2. \A d \in Call : \/ calls'[d].pc = calls[d].pc
                         \/ calls'[d].pc \notin {"sendCount", "sendCreate"}
      BY <1>0, <1>3 DEF SendRead, CallState
    <2> QED
      BY <1>0, <1>1, <2>1, <2>2
  <1>4. ASSUME NEW c \in Call, SendAdd(c) PROVE BadgeInv'
    <2>1. NewMessage(calls[c].user) \in Message
      BY <1>0, PeerType DEF NewMessage, Message, CallState
    <2>2. Len(messages') = Len(messages) + 1
      BY <1>0, <1>4, <2>1, AppendProperties DEF SendAdd
    <2>3. Badges' = Badges
      BY <1>4 DEF SendAdd, Badges
    <2>4. \A d \in Call \ {c} : calls'[d] = calls[d]
      BY <1>0, <1>4 DEF SendAdd
    <2>5. Counting' \subseteq Counting \cup {c} /\ Pending' \subseteq Pending \cup {c}
      BY <2>4 DEF Counting, Pending
    <2>6. Cardinality(Counting') <= Cardinality(Counting) + 1
      BY <1>00, <1>4, <2>5, SlotSets
    <2>7. Cardinality(Pending') <= Cardinality(Pending) + 1
      BY <1>00, <1>4, <2>5, SlotSets
    <2>8. /\ Cardinality(Counting) \in Nat /\ Cardinality(Pending) \in Nat
          /\ Cardinality(Counting') \in Nat /\ Cardinality(Pending') \in Nat
      <3>1. Counting' \subseteq Call /\ Pending' \subseteq Call
        BY DEF Counting, Pending
      <3> QED
        BY <1>00, <1>4, <3>1, SlotSets
    <2>9. Badges' + Cardinality(Counting') <= Len(messages')
      BY <1>0, <2>2, <2>3, <2>6, <2>8 DEF BadgeInv, BadgesBounded
    <2>10. Cardinality(Pending') <= Len(messages')
      BY <1>0, <2>2, <2>7, <2>8 DEF BadgeInv, PendingBounded
    <2> QED
      BY <2>9, <2>10 DEF BadgeInv, BadgesBounded, PendingBounded
  <1>5. ASSUME NEW c \in Call, SendCreate(c) PROVE BadgeInv'
    <2>1. room' = NewRoom(calls[c].user, calls[c].first, calls[c].msg)
          /\ messages' = messages /\ calls' = [calls EXCEPT ![c] = Idle]
          /\ calls[c].pc = "sendCreate"
      BY <1>5 DEF SendCreate
    <2>2. room' # NoRoom
      BY <1>0, <1>5, <2>1, PeerType, NoRoomIsNoRoom DEF NewRoom, Room, Status, CallState
    <2>3. Badges' = 1
      BY <2>1, <2>2 DEF Badges, NewRoom
    <2>4. /\ c \in Pending /\ Counting' \subseteq Pending \ {c}
          /\ Pending' \subseteq Pending \ {c}
      BY <1>0, <1>5, <2>1 DEF Counting, Pending, Idle
    <2>5. /\ Cardinality(Counting') <= Cardinality(Pending) - 1
          /\ Cardinality(Pending') <= Cardinality(Pending) - 1
      BY <1>00, <1>5, <2>4, SlotSets
    <2>6. /\ Cardinality(Pending) \in Nat /\ Cardinality(Counting') \in Nat
          /\ Cardinality(Pending') \in Nat
      <3>1. Counting' \subseteq Call /\ Pending' \subseteq Call
        BY DEF Counting, Pending
      <3> QED
        BY <1>00, <1>5, <3>1, SlotSets
    <2>7. Badges' + Cardinality(Counting') <= Len(messages')
      BY <1>0, <2>1, <2>3, <2>5, <2>6 DEF BadgeInv, PendingBounded
    <2>8. Cardinality(Pending') <= Len(messages')
      BY <1>0, <2>1, <2>5, <2>6 DEF BadgeInv, PendingBounded
    <2> QED
      BY <2>7, <2>8 DEF BadgeInv, BadgesBounded, PendingBounded
  <1>6. ASSUME NEW c \in Call, SendCount(c) PROVE BadgeInv'
    <2>1. room # NoRoom /\ room \in Room /\ room' # NoRoom
      <3>1. room # NoRoom
        BY <1>6 DEF SendCount, Inv, CallsBacked
      <3>2. room \in Room
        BY <1>0, <3>1 DEF TypeOK
      <3> QED
        BY <1>6, <3>1, <3>2, NoRoomIsNoRoom DEF SendCount, Room
    <2>2. Badges' = Badges + 1
      BY <1>6, <2>1 DEF SendCount, Badges, Room
    <2>3. messages' = messages /\ calls' = [calls EXCEPT ![c].pc = "sendLast"]
          /\ calls[c].pc = "sendCount"
      BY <1>6 DEF SendCount
    <2>4. /\ c \in Counting /\ Counting' \subseteq Counting \ {c}
          /\ Pending' \subseteq Pending
      BY <1>0, <1>6, <2>3 DEF Counting, Pending, CallState
    <2>5. /\ Cardinality(Counting') <= Cardinality(Counting) - 1
          /\ Cardinality(Pending') <= Cardinality(Pending)
      BY <1>00, <1>6, <2>4, SlotSets
    <2>6. /\ Cardinality(Pending) \in Nat /\ Cardinality(Counting) \in Nat
          /\ Cardinality(Counting') \in Nat /\ Cardinality(Pending') \in Nat
      <3>1. Counting' \subseteq Call /\ Pending' \subseteq Call
        BY DEF Counting, Pending
      <3> QED
        BY <1>00, <1>6, <3>1, SlotSets
    <2>7. Badges' + Cardinality(Counting') <= Len(messages')
      BY <1>0, <2>2, <2>3, <2>5, <2>6 DEF BadgeInv, BadgesBounded
    <2>8. Cardinality(Pending') <= Len(messages')
      BY <1>0, <2>3, <2>5, <2>6 DEF BadgeInv, PendingBounded
    <2> QED
      BY <2>7, <2>8 DEF BadgeInv, BadgesBounded, PendingBounded
  <1>7. ASSUME NEW c \in Call,
               SendLast(c) \/ ResetWrite(c) \/ Accept(c) \/ Decline(c)
        PROVE  BadgeInv'
    <2>1. messages' = messages /\ calls' = [calls EXCEPT ![c] = Idle]
      BY <1>7 DEF SendLast, ResetWrite, Accept, Decline, Decide
    <2>2. \A d \in Call : \/ calls'[d].pc = calls[d].pc
                         \/ calls'[d].pc \notin {"sendCount", "sendCreate"}
      BY <1>0, <2>1 DEF Idle
    <2>3. room # NoRoom => room \in Room
      BY <1>0 DEF TypeOK
    <2>4. Badges' <= Badges
      <3>1. CASE room = NoRoom
        <4>1. Accept(c) \/ Decline(c)
          BY <1>7, <3>1 DEF SendLast, ResetWrite, Inv, CallsBacked
        <4>2. room' = NoRoom
          BY <3>1, <4>1 DEF Accept, Decline, Decide
        <4> QED
          BY <1>0, <3>1, <4>2 DEF Badges
      <3>2. CASE room # NoRoom
        <4>1. /\ room'.unreadTo \in {room.unreadTo, 0}
              /\ room'.unreadFrom \in {room.unreadFrom, 0}
          BY <1>7, <2>3, <3>2 DEF SendLast, ResetWrite, Accept, Decline, Decide, Room
        <4>2. room'.unreadTo <= room.unreadTo /\ room'.unreadFrom <= room.unreadFrom
              /\ room'.unreadTo \in Nat /\ room'.unreadFrom \in Nat
              /\ room.unreadTo \in Nat /\ room.unreadFrom \in Nat
          BY <2>3, <3>2, <4>1 DEF Room
        <4> QED
          BY <3>2, <4>2 DEF Badges
      <3> QED
        BY <3>1, <3>2
    <2> QED
      BY <1>1, <2>1, <2>2, <2>4
  <1>8. ASSUME NEW c \in Call, ResetRead(c) \/ MarkRead(c) PROVE BadgeInv'
    <2>1. Badges' = Badges /\ messages' = messages
      BY <1>8 DEF ResetRead, MarkRead, Badges
    <2>2. \A d \in Call : \/ calls'[d].pc = calls[d].pc
                         \/ calls'[d].pc \notin {"sendCount", "sendCreate"}
      <3> DEFINE Moved(v) == calls' = [calls EXCEPT ![c] = v]
                 r == [calls[c] EXCEPT !.pc = "resetWrite", !.snap = Snapshot]
                 m == [calls[c] EXCEPT !.pc = "markWrite", !.msg = Len(messages)]
      <3>1. Moved(Idle) \/ Moved(r) \/ Moved(m)
        <4>1. CASE ResetRead(c)
          BY <1>0, <4>1 DEF ResetRead
        <4>2. CASE MarkRead(c)
          BY <1>0, <4>2 DEF MarkRead
        <4> QED
          BY <1>8, <4>1, <4>2
      <3>2. Idle.pc = "idle" /\ r.pc = "resetWrite" /\ m.pc = "markWrite"
        BY <1>0 DEF Idle, CallState
      <3> HIDE DEF r, m
      <3> QED
        BY <1>0, <3>1, <3>2
    <2> QED
      BY <1>0, <1>1, <2>1, <2>2
  <1>9. ASSUME NEW c \in Call, MarkWrite(c) PROVE BadgeInv'
    <2>1. Badges' = Badges /\ calls' = [calls EXCEPT ![c] = Idle]
      BY <1>9 DEF MarkWrite, Badges
    <2>2. \A d \in Call : \/ calls'[d].pc = calls[d].pc
                         \/ calls'[d].pc \notin {"sendCount", "sendCreate"}
      BY <1>0, <2>1 DEF Idle
    <2>3. Len(messages') = Len(messages)
      BY <1>0, <1>9 DEF MarkWrite
    <2> QED
      BY <1>0, <1>1, <2>1, <2>2, <2>3
  <1>10. ASSUME NEW c \in Call, Abort(c) PROVE BadgeInv'
    <2>1. Badges' = Badges /\ messages' = messages
          /\ calls' = [calls EXCEPT ![c] = Idle]
      BY <1>10 DEF Abort, Badges
    <2>2. \A d \in Call : \/ calls'[d].pc = calls[d].pc
                         \/ calls'[d].pc \notin {"sendCount", "sendCreate"}
      BY <1>0, <2>1 DEF Idle
    <2> QED
      BY <1>0, <1>1, <2>1, <2>2
  <1>11. ASSUME NEW u \in User, Kill(u) PROVE BadgeInv'
    <2>1. Badges' = Badges /\ messages' = messages
      BY <1>11 DEF Kill, Badges
    <2>2. \A d \in Call : \/ calls'[d].pc = calls[d].pc
                         \/ calls'[d].pc \notin {"sendCount", "sendCreate"}
      BY <1>11 DEF Kill, Idle
    <2> QED
      BY <1>0, <1>1, <2>1, <2>2
  <1>12. CASE UNCHANGED vars
    <2>1. Badges' = Badges /\ messages' = messages /\ calls' = calls
      BY <1>12 DEF Badges
    <2> QED
      BY <1>0, <1>1, <2>1
  <1> QED
    BY <1>2, <1>3, <1>4, <1>5, <1>6, <1>7, <1>8, <1>9, <1>10, <1>11, <1>12
    DEF Next, Step

LEMMA InitBadgeInv == Init => BadgeInv
  <1> SUFFICES ASSUME Init PROVE BadgeInv
    OBVIOUS
  <1>1. Counting = {} /\ Pending = {} /\ Badges = 0 /\ Len(messages) = 0
    BY DEF Init, Counting, Pending, Badges, Idle
  <1> QED
    BY <1>1, FS_EmptySet DEF BadgeInv, BadgesBounded, PendingBounded

\* However many sends of the two users overlap and wherever they break off,
\* the two unread badges together never count a message twice.
THEOREM BadgesNeverOvercount == Spec => []BadgesBounded
  <1>1. BadgeInv => BadgesBounded
    BY DEF BadgeInv
  <1> QED
    BY <1>1, InitBadgeInv, NextBadgeInv, Invariant, PTL DEF Spec

=============================================================================
