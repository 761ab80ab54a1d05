--------------------------- MODULE ChatListsProofs ---------------------------
(***************************************************************************)
(* What the chat lists show of a room: the unread badges and the preview   *)
(* of the last message, for any set of call slots and any bounds.          *)
(*                                                                         *)
(* The room's own guarantee comes first (BadgesExact): a message that no   *)
(* badge shows belongs to a call that is about to count it or to create    *)
(* the room with it (Pending).  Then the room's guarantees under the       *)
(* screens, and what the screens add: the preview of users who wait for    *)
(* their sends, and each user's own badge where one user asks.             *)
(***************************************************************************)
EXTENDS ChatPagesProofs

USE DEF At, Goto, Return, Start, hist, vars

Undisturbed == creates <= 1 /\ faults = 0 /\ ~wasReset

Tally == Badges + Cardinality(Pending) = Len(messages)

TallyInv ==
  Undisturbed => Tally /\ (creates = 0 => room = NoRoom)

LEMMA SlotCount ==
  ASSUME NEW A, NEW c, A \subseteq Call, c \in Call
  PROVE  /\ Cardinality(A) \in Nat
         /\ c \in A => Cardinality(A \ {c}) = Cardinality(A) - 1
         /\ c \notin A => Cardinality(A \cup {c}) = Cardinality(A) + 1
  <1>1. IsFiniteSet(A)
    BY CallFinite, FS_Subset
  <1> QED
    BY <1>1, FS_CardinalityType, FS_RemoveElement, FS_AddElement

LEMMA NextTallyInv == Inv /\ Inv' /\ TallyInv /\ [Next]_vars => TallyInv'
  <1> SUFFICES ASSUME Inv, Inv', TallyInv, [Next]_vars PROVE TallyInv'
    OBVIOUS
  <1>0. /\ TypeOK /\ TypeOK' /\ CallsBacked
        /\ calls \in [Call -> CallState] /\ messages \in Seq(Message)
        /\ Badges \in Nat /\ Badges' \in Nat
        /\ Len(messages) \in Nat /\ Len(messages') \in Nat
        /\ creates \in Nat /\ faults \in Nat
        /\ Pending \subseteq Call
    BY BadgesType, LenProperties DEF Inv, TypeOK, Pending, Badges, Room
  \* Steps that leave the tally as it is.
  <1>1. ASSUME Len(messages') = Len(messages), Badges' = Badges,
               creates' = creates, faults' = faults, wasReset' = wasReset,
               room = NoRoom => room' = NoRoom,
               \A d \in Call : calls'[d].pc \in {"sendCount", "sendCreate"}
                                 <=> calls[d].pc \in {"sendCount", "sendCreate"}
        PROVE  TallyInv'
    <2>1. Pending' = Pending
      BY <1>1 DEF Pending
    <2> QED
      BY <1>1, <2>1 DEF TallyInv, Tally, Undisturbed
  <1>2. ASSUME NEW c \in Call, NEW u \in User, Begin(c, u) PROVE TallyInv'
    <2>1. UNCHANGED <<room, messages, creates, faults, wasReset>>
      BY <1>2 DEF Begin, StartSend, StartRefresh, StartDecision
    <2>2. \A d \in Call : calls'[d].pc \in {"sendCount", "sendCreate"}
                            <=> calls[d].pc \in {"sendCount", "sendCreate"}
      <3> DEFINE Taken(v) == [Idle EXCEPT !.pc = v, !.user = u]
      <3>0. calls \in [Call -> CallState]
        BY <1>0
      <3>1. CASE \E first \in FirstStatus : StartSend(c, u, first)
        <4>1. PICK first \in FirstStatus : StartSend(c, u, first)
          BY <3>1
        <4> DEFINE v == [Idle EXCEPT !.pc = "sendRead", !.user = u, !.first = first]
        <4>2. v.pc = "sendRead"
          BY DEF Idle
        <4>3. calls' = [calls EXCEPT ![c] = v] /\ calls[c].pc = "idle"
          BY <4>1 DEF StartSend
        <4> HIDE DEF v
        <4> QED
          BY <3>0, <4>2, <4>3
      <3>2. CASE \E d \in Call : StartRefresh(c, d, u)
        <4>1. PICK d \in Call : StartRefresh(c, d, u)
          BY <3>2
        <4>2. Taken("resetRead").pc = "resetRead" /\ Taken("markRead").pc = "markRead"
          BY DEF Idle
        <4>3. /\ calls' = [calls EXCEPT ![c] = Taken("resetRead"), ![d] = Taken("markRead")]
              /\ calls[c].pc = "idle" /\ calls[d].pc = "idle"
          BY <4>1 DEF StartRefresh
        <4> HIDE DEF Taken
        <4> QED
          BY <3>0, <4>2, <4>3
      <3>3. CASE \E answer \in {"accept", "decline"} : StartDecision(c, u, answer)
        <4>1. PICK answer \in {"accept", "decline"} : StartDecision(c, u, answer)
          BY <3>3
        <4>2. Taken(answer).pc = answer
          BY DEF Idle
        <4>3. calls' = [calls EXCEPT ![c] = Taken(answer)] /\ calls[c].pc = "idle"
          BY <4>1 DEF StartDecision
        <4> HIDE DEF Taken
        <4> QED
          BY <3>0, <4>2, <4>3
      <3> QED
        BY <1>2, <3>1, <3>2, <3>3 DEF Begin
    <2>3. Badges' = Badges
      BY <2>1 DEF Badges
    <2> QED
      BY <1>1, <2>1, <2>2, <2>3
  <1>3. ASSUME NEW c \in Call, SendRead(c) PROVE TallyInv'
    <2>1. Badges' = Badges /\ UNCHANGED <<room, messages, creates, faults, wasReset>>
      BY <1>3 DEF SendRead, Badges
    <2>2. \A d \in Call : calls'[d].pc \in {"sendCount", "sendCreate"}
                            <=> calls[d].pc \in {"sendCount", "sendCreate"}
      BY <1>0, <1>3 DEF SendRead, CallState
    <2> QED
      BY <1>1, <2>1, <2>2
  <1>4. ASSUME NEW c \in Call, SendAdd(c) PROVE TallyInv'
    <2>1. NewMessage(calls[c].user) \in Message
      BY <1>0, PeerType DEF NewMessage, Message, CallState
    <2>2. Len(messages') = Len(messages) + 1
      BY <1>0, <1>4, <2>1, AppendProperties DEF SendAdd
    <2>3. Badges' = Badges /\ UNCHANGED <<room, creates, faults, wasReset>>
      BY <1>4 DEF SendAdd, Badges
    <2>4. /\ \A d \in Call \ {c} : calls'[d] = calls[d]
          /\ calls'[c].pc \in {"sendCount", "sendCreate"}
          /\ calls[c].pc = "sendAdd"
      BY <1>0, <1>4 DEF SendAdd, CallState
    <2>5. c \notin Pending /\ Pending' = Pending \cup {c}
      BY <2>4 DEF Pending
    <2>6. Cardinality(Pending') = Cardinality(Pending) + 1 /\ Cardinality(Pending) \in Nat
      BY <1>0, <1>4, <2>5, SlotCount
    <2> QED
      BY <1>0, <2>2, <2>3, <2>6 DEF TallyInv, Tally, Undisturbed
  <1>5. ASSUME NEW c \in Call, SendCreate(c) PROVE TallyInv'
    <2>1. /\ room' = NewRoom(calls[c].user, calls[c].first, calls[c].msg)
          /\ messages' = messages /\ calls' = [calls EXCEPT ![c] = Idle]
          /\ calls[c].pc = "sendCreate" /\ creates' = creates + 1
          /\ UNCHANGED <<faults, wasReset>>
      BY <1>5 DEF SendCreate
    <2>2. room' # NoRoom
      BY <1>0, <1>5, <2>1, PeerType, NoRoomIsNoRoom DEF NewRoom, Room, Status, CallState
    <2>3. Badges' = 1
      BY <2>1, <2>2 DEF Badges, NewRoom
    <2>4. c \in Pending /\ Pending' = Pending \ {c}
      BY <1>0, <1>5, <2>1 DEF Pending, Idle
    <2>5. Cardinality(Pending') = Cardinality(Pending) - 1 /\ Cardinality(Pending) \in Nat
      BY <1>0, <1>5, <2>4, SlotCount
    <2>6. ASSUME Undisturbed' PROVE Tally' /\ creates' # 0
      <3>1. creates = 0 /\ Undisturbed
        BY <1>0, <2>1, <2>6 DEF Undisturbed
      <3>2. Tally /\ Badges = 0
        BY <3>1 DEF TallyInv, Badges
      <3> QED
        BY <1>0, <2>1, <2>3, <2>5, <3>2 DEF Tally
    <2> QED
      BY <2>6 DEF TallyInv
  <1>6. ASSUME NEW c \in Call, SendCount(c) PROVE TallyInv'
    <2>1. room # NoRoom /\ room \in Room /\ room' # NoRoom
      <3>1. room # NoRoom
        BY <1>0, <1>6 DEF SendCount, CallsBacked
      <3>2. room \in Room
        BY <1>0, <3>1 DEF TypeOK
      <3> QED
        BY <1>6, <3>1, <3>2, NoRoomIsNoRoom DEF SendCount, Room
    <2>2. Badges' = Badges + 1
      BY <1>6, <2>1 DEF SendCount, Badges, Room
    <2>3. messages' = messages /\ calls' = [calls EXCEPT ![c].pc = "sendLast"]
          /\ calls[c].pc = "sendCount" /\ UNCHANGED <<creates, faults, wasReset>>
      BY <1>6 DEF SendCount
    <2>4. c \in Pending /\ Pending' = Pending \ {c}
      BY <1>0, <1>6, <2>3 DEF Pending, CallState
    <2>5. Cardinality(Pending') = Cardinality(Pending) - 1 /\ Cardinality(Pending) \in Nat
      BY <1>0, <1>6, <2>4, SlotCount
    <2> QED
      BY <1>0, <2>1, <2>2, <2>3, <2>5 DEF TallyInv, Tally, Undisturbed
  <1>7. ASSUME NEW c \in Call, SendLast(c) \/ Accept(c) \/ Decline(c) PROVE TallyInv'
    <2>1. /\ messages' = messages /\ calls' = [calls EXCEPT ![c] = Idle]
          /\ UNCHANGED <<creates, faults, wasReset>>
          /\ calls[c].pc \notin {"sendCount", "sendCreate"}
      BY <1>7 DEF SendLast, Accept, Decline, Decide
    <2>2. \A d \in Call : calls'[d].pc \in {"sendCount", "sendCreate"}
                            <=> calls[d].pc \in {"sendCount", "sendCreate"}
      BY <1>0, <2>1 DEF Idle
    <2>3. Badges' = Badges /\ (room = NoRoom => room' = NoRoom)
      <3>1. CASE room = NoRoom
        <4>1. Accept(c) \/ Decline(c)
          BY <1>0, <1>7, <3>1 DEF SendLast, CallsBacked
        <4> QED
          BY <3>1, <4>1 DEF Accept, Decline, Decide, Badges
      <3>2. CASE room # NoRoom
        <4>1. room \in Room
          BY <1>0, <3>2 DEF TypeOK
        <4>2. /\ room' \in Room /\ room'.unreadTo = room.unreadTo
              /\ room'.unreadFrom = room.unreadFrom
          <5>1. SendLast(c) => calls[c].msg \in Nat
            BY <1>0 DEF CallState
          <5> QED
            BY <1>7, <3>2, <4>1, <5>1
            DEF SendLast, Accept, Decline, Decide, Room, Status
        <4> QED
          BY <3>2, <4>2, NoRoomIsNoRoom DEF Badges
      <3> QED
        BY <3>1, <3>2
    <2> QED
      BY <1>1, <2>1, <2>2, <2>3
  <1>8. ASSUME NEW c \in Call, ResetRead(c) \/ MarkRead(c) PROVE TallyInv'
    <2>1. /\ Badges' = Badges /\ messages' = messages /\ room' = room
          /\ UNCHANGED <<creates, faults, wasReset>>
          /\ calls[c].pc \in {"resetRead", "markRead"}
      BY <1>8 DEF ResetRead, MarkRead, Badges
    <2>2. \A d \in Call : calls'[d].pc \in {"sendCount", "sendCreate"}
                            <=> calls[d].pc \in {"sendCount", "sendCreate"}
      <3> DEFINE Becomes(v) == calls' = [calls EXCEPT ![c] = v]
                 r == [calls[c] EXCEPT !.pc = "resetWrite", !.snap = Snapshot]
                 m == [calls[c] EXCEPT !.pc = "markWrite", !.msg = Len(messages)]
      <3>1. Becomes(Idle) \/ Becomes(r) \/ Becomes(m)
        <4>1. CASE ResetRead(c)
          BY <1>0, <4>1 DEF ResetRead
        <4>2. CASE MarkRead(c)
          BY <1>0, <4>2 DEF MarkRead
        <4> QED
          BY <1>8, <4>1, <4>2
      <3>2. Idle.pc = "idle" /\ r.pc = "resetWrite" /\ m.pc = "markWrite"
        BY <1>0 DEF Idle, CallState
      <3> HIDE DEF r, m
      <3> QED
        BY <1>0, <2>1, <3>1, <3>2
    <2> QED
      BY <1>1, <2>1, <2>2
  <1>9. ASSUME NEW c \in Call, MarkWrite(c) PROVE TallyInv'
    <2>1. /\ Badges' = Badges /\ calls' = [calls EXCEPT ![c] = Idle] /\ room' = room
          /\ UNCHANGED <<creates, faults, wasReset>> /\ calls[c].pc = "markWrite"
      BY <1>9 DEF MarkWrite, Badges
    <2>2. \A d \in Call : calls'[d].pc \in {"sendCount", "sendCreate"}
                            <=> calls[d].pc \in {"sendCount", "sendCreate"}
      BY <1>0, <2>1 DEF Idle
    <2>3. Len(messages') = Len(messages)
      BY <1>0, <1>9 DEF MarkWrite
    <2> QED
      BY <1>1, <2>1, <2>2, <2>3
  \* A badge that was reset or a call that failed ends the tally.
  <1>10. ASSUME wasReset' \/ faults' = faults + 1 PROVE TallyInv'
    BY <1>0, <1>10 DEF TallyInv, Undisturbed
  <1>11. ASSUME NEW c \in Call, ResetWrite(c) \/ Abort(c) PROVE TallyInv'
    BY <1>10, <1>11 DEF ResetWrite, Abort
  <1>12. ASSUME NEW u \in User, Kill(u) PROVE TallyInv'
    BY <1>10, <1>12 DEF Kill
  <1>13. CASE UNCHANGED vars
    <2>1. Badges' = Badges
      BY <1>13 DEF Badges
    <2> QED
      BY <1>1, <1>13, <2>1
  <1> QED
    BY <1>2, <1>3, <1>4, <1>5, <1>6, <1>7, <1>8, <1>9, <1>11, <1>12, <1>13
    DEF Next, Step

LEMMA InitTally == Init => TallyInv
  <1> SUFFICES ASSUME Init PROVE TallyInv
    OBVIOUS
  <1>1. Pending = {} /\ Badges = 0 /\ Len(messages) = 0 /\ room = NoRoom
    BY DEF Init, Pending, Badges, Idle
  <1> QED
    BY <1>1, FS_EmptySet DEF TallyInv, Tally

LEMMA ExactFollows == TallyInv => BadgesExact
  <1> SUFFICES ASSUME TallyInv, creates = 1 /\ faults = 0 /\ ~wasReset,
                      \A c \in Call : ~At(c, "sendCreate")
               PROVE  Badges + Cardinality(Counting) = Len(messages)
    BY DEF BadgesExact
  <1>1. Pending = Counting
    BY DEF Pending, Counting
  <1> QED
    BY <1>1 DEF TallyInv, Tally, Undisturbed

\* While nobody resets a badge, no call fails and only one call created the room,
\* the badges (and the calls about to count) show every stored message, however
\* many sends overlap.
THEOREM BadgesCountEverything == Spec => []BadgesExact
  BY InitTally, NextTallyInv, ExactFollows, Invariant, PTL DEF Spec

-----------------------------------------------------------------------------
(* The room under the screens                                               *)

\* A read of a page that fails changes nothing the room's invariants speak of.
LEMMA NextScreens ==
  ASSUME PagesInv, PagesInv', BadgeInv, TallyInv, OrphanInv, [PagesNext]_allVars
  PROVE  /\ BadgeInv' /\ TallyInv' /\ OrphanInv'
         /\ [SeenStep]_vars
  <1>0. Inv /\ Marked /\ Inv' /\ PagesTypeOK
    BY DEF PagesInv
  <1>1. CASE [Next]_vars
    BY <1>0, <1>1, NextBadgeInv, NextTallyInv, NextOrphan, NextSeen
  <1>2. CASE /\ UNCHANGED <<room, messages, calls, creates, wasReset>>
             /\ faults' = faults + 1
    <2>1. faults \in Nat /\ Len(messages) \in Nat
      BY <1>0, LenProperties DEF Inv, TypeOK
    <2>2. Badges' = Badges /\ Counting' = Counting /\ Pending' = Pending
      BY <1>2 DEF Badges, Counting, Pending
    <2>3. BadgeInv'
      BY <1>2, <2>2 DEF BadgeInv, BadgesBounded, PendingBounded
    <2>4. TallyInv' /\ OrphanInv'
      BY <1>2, <2>1 DEF TallyInv, Undisturbed, OrphanInv
    <2>5. SeenStep
      BY <1>2, <2>1 DEF SeenStep
    <2> QED
      BY <2>3, <2>4, <2>5
  <1> QED
    BY <1>0, <1>1, <1>2, RoomSteps

\* The screens only take steps the room allows, or fail to read it, so that what
\* the room promises for any calls holds of the calls the screens make: the
\* document has its messages, the badges count each message once and miss none
\* undisturbed, only a failure leaves messages without a room, and no message is
\* rewritten or dropped.  (The seen marks are those of ChatReading.)
THEOREM ScreensKeepRoom ==
  PagesSpec => /\ [](/\ RoomBacked /\ CallsBacked /\ BadgesBounded
                     /\ BadgesExact /\ OrphanOnlyByFault)
               /\ SeenByAddressee
  <1>1. PagesInit => BadgeInv /\ TallyInv /\ OrphanInv
    BY InitBadgeInv, InitTally, InitOrphan DEF PagesInit
  <1>2. PagesInv /\ PagesInv' /\ BadgeInv /\ TallyInv /\ OrphanInv /\ [PagesNext]_allVars
          => BadgeInv' /\ TallyInv' /\ OrphanInv' /\ [SeenStep]_vars
    BY NextScreens
  <1>3. PagesInv /\ BadgeInv /\ TallyInv /\ OrphanInv
          => /\ RoomBacked /\ CallsBacked /\ BadgesBounded
             /\ BadgesExact /\ OrphanOnlyByFault
    BY ExactFollows, OrphanFollows DEF PagesInv, Inv, BadgeInv
  <1>4. [][SeenStep]_vars => SeenByAddressee
    BY PTL DEF SeenStep, SeenByAddressee
  <1> QED
    BY <1>1, <1>2, <1>3, <1>4, PagesInvariant, PTL DEF PagesSpec

-----------------------------------------------------------------------------
(* What a request of a call does to the fields of the room                  *)

\* A call that is at a request is the only action of that request.
LEMMA StepAt ==
  ASSUME NEW c \in Call, Step(c)
  PROVE  /\ At(c, "sendRead") => SendRead(c)
         /\ At(c, "sendAdd") => SendAdd(c)
         /\ At(c, "sendCreate") => SendCreate(c)
         /\ At(c, "sendCount") => SendCount(c)
         /\ At(c, "sendLast") => SendLast(c)
         /\ calls[c].pc \in {"accept", "decline"} => Accept(c) \/ Decline(c)
         /\ At(c, "resetWrite") => ResetWrite(c)
         /\ calls[c].pc \notin {"sendCreate", "sendCount", "sendLast", "resetWrite",
                                "accept", "decline"} => room' = room
  BY DEF Step, SendRead, SendAdd, SendCreate, SendCount, SendLast, ResetRead,
     ResetWrite, MarkRead, MarkWrite, Accept, Decline

\* A send keeps what it read and the message it added.
LEMMA SendSteps ==
  ASSUME Inv, NEW c \in Call, Step(c)
  PROVE  /\ At(c, "sendRead") => calls'[c].snap = Snapshot
         /\ At(c, "sendAdd") => /\ messages' = Append(messages, NewMessage(calls[c].user))
                                /\ calls'[c].msg = Len(messages) + 1
                                /\ calls'[c].snap = calls[c].snap
         /\ At(c, "sendCount") => /\ calls'[c].msg = calls[c].msg
                                  /\ calls'[c].snap = calls[c].snap
  <1>0. calls \in [Call -> CallState]
    BY DEF Inv, TypeOK
  <1>1. CASE At(c, "sendRead")
    <2>1. calls'[c] = [calls[c] EXCEPT !.pc = "sendAdd", !.snap = Snapshot]
      BY <1>0, <1>1, StepAt DEF SendRead
    <2> QED
      BY <1>0, <1>1, <2>1 DEF CallState
  <1>2. CASE At(c, "sendAdd")
    <2> DEFINE p == IF calls[c].snap = NoRoom THEN "sendCreate" ELSE "sendCount"
    <2>1. /\ calls'[c] = [calls[c] EXCEPT !.pc = p, !.msg = Len(messages) + 1]
          /\ messages' = Append(messages, NewMessage(calls[c].user))
      BY <1>0, <1>2, StepAt DEF SendAdd
    <2> HIDE DEF p
    <2> QED
      BY <1>0, <1>2, <2>1 DEF CallState
  <1>3. CASE At(c, "sendCount")
    <2>1. calls'[c] = [calls[c] EXCEPT !.pc = "sendLast"]
      BY <1>0, <1>3, StepAt DEF SendCount
    <2> QED
      BY <1>0, <1>3, <2>1 DEF CallState
  <1> QED
    BY <1>1, <1>2, <1>3

\* set() writes every field; no update changes the roles, only the last request
\* of a send the preview, and only an increment raises a badge.
LEMMA RoomFields ==
  ASSUME Inv, NEW c \in Call, Step(c)
  PROVE  /\ At(c, "sendCreate") =>
              /\ room'.sender = calls[c].user /\ room'.receiver = Peer(calls[c].user)
              /\ room'.unreadTo = 1 /\ room'.unreadFrom = 0
              /\ room'.last = calls[c].msg
         /\ room # NoRoom /\ ~At(c, "sendCreate") =>
              /\ room'.sender = room.sender /\ room'.receiver = room.receiver
              /\ room'.last = IF At(c, "sendLast") THEN calls[c].msg ELSE room.last
              /\ \/ room'.unreadTo \in {room.unreadTo, 0}
                 \/ /\ At(c, "sendCount") /\ calls[c].user = calls[c].snap.sender
                    /\ room'.unreadTo = room.unreadTo + 1
              /\ \/ room'.unreadFrom \in {room.unreadFrom, 0}
                 \/ /\ At(c, "sendCount") /\ calls[c].user # calls[c].snap.sender
                    /\ room'.unreadFrom = room.unreadFrom + 1
  <1>0. /\ calls \in [Call -> CallState] /\ room \in Room \cup {NoRoom}
        /\ calls[c].msg \in Nat
    BY DEF Inv, TypeOK, CallState
  <1>1. CASE At(c, "sendCreate")
    BY <1>1, StepAt DEF SendCreate, NewRoom
  <1>2. CASE ~At(c, "sendCreate") /\ room # NoRoom
    <2>0. room \in Room
      BY <1>0, <1>2
    <2>1. CASE At(c, "sendCount")
      BY <1>2, <2>0, <2>1, StepAt DEF SendCount, Room
    <2>2. CASE At(c, "sendLast")
      BY <1>0, <1>2, <2>0, <2>2, StepAt DEF SendLast, Room
    <2>3. CASE At(c, "resetWrite")
      BY <1>2, <2>0, <2>3, StepAt DEF ResetWrite, Room
    <2>4. CASE calls[c].pc \in {"accept", "decline"}
      BY <1>2, <2>0, <2>4, StepAt DEF Accept, Decline, Decide, Room
    <2>5. CASE calls[c].pc \notin {"sendCount", "sendLast", "resetWrite", "accept", "decline"}
      BY <1>2, <2>5, StepAt
    <2> QED
      BY <2>1, <2>2, <2>3, <2>4, <2>5
  <1> QED
    BY <1>1, <1>2

-----------------------------------------------------------------------------
(***************************************************************************)
(* The preview.  Every send ends by writing its message as the preview,    *)
(* and sends of two users may end in any order.  A user who waits for a    *)
(* send to return has one call that is about to write the preview, with    *)
(* his newest message, and as long as nothing fails a message of his that  *)
(* is newer than his preview is the message of that call.                  *)
(***************************************************************************)
Late == {"sendCreate", "sendCount", "sendLast"}

Newest(i) == \A j \in DOMAIN messages : j > i => messages[j].from # messages[i].from

LateNewest ==
  \A c \in Call : calls[c].pc \in Late =>
    messages[calls[c].msg].from = calls[c].user /\ Newest(calls[c].msg)

ToComeLast ==
  faults = 0 /\ room # NoRoom =>
    \A i \in DOMAIN messages :
      i > room.last /\ messages[i].from = messages[room.last].from =>
        \E c \in Call : calls[c].pc \in Late /\ calls[c].msg = i

PreviewInv == OneAtOnce /\ LateNewest /\ ToComeLast

\* Users who wait have one send each.
LEMMA OwnSend ==
  ASSUME PagesInv, OneAtOnce, NEW c \in Call, NEW d \in Call,
         calls[c].pc \in Sends, calls[d].pc \in Sends, calls[c].user = calls[d].user
  PROVE  c = d
  <1>1. Writing(c) /\ Writing(d) /\ tap[c].user = calls[c].user /\ tap[d].user = calls[d].user
    BY DEF PagesInv, Slots, SlotOK, Writing
  <1> QED
    BY <1>1 DEF OneAtOnce

\* What is there of messages stays, and the server adds one of the sender.
LEMMA StepSenders ==
  ASSUME PagesInv, NEW c \in Call, Step(c)
  PROVE  /\ Len(messages) \in Nat /\ DOMAIN messages = 1..Len(messages)
         /\ \A i \in DOMAIN messages : /\ messages'[i].from = messages[i].from
                                       /\ messages'[i].to = messages[i].to
         /\ ~At(c, "sendAdd") => DOMAIN messages' = DOMAIN messages
         /\ At(c, "sendAdd") =>
              /\ DOMAIN messages' = DOMAIN messages \cup {Len(messages) + 1}
              /\ messages'[Len(messages) + 1].from = calls[c].user
              /\ messages'[Len(messages) + 1].to = Peer(calls[c].user)
  <1>0. /\ Inv /\ Marked /\ messages \in Seq(Message) /\ Len(messages) \in Nat
        /\ DOMAIN messages = 1..Len(messages) /\ calls[c].user \in User
    BY LenProperties, TapTypes DEF PagesInv, Inv, TypeOK
  <1>1. /\ Len(messages') \in Nat
        /\ At(c, "sendAdd") => Len(messages') = Len(messages) + 1
        /\ ~At(c, "sendAdd") => Len(messages') = Len(messages)
        /\ \A i \in DOMAIN messages : /\ messages'[i].from = messages[i].from
                                      /\ messages'[i].to = messages[i].to
    BY <1>0, StepMessages
  <1>2. CASE At(c, "sendAdd")
    <2>1. NewMessage(calls[c].user) \in Message
      BY <1>0, PeerType DEF NewMessage, Message
    <2>2. messages' = Append(messages, NewMessage(calls[c].user))
      BY <1>0, <1>2, SendSteps
    <2>3. /\ messages' \in Seq(Message) /\ Len(messages') = Len(messages) + 1
          /\ messages'[Len(messages) + 1] = NewMessage(calls[c].user)
      BY <1>0, <2>1, <2>2, AppendProperties
    <2>4. DOMAIN messages' = 1..(Len(messages) + 1)
      BY <2>3, LenProperties
    <2> QED
      BY <1>0, <1>1, <1>2, <2>3, <2>4 DEF NewMessage
  <1>3. CASE ~At(c, "sendAdd")
    <2>1. messages' \in Seq(Message) \/ DOMAIN messages' = DOMAIN messages
      <3>1. CASE MarkWrite(c)
        BY <3>1 DEF MarkWrite
      <3>2. CASE ~MarkWrite(c)
        BY <1>3, <3>2 DEF Step, SendRead, SendAdd, SendCreate, SendCount, SendLast,
           ResetRead, ResetWrite, MarkRead, Accept, Decline, Decide
      <3> QED
        BY <3>1, <3>2
    <2>2. DOMAIN messages' = DOMAIN messages
      BY <1>0, <1>1, <1>3, <2>1, LenProperties
    <2> QED
      BY <1>0, <1>1, <1>3, <2>2
  <1> QED
    BY <1>2, <1>3

\* Failures are only counted up.
LEMMA RoomFaults ==
  ASSUME PagesInv, [PagesNext]_allVars
  PROVE  faults \in Nat /\ faults' \in {faults, faults + 1}
  <1>0. PagesTypeOK /\ Inv /\ faults \in Nat
    BY DEF PagesInv, Inv, TypeOK
  <1>1. CASE [Next]_vars
    BY <1>0, <1>1, Steps DEF Next, Begin, StartSend, StartRefresh, StartDecision, Abort, Kill
  <1> QED
    BY <1>0, <1>1, RoomSteps

LEMMA LateStays ==
  ASSUME PagesInv, PagesInv', PreviewInv, NEW c \in Call, Step(c)
  PROVE  LateNewest'
  <1>0. /\ Inv /\ Marked /\ CallsBacked /\ LateNewest /\ OneAtOnce
    BY DEF PagesInv, Inv, PreviewInv
  <1>1. /\ \A d \in Call \ {c} : calls'[d] = calls[d]
        /\ calls'[c].pc \in Late =>
             /\ calls'[c].user = calls[c].user
             /\ calls[c].pc \in {"sendAdd", "sendCount"}
    BY <1>0, Steps DEF Moved, Late, Idle
  <1>2. ASSUME NEW d \in Call, calls[d].pc \in Late, d # c \/ At(c, "sendCount")
        PROVE  /\ calls[d].msg \in DOMAIN messages
               /\ messages'[calls[d].msg].from = calls[d].user
               /\ \A j \in DOMAIN messages' : j > calls[d].msg =>
                    messages'[j].from # calls[d].user
    <2>1. /\ calls[d].msg \in DOMAIN messages /\ Newest(calls[d].msg)
          /\ messages[calls[d].msg].from = calls[d].user
      BY <1>0, <1>2 DEF LateNewest, CallsBacked, Late
    <2>2. At(c, "sendAdd") => calls[c].user # calls[d].user
      BY <1>0, <1>2, OwnSend DEF Late, Sends
    <2> QED
      BY <2>1, <2>2, StepSenders DEF Newest
  <1>3. ASSUME NEW d \in Call, calls'[d].pc \in Late
        PROVE  /\ messages'[calls'[d].msg].from = calls'[d].user
               /\ \A j \in DOMAIN messages' : j > calls'[d].msg =>
                    messages'[j].from # calls'[d].user
    <2>1. CASE d # c
      BY <1>1, <1>2, <1>3, <2>1
    <2>2. CASE d = c /\ At(c, "sendCount")
      <3>1. calls'[c].msg = calls[c].msg /\ calls'[c].user = calls[c].user
        BY <1>0, <1>1, <1>3, <2>2, SendSteps
      <3> QED
        BY <1>2, <2>2, <3>1 DEF Late
    <2>3. CASE d = c /\ At(c, "sendAdd")
      <3>1. calls'[c].msg = Len(messages) + 1 /\ calls'[c].user = calls[c].user
        BY <1>0, <1>1, <1>3, <2>3, SendSteps
      <3>2. /\ Len(messages) \in Nat /\ DOMAIN messages = 1..Len(messages)
            /\ DOMAIN messages' = DOMAIN messages \cup {Len(messages) + 1}
            /\ messages'[Len(messages) + 1].from = calls[c].user
        BY <2>3, StepSenders
      <3>3. \A j \in DOMAIN messages' : ~(j > Len(messages) + 1)
        BY <3>2
      <3> QED
        BY <2>3, <3>1, <3>2, <3>3
    <2> QED
      BY <1>1, <1>3, <2>1, <2>2, <2>3
  <1> QED
    BY <1>3 DEF LateNewest, Newest

LEMMA ToComeStays ==
  ASSUME PagesInv, PagesInv', PreviewInv, NEW c \in Call, Step(c)
  PROVE  ToComeLast'
  <1>0. /\ Inv /\ Marked /\ CallsBacked /\ LateNewest /\ ToComeLast /\ RoomBacked
    BY DEF PagesInv, Inv, PreviewInv
  <1> SUFFICES ASSUME faults' = 0, room' # NoRoom, NEW i \in DOMAIN messages',
                      i > room'.last,
                      messages'[i].from = messages'[room'.last].from
               PROVE  \E d \in Call : calls'[d].pc \in Late /\ calls'[d].msg = i
    BY DEF ToComeLast
  <1>1. /\ faults = 0
        /\ \A d \in Call \ {c} : calls'[d] = calls[d]
        /\ Moved(c) \/ calls[c].pc \notin {"sendRead", "sendAdd", "sendCount"}
    BY <1>0, Steps
  \* The call writes its message, the newest of its user.
  <1>2. CASE At(c, "sendCreate") \/ At(c, "sendLast")
    <2>1. room # NoRoom \/ At(c, "sendCreate")
      BY <1>0, <1>2 DEF CallsBacked
    <2>2. room'.last = calls[c].msg
      BY <1>0, <1>2, <2>1, RoomFields
    <2>3. calls[c].msg \in DOMAIN messages /\ Newest(calls[c].msg)
      BY <1>0, <1>2 DEF LateNewest, CallsBacked, Late
    <2>4. DOMAIN messages' = DOMAIN messages
          /\ \A j \in DOMAIN messages : messages'[j].from = messages[j].from
      BY <1>2, StepSenders
    <2> QED
      BY <2>2, <2>3, <2>4 DEF Newest
  <1>3. CASE ~At(c, "sendCreate") /\ ~At(c, "sendLast")
    <2>1. room # NoRoom
      BY <1>0, <1>3, StepRoom DEF SendCreate
    <2>2. room'.last = room.last
      BY <1>0, <1>3, <2>1, RoomFields
    <2>3. room.last \in DOMAIN messages
      BY <1>0, <2>1 DEF RoomBacked
    <2>4. ASSUME i \in DOMAIN messages
          PROVE  \E d \in Call : calls'[d].pc \in Late /\ calls'[d].msg = i
      <3>1. messages[i].from = messages[room.last].from
        BY <2>2, <2>3, <2>4, StepSenders
      <3>2. PICK d \in Call : calls[d].pc \in Late /\ calls[d].msg = i
        BY <1>0, <1>1, <2>1, <2>2, <2>4, <3>1 DEF ToComeLast
      <3>3. CASE d # c
        BY <1>1, <3>2, <3>3
      <3>4. CASE d = c
        <4>1. At(c, "sendCount")
          BY <1>3, <3>2, <3>4 DEF Late
        <4>2. calls'[c].pc = "sendLast" /\ calls'[c].msg = i
          BY <1>0, <1>1, <3>2, <3>4, <4>1, SendSteps DEF Moved
        <4> QED
          BY <4>2 DEF Late
      <3> QED
        BY <3>3, <3>4
    <2>5. ASSUME i \notin DOMAIN messages
          PROVE  \E d \in Call : calls'[d].pc \in Late /\ calls'[d].msg = i
      <3>1. At(c, "sendAdd") /\ i = Len(messages) + 1
        BY <2>5, StepSenders
      <3>2. calls'[c].pc \in {"sendCreate", "sendCount"} /\ calls'[c].msg = i
        BY <1>0, <1>1, <3>1, SendSteps DEF Moved
      <3> QED
        BY <3>2 DEF Late
    <2> QED
      BY <2>4, <2>5
  <1> QED
    BY <1>2, <1>3

LEMMA NextPreview ==
  ASSUME PagesInv, PagesInv', [PagesNext]_allVars, OneAtATime, PreviewInv
  PROVE  PreviewInv'
  <1>0. /\ OneAtOnce /\ LateNewest /\ ToComeLast /\ faults \in Nat
        /\ calls \in [Call -> CallState]
    BY DEF PreviewInv, PagesInv, Inv, TypeOK
  <1>1. OneAtOnce'
    BY <1>0, OnceStays
  \* Calls that write the preview go on, or a failure is counted.
  <1>2. ASSUME UNCHANGED <<room, messages>>,
               \A c \in Call : \/ calls'[c] = calls[c]
                               \/ calls'[c].pc = "idle" /\ faults' = faults + 1
                               \/ calls[c].pc = "idle" /\ calls'[c].pc \notin Late,
               faults' \in Nat, faults' >= faults
        PROVE  LateNewest' /\ ToComeLast'
    <2>1. LateNewest'
      BY <1>0, <1>2 DEF LateNewest, Newest, Late
    <2>2. ToComeLast'
      <3> SUFFICES ASSUME faults' = 0, room' # NoRoom, NEW i \in DOMAIN messages',
                          i > room'.last,
                          messages'[i].from = messages'[room'.last].from
                   PROVE  \E d \in Call : calls'[d].pc \in Late /\ calls'[d].msg = i
        BY DEF ToComeLast
      <3>1. faults = 0 /\ faults' # faults + 1
        BY <1>0, <1>2
      <3>2. PICK d \in Call : calls[d].pc \in Late /\ calls[d].msg = i
        BY <1>0, <1>2, <3>1 DEF ToComeLast
      <3>3. calls'[d] = calls[d]
        BY <1>2, <3>1, <3>2 DEF Late
      <3> QED
        BY <3>2, <3>3
    <2> QED
      BY <2>1, <2>2
  <1>3. ASSUME NEW c \in Call, ServerStep(c) PROVE LateNewest' /\ ToComeLast'
    <2>1. CASE Step(c)
      BY <2>1, LateStays, ToComeStays
    <2>2. CASE Abort(c)
      <3>1. /\ UNCHANGED <<room, messages>> /\ faults' = faults + 1
            /\ \A d \in Call : calls'[d] = calls[d] \/ calls'[d].pc = "idle"
        BY <1>0, <2>2 DEF Abort, Idle
      <3> QED
        BY <1>0, <1>2, <3>1
    <2> QED
      BY <1>3, <2>1, <2>2 DEF ServerStep
  <1>4. ASSUME ~ \E c \in Call : ServerStep(c) PROVE LateNewest' /\ ToComeLast'
    <2>1. UNCHANGED <<room, messages>> /\ \A c \in Call : Quiet(c)
      BY <1>4, QuietSteps
    <2>2. faults' \in Nat /\ faults' >= faults
      BY <1>0, RoomFaults
    <2>3. \A c \in Call : \/ calls'[c] = calls[c]
                          \/ calls'[c].pc = "idle" /\ faults' = faults + 1
                          \/ calls[c].pc = "idle" /\ calls'[c].pc \notin Late
      BY <2>1 DEF Quiet, Idle, Late
    <2> QED
      BY <1>2, <2>1, <2>2, <2>3
  <1> QED
    BY <1>1, <1>3, <1>4 DEF PreviewInv

\* If every user waits for a send to return before he sends again, then whoever
\* starts, whatever is sent and however the sends of the two users cross, the
\* preview in the chat lists is the latest message of one of them once nothing
\* is in flight and nothing has failed.
THEOREM PreviewsAreRecent ==
  ASSUME OneAtATime
  PROVE  PagesSpec => []PreviewIsRecent
  <1>1. PagesInit => PreviewInv
    <2> SUFFICES ASSUME PagesInit PROVE PreviewInv
      OBVIOUS
    <2>1. room = NoRoom /\ \A c \in Call : calls[c].pc = "idle" /\ tap[c] = NoTap
      BY DEF PagesInit, Init, Idle
    <2> QED
      BY <2>1 DEF PreviewInv, OneAtOnce, Writing, LateNewest, ToComeLast, Late
  <1>2. PagesInv /\ PagesInv' /\ PreviewInv /\ [PagesNext]_allVars => PreviewInv'
    BY NextPreview
  <1>3. PreviewInv => PreviewIsRecent
    <2> SUFFICES ASSUME PreviewInv, room # NoRoom, Quiescent, faults = 0,
                        NEW i \in DOMAIN messages, i > room.last,
                        messages[i].from = messages[room.last].from
                 PROVE  FALSE
      BY DEF PreviewIsRecent
    <2>1. PICK c \in Call : calls[c].pc \in Late
      BY DEF PreviewInv, ToComeLast
    <2> QED
      BY <2>1 DEF Quiescent, Sending, Late
  <1> QED
    BY <1>1, <1>2, <1>3, PagesInvariant, PTL DEF PagesSpec

-----------------------------------------------------------------------------
(***************************************************************************)
(* Each user's badge.  The field a send counts in is chosen by the roles   *)
(* it read, so a badge is its user's own as long as the roles never        *)
(* change: only the user who asks ever reaches set(), because the peer     *)
(* has no page before the room is there.  Then a message of u's peer is    *)
(* shown by u's badge, has been read, or belongs to a call that is about   *)
(* to count it or to create the room with it.                              *)
(***************************************************************************)
Received(u) == {i \in DOMAIN messages : messages[i].to = u}

ToCount(u) ==
  {c \in Call : calls[c].pc \in {"sendCount", "sendCreate"} /\ calls[c].user = Peer(u)}

Counted ==
  \A u \in User : BadgeOf(u) + Cardinality(ToCount(u)) <= Cardinality(Received(u))

AskerCreates(a) ==
  /\ room # NoRoom => room.sender = a /\ room.receiver = Peer(a)
  /\ \A c \in Call :
       /\ calls[c].pc \in {"sendAdd", "sendCount"} /\ calls[c].snap # NoRoom
            => calls[c].snap.sender = a
       /\ At(c, "sendAdd") /\ calls[c].snap = NoRoom => calls[c].user = a
       /\ At(c, "sendCreate") => calls[c].user = a

ReceivedInv(a) == AskerAlone(a) /\ AskerCreates(a) /\ Counted

LEMMA Peers ==
  ASSUME NEW a \in User
  PROVE  /\ Peer(a) \in User /\ Peer(a) # a /\ Peer(Peer(a)) = a
         /\ \A u \in User : u = a \/ u = Peer(a)
  BY UsersDiffer DEF User, Peer

CountsTyped ==
  \A u \in User : /\ IsFiniteSet(Received(u)) /\ Cardinality(Received(u)) \in Nat
                  /\ BadgeOf(u) \in Nat /\ ToCount(u) \subseteq Call
                  /\ Cardinality(ToCount(u)) \in Nat

LEMMA ReceivedType == Inv => CountsTyped
  <1> SUFFICES ASSUME Inv, NEW u \in User
               PROVE  /\ IsFiniteSet(Received(u)) /\ Cardinality(Received(u)) \in Nat
                      /\ BadgeOf(u) \in Nat /\ ToCount(u) \subseteq Call
                      /\ Cardinality(ToCount(u)) \in Nat
    BY DEF CountsTyped
  <1>1. Len(messages) \in Nat /\ DOMAIN messages = 1..Len(messages)
    BY LenProperties DEF Inv, TypeOK
  <1>2. IsFiniteSet(DOMAIN messages) /\ Received(u) \subseteq DOMAIN messages
    BY <1>1, FS_Interval DEF Received
  <1>3. IsFiniteSet(Received(u)) /\ Cardinality(Received(u)) \in Nat
    BY <1>2, FS_Subset, FS_CardinalityType
  <1>4. BadgeOf(u) \in Nat
    BY DEF BadgeOf, Inv, TypeOK, Room
  <1>5. ToCount(u) \subseteq Call
    BY DEF ToCount
  <1>6. Cardinality(ToCount(u)) \in Nat
    BY <1>5, CallFinite, FS_Subset, FS_CardinalityType
  <1> QED
    BY <1>3, <1>4, <1>5, <1>6

LEMMA ReceivedTypeNext == Inv' => CountsTyped'
  BY ReceivedType, PTL

\* What is on the way to a badge, counted call by call.
LEMMA CountStep ==
  ASSUME Inv, Inv', Counted, NEW c \in Call, NEW u \in User,
         \/ /\ Received(u)' = Received(u)
            /\ \/ BadgeOf(u)' <= BadgeOf(u) /\ ToCount(u)' \subseteq ToCount(u)
               \/ /\ BadgeOf(u)' <= BadgeOf(u) + 1 /\ c \in ToCount(u)
                  /\ ToCount(u)' \subseteq ToCount(u) \ {c}
         \/ /\ BadgeOf(u)' = BadgeOf(u) /\ ToCount(u)' \subseteq ToCount(u) \cup {c}
            /\ \E i : i \notin Received(u) /\ Received(u)' = Received(u) \cup {i}
  PROVE  BadgeOf(u)' + Cardinality(ToCount(u)') <= Cardinality(Received(u)')
  <1>1. /\ IsFiniteSet(Received(u)) /\ Cardinality(Received(u)) \in Nat
        /\ BadgeOf(u) \in Nat /\ BadgeOf(u)' \in Nat
        /\ ToCount(u) \subseteq Call /\ ToCount(u)' \subseteq Call
        /\ Cardinality(ToCount(u)) \in Nat /\ Cardinality(ToCount(u)') \in Nat
        /\ BadgeOf(u) + Cardinality(ToCount(u)) <= Cardinality(Received(u))
    BY ReceivedType, ReceivedTypeNext DEF Counted, CountsTyped, User
  <1>2. /\ ToCount(u)' \subseteq ToCount(u)
             => Cardinality(ToCount(u)') <= Cardinality(ToCount(u))
        /\ c \in ToCount(u) /\ ToCount(u)' \subseteq ToCount(u) \ {c}
             => Cardinality(ToCount(u)') <= Cardinality(ToCount(u)) - 1
        /\ ToCount(u)' \subseteq ToCount(u) \cup {c}
             => Cardinality(ToCount(u)') <= Cardinality(ToCount(u)) + 1
    BY <1>1, SlotSets
  <1>3. ASSUME NEW i, i \notin Received(u), Received(u)' = Received(u) \cup {i}
        PROVE  Cardinality(Received(u)') = Cardinality(Received(u)) + 1
    BY <1>1, <1>3, FS_AddElement
  <1> QED
    BY <1>1, <1>2, <1>3

\* The calls and the room keep to the roles of the user who asked.
LEMMA CreatesStays ==
  ASSUME PagesInv, PagesInv', NEW a \in User, AskerAlone(a), AskerCreates(a),
         NEW c \in Call, Step(c)
  PROVE  AskerCreates(a)'
  <1>0. /\ Inv /\ TypeOK
        /\ \A d \in Call \ {c} : calls'[d] = calls[d]
        /\ Moved(c) \/ calls'[c].pc = "idle"
    BY Steps DEF PagesInv, Inv, Idle
  <1>1. room' # NoRoom => room'.sender = a /\ room'.receiver = Peer(a)
    <2>1. CASE At(c, "sendCreate")
      BY <1>0, <2>1, RoomFields DEF AskerCreates
    <2>2. CASE ~At(c, "sendCreate")
      <3>1. room' # NoRoom => room # NoRoom
        BY <1>0, <2>2, StepRoom DEF SendCreate
      <3> QED
        BY <1>0, <2>2, <3>1, RoomFields DEF AskerCreates
    <2> QED
      BY <2>1, <2>2
  <1>2. /\ calls'[c].pc \in {"sendAdd", "sendCount"} /\ calls'[c].snap # NoRoom
             => calls'[c].snap.sender = a
        /\ calls'[c].pc = "sendAdd" /\ calls'[c].snap = NoRoom => calls'[c].user = a
        /\ calls'[c].pc = "sendCreate" => calls'[c].user = a
    <2>1. CASE At(c, "sendRead")
      <3>1. calls'[c].pc = "sendAdd" /\ calls'[c].snap = Snapshot
            /\ calls'[c].user = calls[c].user
        BY <1>0, <2>1, Steps DEF Moved
      <3>2. CASE room # NoRoom
        <4>1. Snapshot # NoRoom /\ Snapshot.sender = room.sender
          BY <1>0, <3>2, SnapshotType DEF Snapshot
        <4> QED
          BY <3>1, <3>2, <4>1 DEF AskerCreates
      <3>3. CASE room = NoRoom
        <4>1. Snapshot = NoRoom
          BY <3>3 DEF Snapshot
        <4>2. Writing(c) /\ tap[c].user = calls[c].user
          BY <2>1 DEF PagesInv, Slots, SlotOK, Writing, Sends
        <4>3. calls[c].user = a
          BY <3>3, <4>2 DEF AskerAlone
        <4> QED
          BY <3>1, <4>1, <4>3
      <3> QED
        BY <3>2, <3>3
    <2>2. CASE At(c, "sendAdd")
      <3>1. /\ calls'[c].snap = calls[c].snap /\ calls'[c].user = calls[c].user
            /\ calls'[c].pc = IF calls[c].snap = NoRoom THEN "sendCreate" ELSE "sendCount"
        BY <1>0, <2>2, Steps, SendSteps DEF Moved
      <3> QED
        BY <2>2, <3>1 DEF AskerCreates
    <2>3. CASE ~At(c, "sendRead") /\ ~At(c, "sendAdd")
      BY <1>0, <2>3 DEF Moved
    <2> QED
      BY <2>1, <2>2, <2>3
  <1> QED
    BY <1>0, <1>1, <1>2 DEF AskerCreates

\* How the sets of the tally move under a request of a call.
LEMMA TallySets ==
  ASSUME PagesInv, NEW c \in Call, Step(c), NEW u \in User
  PROVE  /\ ~At(c, "sendAdd") => /\ Received(u)' = Received(u)
                                 /\ ToCount(u)' \subseteq ToCount(u)
         /\ calls[c].pc \in {"sendCreate", "sendCount"} => c \notin ToCount(u)'
         /\ At(c, "sendAdd") /\ u = Peer(calls[c].user) =>
              /\ ToCount(u)' \subseteq ToCount(u) \cup {c}
              /\ \E i : i \notin Received(u) /\ Received(u)' = Received(u) \cup {i}
         /\ At(c, "sendAdd") /\ u # Peer(calls[c].user) =>
              /\ ToCount(u)' \subseteq ToCount(u)
              /\ Received(u)' = Received(u)
  <1>0. /\ Inv /\ calls[c].user \in User
        /\ \A d \in Call \ {c} : calls'[d] = calls[d]
        /\ Moved(c) \/ (calls'[c].pc = "idle"
                         /\ calls[c].pc \notin {"sendRead", "sendAdd", "sendCount"})
    BY Steps, TapTypes DEF PagesInv, Idle
  <1>1. /\ calls'[c].pc \in {"sendCount", "sendCreate"} =>
             At(c, "sendAdd") /\ calls'[c].user = calls[c].user
        /\ calls[c].pc \in {"sendCreate", "sendCount"} =>
             calls'[c].pc \notin {"sendCount", "sendCreate"}
    BY <1>0 DEF Moved
  <1>2. /\ ToCount(u)' \subseteq ToCount(u) \cup {c}
        /\ c \in ToCount(u)' => At(c, "sendAdd") /\ Peer(u) = calls[c].user
        /\ calls[c].pc \in {"sendCreate", "sendCount"} => c \notin ToCount(u)'
    BY <1>0, <1>1 DEF ToCount, Peer
  <1>3. ~At(c, "sendAdd") => Received(u)' = Received(u)
    BY StepSenders DEF Received
  <1>4. At(c, "sendAdd") /\ u # Peer(calls[c].user) => Received(u)' = Received(u)
    BY StepSenders DEF Received
  <1>5. ASSUME At(c, "sendAdd"), u = Peer(calls[c].user)
        PROVE  \E i : i \notin Received(u) /\ Received(u)' = Received(u) \cup {i}
    <2> DEFINE i == Len(messages) + 1
    <2>1. i \notin Received(u) /\ Received(u)' = Received(u) \cup {i}
      BY <1>5, StepSenders DEF Received
    <2> QED
      BY <2>1
  <1>6. Peer(u) = calls[c].user => u = Peer(calls[c].user)
    BY Peers
  <1> QED
    BY <1>2, <1>3, <1>4, <1>5, <1>6

LEMMA CountedStays ==
  ASSUME PagesInv, PagesInv', NEW a \in User, AskerCreates(a), AskerCreates(a)', Counted,
         NEW c \in Call, Step(c)
  PROVE  Counted'
  <1>0. /\ Inv /\ Inv' /\ TypeOK /\ CallsBacked /\ calls[c].user \in User
        /\ room # NoRoom => room \in Room /\ room' # NoRoom
        /\ room = NoRoom /\ ~At(c, "sendCreate") => room' = NoRoom
    BY StepRoom, TapTypes DEF PagesInv, Inv, TypeOK, SendCreate
  <1>1. /\ Peer(a) \in User /\ Peer(a) # a /\ Peer(Peer(a)) = a
        /\ \A u \in User : u = a \/ u = Peer(a)
    BY Peers
  <1>2. /\ room # NoRoom => BadgeOf(a) = room.unreadFrom /\ BadgeOf(Peer(a)) = room.unreadTo
        /\ room = NoRoom => BadgeOf(a) = 0 /\ BadgeOf(Peer(a)) = 0
    BY <1>1 DEF BadgeOf, AskerCreates
  <1>3. /\ room' # NoRoom => /\ (BadgeOf(a))' = room'.unreadFrom
                             /\ (BadgeOf(Peer(a)))' = room'.unreadTo
        /\ room' = NoRoom => (BadgeOf(a))' = 0 /\ (BadgeOf(Peer(a)))' = 0
    BY <1>1 DEF BadgeOf, AskerCreates, Peer
  <1>4. ASSUME NEW u \in User
        PROVE  \/ /\ Received(u)' = Received(u)
                  /\ \/ BadgeOf(u)' <= BadgeOf(u) /\ ToCount(u)' \subseteq ToCount(u)
                     \/ /\ BadgeOf(u)' <= BadgeOf(u) + 1 /\ c \in ToCount(u)
                        /\ ToCount(u)' \subseteq ToCount(u) \ {c}
               \/ /\ BadgeOf(u)' = BadgeOf(u) /\ ToCount(u)' \subseteq ToCount(u) \cup {c}
                  /\ \E i : i \notin Received(u) /\ Received(u)' = Received(u) \cup {i}
    <2>0. BadgeOf(u) \in Nat
      BY <1>0, ReceivedType DEF CountsTyped
    <2>1. CASE At(c, "sendAdd")
      <3>1. BadgeOf(u)' = BadgeOf(u)
        BY <2>1, StepAt DEF BadgeOf
      <3> QED
        BY <2>0, <2>1, <3>1, TallySets
    <2>2. CASE At(c, "sendCreate")
      <3>1. calls[c].user = a /\ room' # NoRoom /\ room'.unreadTo = 1 /\ room'.unreadFrom = 0
        BY <1>0, <2>2, StepAt, StepRoom, RoomFields DEF AskerCreates
      <3>2. CASE u = a
        BY <1>3, <2>0, <2>2, <3>1, <3>2, TallySets
      <3>3. CASE u = Peer(a)
        <4>1. c \in ToCount(u)
          BY <1>1, <2>2, <3>1, <3>3 DEF ToCount
        <4> QED
          BY <1>3, <2>0, <2>2, <3>1, <3>3, <4>1, TallySets
      <3> QED
        BY <1>1, <3>2, <3>3
    <2>3. CASE At(c, "sendCount")
      <3>1. /\ room # NoRoom /\ room' # NoRoom /\ calls[c].snap.sender = a
            /\ room.unreadTo \in Nat /\ room.unreadFrom \in Nat
        BY <1>0, <2>3 DEF CallsBacked, AskerCreates, Room
      <3>2. CASE calls[c].user = Peer(u)
        <4>1. c \in ToCount(u)
          BY <2>3, <3>2 DEF ToCount
        <4>2. BadgeOf(u)' <= BadgeOf(u) + 1
          <5>1. /\ room'.unreadTo <= room.unreadTo + 1
                /\ room'.unreadFrom <= room.unreadFrom + 1
            BY <1>0, <2>3, <3>1, RoomFields
          <5> QED
            BY <1>1, <1>2, <1>3, <3>1, <5>1
        <4> QED
          BY <2>3, <4>1, <4>2, TallySets
      <3>3. CASE calls[c].user # Peer(u)
        <4>1. calls[c].user = u
          BY <1>0, <1>1, <3>3
        <4>2. BadgeOf(u)' <= BadgeOf(u)
          <5>1. CASE u = a
            <6>1. room'.unreadFrom <= room.unreadFrom
              BY <1>0, <2>3, <3>1, <4>1, <5>1, RoomFields
            <6> QED
              BY <1>2, <1>3, <3>1, <5>1, <6>1
          <5>2. CASE u = Peer(a)
            <6>1. room'.unreadTo <= room.unreadTo
              BY <1>0, <1>1, <2>3, <3>1, <4>1, <5>2, RoomFields
            <6> QED
              BY <1>2, <1>3, <3>1, <5>2, <6>1
          <5> QED
            BY <1>1, <5>1, <5>2
        <4> QED
          BY <2>3, <4>2, TallySets
      <3> QED
        BY <3>2, <3>3
    <2>4. CASE calls[c].pc \notin {"sendAdd", "sendCreate", "sendCount"}
      <3>1. BadgeOf(u)' <= BadgeOf(u)
        <4>1. CASE room = NoRoom
          BY <1>0, <1>1, <1>2, <1>3, <2>4, <4>1
        <4>2. CASE room # NoRoom
          <5>1. /\ room'.unreadTo \in {room.unreadTo, 0}
                /\ room'.unreadFrom \in {room.unreadFrom, 0}
                /\ room.unreadTo \in Nat /\ room.unreadFrom \in Nat
            BY <1>0, <2>4, <4>2, RoomFields DEF Room
          <5> QED
            BY <1>0, <1>1, <1>2, <1>3, <4>2, <5>1
        <4> QED
          BY <4>1, <4>2
      <3> QED
        BY <2>4, <3>1, TallySets
    <2> QED
      BY <2>1, <2>2, <2>3, <2>4
  <1>5. ASSUME NEW u \in User
        PROVE  BadgeOf(u)' + Cardinality(ToCount(u)') <= Cardinality(Received(u)')
    BY <1>0, <1>4, CountStep
  <1> QED
    BY <1>5 DEF Counted, User

LEMMA NextReceived ==
  ASSUME PagesInv, PagesInv', [PagesNext]_allVars, NEW a, OneAsker(a), ReceivedInv(a)
  PROVE  ReceivedInv(a)'
  <1>0. /\ a \in User /\ AskerAlone(a) /\ AskerCreates(a) /\ Counted
        /\ Inv /\ Inv' /\ calls \in [Call -> CallState]
    BY DEF OneAsker, ReceivedInv, PagesInv, Inv, TypeOK
  <1>1. AskerAlone(a)'
    BY <1>0, AskerStays
  \* Calls that begin or end neither count nor create.
  <1>2. ASSUME UNCHANGED <<room, messages>>,
               \A c \in Call : \/ calls'[c] = calls[c]
                               \/ calls'[c].pc \notin {"sendAdd", "sendCount", "sendCreate"}
        PROVE  AskerCreates(a)' /\ Counted'
    <2>1. AskerCreates(a)'
      BY <1>0, <1>2 DEF AskerCreates
    <2>2. ASSUME NEW u \in User
          PROVE  BadgeOf(u)' + Cardinality(ToCount(u)') <= Cardinality(Received(u)')
      <3>1. BadgeOf(u)' = BadgeOf(u) /\ Received(u)' = Received(u) /\ BadgeOf(u) \in Nat
        BY <1>0, <1>2, ReceivedType DEF BadgeOf, Received, CountsTyped
      <3>2. ToCount(u)' \subseteq ToCount(u)
        BY <1>2 DEF ToCount, Peer
      <3>3. CASE Call = {}
        <4>1. ToCount(u)' = ToCount(u)
          BY <3>3 DEF ToCount
        <4> QED
          BY <1>0, <3>1, <4>1 DEF Counted
      <3>4. CASE Call # {}
        <4>1. PICK c \in Call : TRUE
          BY <3>4
        <4>2. BadgeOf(u)' <= BadgeOf(u)
          BY <3>1
        <4> QED
          BY <1>0, <3>1, <3>2, <4>2, CountStep
      <3> QED
        BY <3>3, <3>4
    <2> QED
      BY <2>1, <2>2 DEF Counted, User
  <1>3. ASSUME NEW c \in Call, ServerStep(c) PROVE AskerCreates(a)' /\ Counted'
    <2>1. CASE Step(c)
      <3>1. AskerCreates(a)'
        BY <1>0, <2>1, CreatesStays
      <3> QED
        BY <1>0, <2>1, <3>1, CountedStays
    <2>2. CASE Abort(c)
      <3>1. /\ UNCHANGED <<room, messages>>
            /\ \A d \in Call : calls'[d] = calls[d] \/ calls'[d].pc = "idle"
        BY <1>0, <2>2 DEF Abort, Idle
      <3> QED
        BY <1>2, <3>1
    <2> QED
      BY <1>3, <2>1, <2>2 DEF ServerStep
  <1>4. ASSUME ~ \E c \in Call : ServerStep(c) PROVE AskerCreates(a)' /\ Counted'
    <2>1. /\ UNCHANGED <<room, messages>> /\ \A c \in Call : Quiet(c)
      BY <1>4, QuietSteps
    <2>2. \A c \in Call : \/ calls'[c] = calls[c]
                          \/ calls'[c].pc \notin {"sendAdd", "sendCount", "sendCreate"}
      BY <2>1 DEF Quiet, Idle
    <2> QED
      BY <1>2, <2>1, <2>2
  <1> QED
    BY <1>1, <1>3, <1>4 DEF ReceivedInv

LEMMA InitReceived == ASSUME PagesInit, NEW a PROVE ReceivedInv(a)
  <1>1. /\ room = NoRoom /\ messages = << >> /\ pushed = {}
        /\ \A c \in Call : calls[c].pc = "idle" /\ tap[c] = NoTap
        /\ \A u \in User : page[u] = Closed
    BY DEF PagesInit, Init, Idle
  <1>2. AskerAlone(a) /\ AskerCreates(a)
    BY <1>1 DEF AskerAlone, AskerCreates, Writing
  <1>3. \A u \in User : BadgeOf(u) = 0 /\ ToCount(u) = {} /\ Received(u) = {}
    BY <1>1 DEF BadgeOf, ToCount, Received
  <1>4. Cardinality({}) = 0
    BY FS_EmptySet
  <1> QED
    BY <1>2, <1>3, <1>4 DEF ReceivedInv, Counted

\* Where one user asks, the badge the lists show a user counts messages he was
\* sent, never his own and none twice: with texts and images, with any number of
\* sends of both users on their way, and wherever calls and reads fail.
THEOREM BadgesCountReceived ==
  ASSUME NEW a, OneAsker(a)
  PROVE  PagesSpec => []BadgeCountsReceived
  <1>1. PagesInit => ReceivedInv(a)
    BY InitReceived
  <1>2. PagesInv /\ PagesInv' /\ ReceivedInv(a) /\ [PagesNext]_allVars => ReceivedInv(a)'
    BY NextReceived
  <1>3. PagesInv /\ ReceivedInv(a) => BadgeCountsReceived
    <2> SUFFICES ASSUME PagesInv, ReceivedInv(a), NEW u \in User
                 PROVE  BadgeOf(u) <= Cardinality({i \in DOMAIN messages : messages[i].to = u})
      BY DEF BadgeCountsReceived
    <2>1. /\ BadgeOf(u) \in Nat /\ Cardinality(ToCount(u)) \in Nat
          /\ Cardinality(Received(u)) \in Nat
      BY ReceivedType DEF PagesInv, CountsTyped
    <2>2. BadgeOf(u) <= Cardinality(Received(u))
      BY <2>1 DEF ReceivedInv, Counted
    <2> QED
      BY <2>2 DEF Received
  <1> QED
    BY <1>1, <1>2, <1>3, PagesInvariant, PTL DEF PagesSpec

=============================================================================
