------------------------- MODULE ChatMessagesProofs -------------------------
(***************************************************************************)
(* What the steps of ChatRoom do to the messages, and which messages can   *)
(* be left without a room, for any set of call slots and any bounds.       *)
(***************************************************************************)
EXTENDS ChatRoomProofs

USE DEF At, Goto, Return, Start, hist, vars

\* A call about to mark a message marks one addressed to its user.
Marked ==
  \A c \in Call : At(c, "markWrite") =>
    /\ calls[c].msg \in DOMAIN messages
    /\ messages[calls[c].msg].to = calls[c].user

-----------------------------------------------------------------------------
\* How calls begin.
LEMMA Starts ==
  ASSUME calls \in [Call -> CallState], NEW c \in Call, NEW u
  PROVE  /\ \A first : StartSend(c, u, first) =>
              /\ calls[c].pc = "idle" /\ UNCHANGED <<room, messages, hist>>
              /\ calls'[c].pc = "sendRead" /\ calls'[c].user = u
              /\ calls'[c].first = first
              /\ \A b \in Call \ {c} : calls'[b] = calls[b]
         /\ \A answer : StartDecision(c, u, answer) =>
              /\ answer \in {"accept", "decline"}
              /\ calls[c].pc = "idle" /\ UNCHANGED <<room, messages, hist>>
              /\ calls'[c].pc = answer /\ calls'[c].user = u
              /\ \A b \in Call \ {c} : calls'[b] = calls[b]
  <1>1. ASSUME NEW first, StartSend(c, u, first)
        PROVE  /\ calls[c].pc = "idle" /\ UNCHANGED <<room, messages, hist>>
               /\ calls'[c].pc = "sendRead" /\ calls'[c].user = u
               /\ calls'[c].first = first
               /\ \A b \in Call \ {c} : calls'[b] = calls[b]
    <2> DEFINE v == [Idle EXCEPT !.pc = "sendRead", !.user = u, !.first = first]
    <2>1. v.pc = "sendRead" /\ v.user = u /\ v.first = first
      BY DEF Idle
    <2>2. calls' = [calls EXCEPT ![c] = v] /\ calls[c].pc = "idle"
          /\ UNCHANGED <<room, messages, hist>>
      BY <1>1 DEF StartSend
    <2> HIDE DEF v
    <2> QED
      BY <2>1, <2>2
  <1>2. ASSUME NEW answer, StartDecision(c, u, answer)
        PROVE  /\ answer \in {"accept", "decline"}
               /\ calls[c].pc = "idle" /\ UNCHANGED <<room, messages, hist>>
               /\ calls'[c].pc = answer /\ calls'[c].user = u
               /\ \A b \in Call \ {c} : calls'[b] = calls[b]
    <2> DEFINE v == [Idle EXCEPT !.pc = answer, !.user = u]
    <2>1. v.pc = answer /\ v.user = u
      BY DEF Idle
    <2>2. calls' = [calls EXCEPT ![c] = v] /\ calls[c].pc = "idle"
          /\ UNCHANGED <<room, messages, hist>> /\ answer \in {"accept", "decline"}
      BY <1>2 DEF StartDecision
    <2> HIDE DEF v
    <2> QED
      BY <2>1, <2>2
  <1> QED
    BY <1>1, <1>2

LEMMA RefreshStarts ==
  ASSUME calls \in [Call -> CallState], NEW c \in Call, NEW d \in Call, NEW u,
         StartRefresh(c, d, u)
  PROVE  /\ c # d /\ calls[c].pc = "idle" /\ calls[d].pc = "idle"
         /\ UNCHANGED <<room, messages, creates, wasReset, faults>>
         /\ calls'[c].pc = "resetRead" /\ calls'[c].user = u
         /\ calls'[d].pc = "markRead" /\ calls'[d].user = u
         /\ \A b \in Call \ {c, d} : calls'[b] = calls[b]
  <1> DEFINE v(p) == [Idle EXCEPT !.pc = p, !.user = u]
  <1>1. \A p : v(p).pc = p /\ v(p).user = u
    BY DEF Idle
  <1>2. calls' = [calls EXCEPT ![c] = v("resetRead"), ![d] = v("markRead")]
        /\ c # d /\ calls[c].pc = "idle" /\ calls[d].pc = "idle"
        /\ UNCHANGED <<room, messages, hist>>
    BY DEF StartRefresh
  <1> HIDE DEF v
  <1> QED
    BY <1>1, <1>2

\* How a call goes on: it keeps its user, and only the call moves.
Moved(c) ==
  /\ calls'[c].user = calls[c].user /\ calls'[c].first = calls[c].first
  /\ \/ calls[c].pc = "sendRead" /\ calls'[c].pc = "sendAdd"
        /\ calls'[c].snap = Snapshot
     \/ calls[c].pc = "sendAdd"
        /\ calls'[c].pc = (IF calls[c].snap = NoRoom THEN "sendCreate" ELSE "sendCount")
     \/ calls[c].pc = "sendCount" /\ calls'[c].pc = "sendLast"
     \/ calls[c].pc = "resetRead" /\ calls'[c].pc = "resetWrite"
     \/ /\ calls[c].pc = "markRead" /\ calls'[c].pc = "markWrite"
        /\ messages # << >> /\ messages[Len(messages)].to = calls[c].user
        /\ calls'[c].msg = Len(messages) /\ UNCHANGED messages

LEMMA Steps ==
  ASSUME Inv, NEW c \in Call, Step(c)
  PROVE  /\ calls[c].pc # "idle" /\ UNCHANGED faults
         /\ \A b \in Call \ {c} : calls'[b] = calls[b]
         /\ Moved(c) \/ (calls'[c] = Idle
                         /\ calls[c].pc \notin {"sendRead", "sendAdd", "sendCount"})
  <1>0. calls \in [Call -> CallState]
    BY DEF Inv, TypeOK
  <1> DEFINE Ends == calls' = [calls EXCEPT ![c] = Idle]
             Goes(v) == calls' = [calls EXCEPT ![c] = v]
  <1>1. CASE SendRead(c)
    <2>1. calls'[c] = [calls[c] EXCEPT !.pc = "sendAdd", !.snap = Snapshot]
          /\ \A b \in Call \ {c} : calls'[b] = calls[b]
      BY <1>0, <1>1 DEF SendRead
    <2> QED
      BY <1>0, <1>1, <2>1 DEF SendRead, Moved, CallState
  <1>2. CASE SendAdd(c)
    <2> DEFINE p == IF calls[c].snap = NoRoom THEN "sendCreate" ELSE "sendCount"
    <2>1. calls'[c] = [calls[c] EXCEPT !.pc = p, !.msg = Len(messages) + 1]
          /\ \A b \in Call \ {c} : calls'[b] = calls[b]
      BY <1>0, <1>2 DEF SendAdd
    <2>2. calls'[c].pc = p /\ calls'[c].user = calls[c].user
          /\ calls'[c].first = calls[c].first
      BY <1>0, <2>1 DEF CallState
    <2> QED
      BY <1>2, <2>1, <2>2 DEF SendAdd, Moved
  <1>3. CASE SendCount(c)
    <2>1. calls'[c] = [calls[c] EXCEPT !.pc = "sendLast"]
          /\ \A b \in Call \ {c} : calls'[b] = calls[b]
      BY <1>0, <1>3 DEF SendCount
    <2> QED
      BY <1>0, <1>3, <2>1 DEF SendCount, Moved, CallState
  <1>4. CASE SendCreate(c) \/ SendLast(c) \/ ResetWrite(c) \/ MarkWrite(c)
             \/ Accept(c) \/ Decline(c)
    BY <1>0, <1>4 DEF SendCreate, SendLast, ResetWrite, MarkWrite, Accept,
       Decline, Decide
  <1>5. CASE ResetRead(c)
    <2>1. CASE room = NoRoom
      BY <1>0, <1>5, <2>1 DEF ResetRead
    <2>2. CASE room # NoRoom
      <3>1. calls'[c] = [calls[c] EXCEPT !.pc = "resetWrite", !.snap = Snapshot]
            /\ \A b \in Call \ {c} : calls'[b] = calls[b]
        BY <1>0, <1>5, <2>2 DEF ResetRead
      <3> QED
        BY <1>0, <1>5, <3>1 DEF ResetRead, Moved, CallState
    <2> QED
      BY <2>1, <2>2
  <1>6. CASE MarkRead(c)
    <2>1. CASE messages # << >> /\ messages[Len(messages)].to = calls[c].user
      <3>1. calls'[c] = [calls[c] EXCEPT !.pc = "markWrite", !.msg = Len(messages)]
            /\ \A b \in Call \ {c} : calls'[b] = calls[b]
        BY <1>0, <1>6, <2>1 DEF MarkRead
      <3>2. /\ calls'[c].pc = "markWrite" /\ calls'[c].msg = Len(messages)
            /\ calls'[c].user = calls[c].user /\ calls'[c].first = calls[c].first
        BY <1>0, <3>1 DEF CallState
      <3> QED
        BY <1>6, <2>1, <3>1, <3>2 DEF MarkRead, Moved
    <2>2. CASE ~(messages # << >> /\ messages[Len(messages)].to = calls[c].user)
      BY <1>0, <1>6, <2>2 DEF MarkRead
    <2> QED
      BY <2>1, <2>2
  <1> QED
    BY <1>1, <1>2, <1>3, <1>4, <1>5, <1>6 DEF Step

\* What a step of a call does to the messages: one more at the end, or one of
\* them seen.
LEMMA StepMessages ==
  ASSUME Inv, Marked, NEW c \in Call, Step(c)
  PROVE  /\ DOMAIN messages \subseteq DOMAIN messages'
         /\ Len(messages) \in Nat /\ Len(messages') \in Nat
         /\ Len(messages') >= Len(messages)
         /\ At(c, "sendAdd") => Len(messages') = Len(messages) + 1
         /\ ~At(c, "sendAdd") => Len(messages') = Len(messages)
         /\ \A i \in DOMAIN messages :
              /\ messages'[i].from = messages[i].from
              /\ messages'[i].to = messages[i].to
              /\ messages[i].seen => messages'[i].seen
              /\ messages'[i].seen /\ ~messages[i].seen =>
                   At(c, "markWrite") /\ calls[c].user = messages[i].to
         /\ \A i \in DOMAIN messages' \ DOMAIN messages : messages'[i].seen = FALSE
  <1>0. /\ messages \in Seq(Message) /\ Len(messages) \in Nat
        /\ DOMAIN messages = 1..Len(messages)
        /\ calls \in [Call -> CallState]
    BY LenProperties DEF Inv, TypeOK
  <1>1. CASE SendAdd(c)
    <2>1. NewMessage(calls[c].user) \in Message
          /\ NewMessage(calls[c].user).seen = FALSE
      BY <1>0, PeerType DEF NewMessage, Message, CallState
    <2>2. /\ messages' \in Seq(Message) /\ Len(messages') = Len(messages) + 1
          /\ \A i \in 1..Len(messages) : messages'[i] = messages[i]
          /\ messages'[Len(messages) + 1] = NewMessage(calls[c].user)
      BY <1>0, <1>1, <2>1, AppendProperties DEF SendAdd
    <2>3. DOMAIN messages' = 1..Len(messages')
      BY <2>2, LenProperties
    <2> QED
      BY <1>0, <1>1, <2>1, <2>2, <2>3 DEF SendAdd
  <1>2. CASE MarkWrite(c)
    <2> DEFINE k == calls[c].msg
    <2>1. k \in DOMAIN messages /\ messages[k].to = calls[c].user /\ At(c, "markWrite")
      BY <1>2 DEF MarkWrite, Marked
    <2>2. messages' = [messages EXCEPT ![k].seen = TRUE]
      BY <1>2 DEF MarkWrite
    <2> HIDE DEF k
    <2>3. \A i \in DOMAIN messages : messages[i] \in Message
      BY <1>0, ElementOfSeq
    <2>4. DOMAIN messages' = DOMAIN messages /\ Len(messages') = Len(messages)
      BY <1>0, <2>2
    <2>5. \A i \in DOMAIN messages \ {k} : messages'[i] = messages[i]
      BY <2>2
    <2>6. messages'[k] = [messages[k] EXCEPT !.seen = TRUE]
      BY <2>1, <2>2
    <2>7. /\ messages'[k].from = messages[k].from /\ messages'[k].to = messages[k].to
          /\ messages'[k].seen = TRUE
      BY <2>1, <2>3, <2>6 DEF Message
    <2> QED
      BY <1>0, <2>1, <2>4, <2>5, <2>7
  <1>3. CASE ~SendAdd(c) /\ ~MarkWrite(c)
    <2>1. UNCHANGED messages /\ ~At(c, "sendAdd")
      BY <1>3 DEF Step, SendRead, SendAdd, SendCreate, SendCount, SendLast,
         ResetRead, ResetWrite, MarkRead, MarkWrite, Accept, Decline, Decide
    <2>2. Len(messages') = Len(messages) /\ Len(messages') >= Len(messages)
          /\ Len(messages') \in Nat
      BY <1>0, <2>1
    <2>3. /\ DOMAIN messages' = DOMAIN messages
          /\ \A i \in DOMAIN messages : messages'[i] = messages[i]
      BY <2>1
    <2> QED
      BY <1>0, <2>1, <2>2, <2>3
  <1> QED
    BY <1>1, <1>2, <1>3

\* The room stays once it is there.
LEMMA StepRoom ==
  ASSUME Inv, NEW c \in Call, Step(c)
  PROVE  /\ room # NoRoom => room' # NoRoom
         /\ room = NoRoom /\ ~SendCreate(c) => room' = NoRoom
         /\ SendCreate(c) => room' # NoRoom
  <1>0. /\ calls \in [Call -> CallState] /\ room \in Room \cup {NoRoom}
        /\ CallsBacked
    BY DEF Inv, TypeOK
  <1>1. SendCreate(c) => room' # NoRoom
    BY <1>0, PeerType, NoRoomIsNoRoom
    DEF SendCreate, NewRoom, Room, Status, CallState
  <1>2. CASE SendCount(c) \/ SendLast(c) \/ ResetWrite(c)
    <2>1. room \in Room /\ room # NoRoom /\ calls[c].msg \in Nat
      BY <1>0, <1>2 DEF SendCount, SendLast, ResetWrite, CallsBacked, CallState
    <2>2. room' \in Room
      BY <1>2, <2>1 DEF SendCount, SendLast, ResetWrite, Room
    <2> QED
      BY <1>1, <2>1, <2>2, NoRoomIsNoRoom
  <1>3. CASE Accept(c) \/ Decline(c)
    <2>1. CASE room = NoRoom
      BY <1>1, <1>3, <2>1 DEF Accept, Decline, Decide
    <2>2. CASE room # NoRoom
      <3>1. room' \in Room
        BY <1>0, <1>3, <2>2 DEF Accept, Decline, Decide, Room, Status
      <3> QED
        BY <1>1, <2>2, <3>1, NoRoomIsNoRoom
    <2> QED
      BY <2>1, <2>2
  <1>4. CASE SendRead(c) \/ SendAdd(c) \/ ResetRead(c) \/ MarkRead(c) \/ MarkWrite(c)
    BY <1>1, <1>4 DEF SendRead, SendAdd, ResetRead, MarkRead, MarkWrite
  <1> QED
    BY <1>1, <1>2, <1>3, <1>4 DEF Step

-----------------------------------------------------------------------------
LEMMA StepMarked ==
  ASSUME Inv, Marked, NEW c \in Call, Step(c)
  PROVE  Marked'
  <1> SUFFICES ASSUME NEW d \in Call, calls'[d].pc = "markWrite"
               PROVE  /\ calls'[d].msg \in DOMAIN messages'
                      /\ messages'[calls'[d].msg].to = calls'[d].user
    BY DEF Marked
  <1>0. messages \in Seq(Message) /\ DOMAIN messages = 1..Len(messages)
        /\ Len(messages) \in Nat
    BY LenProperties DEF Inv, TypeOK
  <1>1. CASE calls'[d] = calls[d]
    <2>1. calls[d].msg \in DOMAIN messages /\ messages[calls[d].msg].to = calls[d].user
      BY <1>1 DEF Marked
    <2>2. DOMAIN messages \subseteq DOMAIN messages'
          /\ \A i \in DOMAIN messages : messages'[i].to = messages[i].to
      BY StepMessages
    <2> QED
      BY <1>1, <2>1, <2>2
  <1>2. CASE calls'[d] # calls[d]
    <2>1. d = c
      BY <1>2, Steps
    <2>2. Moved(c) \/ calls'[c] = Idle
      BY Steps
    <2>3. /\ messages # << >> /\ messages[Len(messages)].to = calls[c].user
          /\ calls'[c].msg = Len(messages) /\ UNCHANGED messages
          /\ calls'[c].user = calls[c].user
      BY <2>1, <2>2 DEF Moved, Idle
    <2>4. Len(messages) \in DOMAIN messages
      BY <1>0, <2>3
    <2> QED
      BY <2>1, <2>3, <2>4
  <1> QED
    BY <1>1, <1>2

\* A call that begins or ends marks nothing.
LEMMA QuietMarked ==
  ASSUME Marked, UNCHANGED messages,
         \A c \in Call : calls'[c] = calls[c] \/ calls'[c].pc # "markWrite"
  PROVE  Marked'
  BY DEF Marked

LEMMA BeginMarked ==
  ASSUME Inv, Marked, NEW c \in Call, NEW u \in User, Begin(c, u)
  PROVE  Marked' /\ UNCHANGED <<room, messages, faults>>
  <1>0. calls \in [Call -> CallState]
    BY DEF Inv, TypeOK
  <1>1. /\ UNCHANGED <<room, messages, faults>>
        /\ \A b \in Call : calls'[b] = calls[b] \/ calls'[b].pc # "markWrite"
    <2>1. CASE \E first \in FirstStatus : StartSend(c, u, first)
      BY <1>0, <2>1, Starts
    <2>2. CASE \E d \in Call : StartRefresh(c, d, u)
      <3>1. PICK d \in Call : StartRefresh(c, d, u)
        BY <2>2
      <3>2. /\ UNCHANGED <<room, messages, faults>>
            /\ calls'[c].pc = "resetRead" /\ calls'[d].pc = "markRead"
            /\ \A b \in Call \ {c, d} : calls'[b] = calls[b]
        BY <1>0, <3>1, RefreshStarts
      <3> QED
        BY <3>2
    <2>3. CASE \E answer \in {"accept", "decline"} : StartDecision(c, u, answer)
      BY <1>0, <2>3, Starts
    <2> QED
      BY <2>1, <2>2, <2>3 DEF Begin
  <1> QED
    BY <1>1, QuietMarked

LEMMA EndMarked ==
  ASSUME Inv, Marked,
         (\E c \in Call : Abort(c)) \/ (\E u \in User : Kill(u)) \/ UNCHANGED vars
  PROVE  Marked' /\ UNCHANGED <<room, messages>>
  <1>1. CASE \E c \in Call : Abort(c)
    BY <1>1, QuietMarked DEF Abort, Idle, Inv, TypeOK
  <1>2. CASE \E u \in User : Kill(u)
    BY <1>2, QuietMarked DEF Kill, Idle
  <1>3. CASE UNCHANGED vars
    BY <1>3, QuietMarked
  <1> QED
    BY <1>1, <1>2, <1>3

LEMMA NextMarked == Inv /\ Marked /\ [Next]_vars => Marked'
  BY StepMarked, BeginMarked, EndMarked DEF Next

LEMMA InitMarked == Init => Marked
  BY DEF Init, Marked, Idle

\* The messages only grow, keep sender and addressee, and one is marked as seen
\* only by a call of its addressee.
SeenStep ==
  /\ Len(messages') >= Len(messages)
  /\ \A i \in DOMAIN messages :
       /\ messages'[i].from = messages[i].from
       /\ messages'[i].to = messages[i].to
       /\ messages[i].seen => messages'[i].seen
       /\ messages'[i].seen /\ ~messages[i].seen =>
            \E c \in Call : At(c, "markWrite") /\ calls[c].user = messages[i].to

LEMMA NextSeen ==
  ASSUME Inv, Marked, [Next]_vars
  PROVE  SeenStep
  <1>0. Len(messages) \in Nat
    BY LenProperties DEF Inv, TypeOK
  <1>1. ASSUME UNCHANGED messages PROVE SeenStep
    BY <1>0, <1>1 DEF SeenStep
  <1>2. ASSUME NEW c \in Call, Step(c) PROVE SeenStep
    <2>1. Len(messages') >= Len(messages)
      BY <1>2, StepMessages
    <2> QED
      BY <1>2, <2>1, StepMessages DEF SeenStep
  <1> QED
    BY <1>1, <1>2, BeginMarked, EndMarked DEF Next

\* Stored messages are never rewritten or dropped, and "Seen" is written by the
\* addressee alone, whatever calls of the two users overlap or break off.
THEOREM SeenByAddresseeOnly == Spec => SeenByAddressee
  <1>1. Inv /\ Marked /\ [Next]_vars => [SeenStep]_vars
    BY NextSeen
  <1>2. [][SeenStep]_vars => SeenByAddressee
    BY PTL DEF SeenStep, SeenByAddressee
  <1> QED
    BY <1>1, <1>2, InitMarked, NextMarked, Invariant, PTL DEF Spec

-----------------------------------------------------------------------------
\* As long as nothing failed, messages without a room have the call that is
\* about to create it.
OrphanInv ==
  faults = 0 /\ messages # << >> /\ room = NoRoom => \E c \in Call : At(c, "sendCreate")

LEMMA NextOrphan == Inv /\ Marked /\ OrphanInv /\ [Next]_vars => OrphanInv'
  <1> SUFFICES ASSUME Inv, Marked, OrphanInv, [Next]_vars,
                      faults' = 0, messages' # << >>, room' = NoRoom
               PROVE  \E c \in Call : calls'[c].pc = "sendCreate"
    BY DEF OrphanInv
  <1>0. /\ calls \in [Call -> CallState] /\ messages \in Seq(Message)
        /\ Len(messages) \in Nat /\ faults \in Nat /\ CallsBacked
    BY LenProperties DEF Inv, TypeOK
  \* The creator goes on to be there.
  <1>1. ASSUME UNCHANGED <<room, faults>>, messages # << >>,
               \A d \in Call : calls[d].pc = "sendCreate" => calls'[d] = calls[d]
        PROVE  \E c \in Call : calls'[c].pc = "sendCreate"
    BY <1>1 DEF OrphanInv
  <1>2. ASSUME NEW c \in Call, NEW u \in User, Begin(c, u)
        PROVE  \E d \in Call : calls'[d].pc = "sendCreate"
    <2>1. UNCHANGED <<room, messages, faults>>
      BY <1>2, BeginMarked
    <2>2. \A d \in Call : calls[d].pc # "idle" => calls'[d] = calls[d]
      <3>1. CASE \E first \in FirstStatus : StartSend(c, u, first)
        BY <1>0, <3>1, Starts
      <3>2. CASE \E d \in Call : StartRefresh(c, d, u)
        <4>1. PICK d \in Call : StartRefresh(c, d, u)
          BY <3>2
        <4>2. /\ calls[c].pc = "idle" /\ calls[d].pc = "idle"
              /\ \A b \in Call \ {c, d} : calls'[b] = calls[b]
          BY <1>0, <4>1, RefreshStarts
        <4> QED
          BY <4>2
      <3>3. CASE \E answer \in {"accept", "decline"} : StartDecision(c, u, answer)
        BY <1>0, <3>3, Starts
      <3> QED
        BY <1>2, <3>1, <3>2, <3>3 DEF Begin
    <2> QED
      BY <1>1, <2>1, <2>2
  <1>3. ASSUME NEW c \in Call, Step(c)
        PROVE  \E d \in Call : calls'[d].pc = "sendCreate"
    <2>1. room = NoRoom /\ ~SendCreate(c)
      BY <1>3, StepRoom
    <2>2. CASE At(c, "sendAdd")
      <3>1. calls[c].snap = NoRoom
        BY <1>0, <2>1 DEF CallsBacked
      <3>2. Moved(c)
        BY <1>3, <2>2, Steps
      <3>3. calls'[c].pc = "sendCreate"
        BY <2>2, <3>1, <3>2 DEF Moved
      <3> QED
        BY <3>3
    <2>3. CASE ~At(c, "sendAdd")
      <3>1. ~At(c, "sendCreate")
        BY <1>3, <2>1 DEF Step, SendRead, SendAdd, SendCreate, SendCount,
           SendLast, ResetRead, ResetWrite, MarkRead, MarkWrite, Accept, Decline
      <3>2. Len(messages') = Len(messages)
        BY <1>3, <2>3, StepMessages
      <3>3. messages # << >>
        <4>1. messages' \in Seq(Message)
          BY <1>3, StepInv DEF Inv, TypeOK
        <4> QED
          BY <1>0, <3>2, <4>1, EmptySeq
      <3>4. \A d \in Call \ {c} : calls'[d] = calls[d]
        BY <1>3, Steps
      <3>5. UNCHANGED faults
        BY <1>3, Steps
      <3> QED
        BY <1>1, <2>1, <3>1, <3>3, <3>4, <3>5
    <2> QED
      BY <2>2, <2>3
  <1>4. ASSUME (\E c \in Call : Abort(c)) \/ (\E u \in User : Kill(u))
        PROVE  FALSE
    BY <1>0, <1>4 DEF Abort, Kill
  <1>5. CASE UNCHANGED vars
    BY <1>1, <1>5
  <1> QED
    BY <1>2, <1>3, <1>4, <1>5 DEF Next

LEMMA InitOrphan == Init => OrphanInv
  BY DEF Init, OrphanInv

LEMMA OrphanFollows == Inv /\ OrphanInv => OrphanOnlyByFault
  <1> SUFFICES ASSUME Inv, OrphanInv, faults = 0, Quiescent
               PROVE  messages = << >> <=> room = NoRoom
    BY DEF OrphanOnlyByFault
  <1>1. messages # << >> => room # NoRoom
    BY DEF OrphanInv, Quiescent, Sending
  <1>2. room # NoRoom => messages # << >>
    BY DEF Inv, RoomBacked
  <1> QED
    BY <1>1, <1>2

\* Only a send that broke off leaves messages without their room: as long as no
\* call failed and no send is in flight, there are messages exactly when there
\* is a room.
THEOREM OrphansByFaultOnly == Spec => []OrphanOnlyByFault
  BY InitOrphan, OrphanFollows, InitMarked, NextMarked, NextOrphan, Invariant, PTL
  DEF Spec

=============================================================================
