------------------------------ MODULE ChatRoom ------------------------------
(***************************************************************************)
(* One Firestore chat room (chats/{chatRoomId} and its "messages"          *)
(* subcollection) shared by two users, and the calls of ChatService        *)
(* (lib/services/chat_service.dart) that read and write it.                *)
(*                                                                         *)
(* A call is asynchronous: every await is a point where any other call,    *)
(* of the same user or of the peer, may run.  A step is one request the    *)
(* Firestore server carries out; what a call read earlier stays in its     *)
(* snapshot and is used as it was.  No handler uses a transaction, and     *)
(* every handler swallows its exceptions, so a call may also just end      *)
(* between two of its requests (Abort).                                    *)
(*                                                                         *)
(* Text, image URLs and timestamps are abstracted: a message is its place  *)
(* in the server-timestamp order.                                          *)
(***************************************************************************)
EXTENDS Integers, Sequences, FiniteSets

CONSTANTS
  Alice, Bob,      \* the two users whose sorted ids name the room
  Call,            \* slots for calls in flight, of either user
  NoRoom,          \* the snapshot of a room document that does not exist
  FirstStatus,     \* the statuses a send may create the room with:
                   \* "pending" (sendMessage), "accepted" (sendAdminMessage)
  Ops,             \* the ChatService operations the clients use
  MaxMessages,     \* bound: messages ever sent
  MaxFaults        \* bound: calls that end between two of their requests

Status == {"pending", "accepted", "declined"}

User == {Alice, Bob}

Peer(u) == IF u = Alice THEN Bob ELSE Alice

Room == [sender : User, receiver : User, status : Status,
         unreadTo : Nat, unreadFrom : Nat, last : Nat]

\* what a handler uses of the document it has read
Roles == [sender : User, receiver : User]

Message == [from : User, to : User, seen : BOOLEAN]

PC == {"idle", "sendRead", "sendAdd", "sendCreate", "sendCount", "sendLast",
       "resetRead", "resetWrite", "markRead", "markWrite",
       "accept", "decline"}

ASSUME UsersDiffer == Alice # Bob
ASSUME CallFinite == IsFiniteSet(Call)
ASSUME NoRoomIsNoRoom == NoRoom \notin Room /\ NoRoom \notin Roles
ASSUME FirstStatusOk == FirstStatus \subseteq {"pending", "accepted"}
ASSUME OpsOk == Ops \subseteq {"send", "refresh", "accept", "decline"}
ASSUME BoundsOk == MaxMessages \in Nat /\ MaxFaults \in Nat

VARIABLES
  room,        \* the document chats/{chatRoomId}, or NoRoom
  messages,    \* the messages subcollection in server-timestamp order
  calls,       \* the calls in flight: where each is and what it has read
  creates,     \* history: how often a send has run set() on the document
  wasReset,    \* history: an unread count has been written to 0
  faults       \* history: how many calls ended between two requests

hist == <<creates, wasReset, faults>>
vars == <<room, messages, calls, hist>>

(***************************************************************************)
(* A call: pc names the request it makes next, snap is what it keeps of    *)
(* the document it read (chatData), msg the message it added or fetched.   *)
(***************************************************************************)
CallState == [pc : PC, user : User, first : {"pending", "accepted"},
              snap : Roles \cup {NoRoom}, msg : Nat]

Idle == [pc |-> "idle", user |-> Alice, first |-> "pending",
         snap |-> NoRoom, msg |-> 0]

Snapshot ==
  IF room = NoRoom THEN NoRoom
                   ELSE [sender |-> room.sender, receiver |-> room.receiver]

At(c, p) == calls[c].pc = p

Sending(c) == calls[c].pc \in {"sendRead", "sendAdd", "sendCreate",
                               "sendCount", "sendLast"}

Return(c) == calls' = [calls EXCEPT ![c] = Idle]

Goto(c, p) == calls' = [calls EXCEPT ![c].pc = p]

Start(c, u, p) == calls' = [calls EXCEPT ![c] = [Idle EXCEPT !.pc = p,
                                                             !.user = u]]

Init ==
  /\ room = NoRoom
  /\ messages = << >>
  /\ calls = [c \in Call |-> Idle]
  /\ creates = 0
  /\ wasReset = FALSE
  /\ faults = 0

-----------------------------------------------------------------------------
(* sendMessage and sendAdminMessage; they differ only in the status the     *)
(* created room gets.                                                       *)

Unsent == {c \in Call : calls[c].pc \in {"sendRead", "sendAdd"}}

StartSend(c, u, first) ==
  /\ "send" \in Ops
  /\ At(c, "idle")
  /\ Len(messages) + Cardinality(Unsent) < MaxMessages
  /\ calls' = [calls EXCEPT ![c] = [Idle EXCEPT !.pc = "sendRead", !.user = u,
                                                !.first = first]]
  /\ UNCHANGED <<room, messages, hist>>

\* Mutant: the room is set up before its first message is added.
SendReadCreatesFirst(c) ==
  /\ At(c, "sendRead")
  /\ calls' = [calls EXCEPT ![c].snap = Snapshot,
                ![c].pc = IF room = NoRoom THEN "sendCreate" ELSE "sendAdd"]
  /\ UNCHANGED <<room, messages, hist>>

\* final chatData = await chatRef.get()
SendRead(c) ==
  /\ At(c, "sendRead")
  /\ calls' = [calls EXCEPT ![c].pc = "sendAdd", ![c].snap = Snapshot]
  /\ UNCHANGED <<room, messages, hist>>

NewMessage(u) == [from |-> u, to |-> Peer(u), seen |-> FALSE]

\* Mutant: the room is taken to be there, set() is never reached.
SendAddCountsAlways(c) ==
  /\ At(c, "sendAdd")
  /\ messages' = Append(messages, NewMessage(calls[c].user))
  /\ calls' = [calls EXCEPT ![c].pc = "sendCount", ![c].msg = Len(messages) + 1]
  /\ UNCHANGED <<room, hist>>

\* Mutant: the exception of the missing snapshot comes before set().
SendAddThrowsEarly(c) ==
  /\ At(c, "sendAdd")
  /\ messages' = Append(messages, NewMessage(calls[c].user))
  /\ IF calls[c].snap = NoRoom
       THEN Return(c)
       ELSE calls' = [calls EXCEPT ![c].pc = "sendCount",
                                   ![c].msg = Len(messages) + 1]
  /\ UNCHANGED <<room, hist>>

\* Mutant: "if it doesn't exist" is missing, every message sets up the room.
SendAddCreatesAlways(c) ==
  /\ At(c, "sendAdd")
  /\ messages' = Append(messages, NewMessage(calls[c].user))
  /\ calls' = [calls EXCEPT ![c].pc = "sendCreate", ![c].msg = Len(messages) + 1]
  /\ UNCHANGED <<room, hist>>

\* await messages.add({...}); the branch after it looks at the snapshot
SendAdd(c) ==
  /\ At(c, "sendAdd")
  /\ messages' = Append(messages, NewMessage(calls[c].user))
  /\ calls' = [calls EXCEPT
                 ![c].pc = IF calls[c].snap = NoRoom THEN "sendCreate"
                                                     ELSE "sendCount",
                 ![c].msg = Len(messages) + 1]
  /\ UNCHANGED <<room, hist>>

\* Mutant: a status no reader of isRequested knows.
NewRoomRequested(u, first, m) ==
  [sender |-> u, receiver |-> Peer(u), status |-> "requested",
   unreadTo |-> 1, unreadFrom |-> 0, last |-> m]

NewRoom(u, first, m) ==
  [sender |-> u, receiver |-> Peer(u), status |-> first,
   unreadTo |-> 1, unreadFrom |-> 0, last |-> m]

\* Mutant: after set() the call goes on to count its message once more.
SendCreateThenCount(c) ==
  /\ At(c, "sendCreate")
  /\ room' = NewRoom(calls[c].user, calls[c].first, calls[c].msg)
  /\ creates' = creates + 1
  /\ calls' = [calls EXCEPT ![c].pc = "sendCount", ![c].snap = Snapshot']
  /\ UNCHANGED <<messages, wasReset, faults>>

\* await chatRef.set({...}) replaces the whole document, whatever is there.
\* chatData['senderId'] on the missing snapshot then throws, the catch block
\* swallows it, and the call ends here.
SendCreate(c) ==
  /\ At(c, "sendCreate")
  /\ room' = NewRoom(calls[c].user, calls[c].first, calls[c].msg)
  /\ creates' = creates + 1
  /\ Return(c)
  /\ UNCHANGED <<messages, wasReset, faults>>

\* Mutant: the count is written, not incremented by the server.
SendCountWritten(c) ==
  /\ At(c, "sendCount")
  /\ room' = IF calls[c].user = calls[c].snap.sender
               THEN [room EXCEPT !.unreadTo = 1]
               ELSE [room EXCEPT !.unreadFrom = 1]
  /\ Goto(c, "sendLast")
  /\ UNCHANGED <<messages, hist>>

\* Mutant: the two counts are mixed up.
SendCountSwapped(c) ==
  /\ At(c, "sendCount")
  /\ room' = IF calls[c].user = calls[c].snap.sender
               THEN [room EXCEPT !.unreadFrom = @ + 1]
               ELSE [room EXCEPT !.unreadTo = @ + 1]
  /\ Goto(c, "sendLast")
  /\ UNCHANGED <<messages, hist>>

\* update({'unreadCountTo' or 'unreadCountFrom': increment(1)}): the server
\* adds to the current value, but the snapshot chooses the field
SendCount(c) ==
  /\ At(c, "sendCount")
  /\ room' = IF calls[c].user = calls[c].snap.sender
               THEN [room EXCEPT !.unreadTo = @ + 1]
               ELSE [room EXCEPT !.unreadFrom = @ + 1]
  /\ Goto(c, "sendLast")
  /\ UNCHANGED <<messages, hist>>

\* Mutant: the preview is left as the request message.
SendLastForgotten(c) ==
  /\ At(c, "sendLast")
  /\ Return(c)
  /\ UNCHANGED <<room, messages, hist>>

SendLast(c) ==
  /\ At(c, "sendLast")
  /\ room' = [room EXCEPT !.last = calls[c].msg]
  /\ Return(c)
  /\ UNCHANGED <<messages, hist>>

-----------------------------------------------------------------------------
(* resetUnreadCount and markLatestMessageAsSeen.  Every page that calls one *)
(* calls the other in the same build, without awaiting either.              *)

StartRefresh(c, d, u) ==
  /\ "refresh" \in Ops
  /\ c # d /\ At(c, "idle") /\ At(d, "idle")
  /\ calls' = [calls EXCEPT ![c] = [Idle EXCEPT !.pc = "resetRead", !.user = u],
                            ![d] = [Idle EXCEPT !.pc = "markRead", !.user = u]]
  /\ UNCHANGED <<room, messages, hist>>

\* Both users are always in 'users', so only existence decides here.
ResetRead(c) ==
  /\ At(c, "resetRead")
  /\ IF room = NoRoom
       THEN Return(c)
       ELSE calls' = [calls EXCEPT ![c].pc = "resetWrite", ![c].snap = Snapshot]
  /\ UNCHANGED <<room, messages, hist>>

\* Mutant: the reader resets the count of the peer.
ResetWriteSwapped(c) ==
  /\ At(c, "resetWrite")
  /\ room' = IF calls[c].user = calls[c].snap.receiver
               THEN [room EXCEPT !.unreadFrom = 0]
               ELSE [room EXCEPT !.unreadTo = 0]
  /\ wasReset' = TRUE
  /\ Return(c)
  /\ UNCHANGED <<messages, creates, faults>>

ResetWrite(c) ==
  /\ At(c, "resetWrite")
  /\ room' = IF calls[c].user = calls[c].snap.receiver
               THEN [room EXCEPT !.unreadTo = 0]
               ELSE [room EXCEPT !.unreadFrom = 0]
  /\ wasReset' = TRUE
  /\ Return(c)
  /\ UNCHANGED <<messages, creates, faults>>

\* Mutant: the newest message is marked whoever it is for.
MarkReadAnyone(c) ==
  /\ At(c, "markRead")
  /\ IF messages # << >>
       THEN calls' = [calls EXCEPT ![c].pc = "markWrite",
                                   ![c].msg = Len(messages)]
       ELSE Return(c)
  /\ UNCHANGED <<room, messages, hist>>

\* orderBy('timestamp', descending).limit(1): only the newest message
MarkRead(c) ==
  /\ At(c, "markRead")
  /\ IF messages # << >> /\ messages[Len(messages)].to = calls[c].user
       THEN calls' = [calls EXCEPT ![c].pc = "markWrite",
                                   ![c].msg = Len(messages)]
       ELSE Return(c)
  /\ UNCHANGED <<room, messages, hist>>

\* Mutant: every message up to the newest is marked.
MarkWriteAll(c) ==
  /\ At(c, "markWrite")
  /\ messages' = [i \in DOMAIN messages |-> [messages[i] EXCEPT !.seen = TRUE]]
  /\ Return(c)
  /\ UNCHANGED <<room, hist>>

MarkWrite(c) ==
  /\ At(c, "markWrite")
  /\ messages' = [messages EXCEPT ![calls[c].msg].seen = TRUE]
  /\ Return(c)
  /\ UNCHANGED <<room, hist>>

-----------------------------------------------------------------------------
(* acceptRequest and declineRequest: one blind update, which fails on a     *)
(* document that does not exist.                                            *)

StartDecision(c, u, answer) ==
  /\ answer \in Ops \cap {"accept", "decline"}
  /\ At(c, "idle")
  /\ Start(c, u, answer)
  /\ UNCHANGED <<room, messages, hist>>

Decide(c, answer) ==
  /\ room' = IF room = NoRoom THEN NoRoom
                              ELSE [room EXCEPT !.status = answer]
  /\ Return(c)
  /\ UNCHANGED <<messages, hist>>

Accept(c) == At(c, "accept") /\ Decide(c, "accepted")

Decline(c) == At(c, "decline") /\ Decide(c, "declined")

-----------------------------------------------------------------------------
\* The next request of the call fails and the catch block ends the call.
Abort(c) ==
  /\ ~At(c, "idle")
  /\ faults < MaxFaults
  /\ faults' = faults + 1
  /\ Return(c)
  /\ UNCHANGED <<room, messages, creates, wasReset>>

\* The app of a user is killed with calls in flight.
Kill(u) ==
  /\ faults < MaxFaults
  /\ faults' = faults + 1
  /\ \E c \in Call : ~At(c, "idle") /\ calls[c].user = u
  /\ calls' = [c \in Call |-> IF calls[c].user = u THEN Idle ELSE calls[c]]
  /\ UNCHANGED <<room, messages, creates, wasReset>>

Begin(c, u) ==
  \/ \E first \in FirstStatus : StartSend(c, u, first)
  \/ \E d \in Call : StartRefresh(c, d, u)
  \/ \E answer \in {"accept", "decline"} : StartDecision(c, u, answer)

Step(c) ==
  \/ SendRead(c) \/ SendAdd(c) \/ SendCreate(c) \/ SendCount(c) \/ SendLast(c)
  \/ ResetRead(c) \/ ResetWrite(c)
  \/ MarkRead(c) \/ MarkWrite(c)
  \/ Accept(c) \/ Decline(c)

Next ==
  \/ \E c \in Call : \/ \E u \in User : Begin(c, u)
                     \/ Step(c)
                     \/ Abort(c)
  \/ \E u \in User : Kill(u)

Spec == Init /\ [][Next]_vars

-----------------------------------------------------------------------------
(* Properties                                                               *)

\* The document has the fields its handlers write, with a status its readers
\* know, and every call is at one of its requests.
TypeOK ==
  /\ room \in Room \cup {NoRoom}
  /\ messages \in Seq(Message)
  /\ calls \in [Call -> CallState]
  /\ creates \in Nat
  /\ wasReset \in BOOLEAN
  /\ faults \in Nat

Quiescent == \A c \in Call : ~Sending(c)

\* What Msgs_Requests and Home show a user as unread.
BadgeOf(u) ==
  IF room = NoRoom THEN 0
  ELSE IF room.receiver = u THEN room.unreadTo ELSE room.unreadFrom

\* The room document is only written after the message that opens it: its
\* sender has a stored message to its receiver, and the preview shown in the
\* chat lists is a stored message.  (sendMessage adds before it sets.)
RoomBacked ==
  room # NoRoom =>
    /\ room.last \in DOMAIN messages
    /\ \E i \in DOMAIN messages : /\ messages[i].from = room.sender
                                  /\ messages[i].to = room.receiver

\* What a call goes back to is there: updates (which fail on a document that
\* does not exist) find the room, the preview and the seen mark find their
\* message, and the message of a call that is to create the room is a message
\* of its user to the peer.
CallsBacked ==
  \A c \in Call :
    /\ calls[c].snap # NoRoom \/ calls[c].pc \in {"sendCount", "sendLast", "resetWrite"}
         => room # NoRoom
    /\ calls[c].pc \in {"sendCount", "resetWrite"} => calls[c].snap # NoRoom
    /\ calls[c].pc \in {"sendCreate", "sendCount", "sendLast", "markWrite"}
         => calls[c].msg \in DOMAIN messages
    /\ At(c, "sendCreate") =>
         messages[calls[c].msg].from = calls[c].user

Counting == {c \in Call : At(c, "sendCount")}

Badges == IF room = NoRoom THEN 0 ELSE room.unreadTo + room.unreadFrom

\* Whatever overlaps, the two unread badges of a room together never show more
\* than the messages ever stored in it: a message is counted once, by set()
\* or by increment, and never twice.
BadgesBounded == Badges + Cardinality(Counting) <= Len(messages)

\* As long as one call only created the room, none failed and nobody has read
\* the chat, no stored message goes uncounted: the increments of overlapping
\* sends do not lose each other's updates.
BadgesExact ==
  creates = 1 /\ faults = 0 /\ ~wasReset /\ (\A c \in Call : ~At(c, "sendCreate"))
    => Badges + Cardinality(Counting) = Len(messages)

\* A message without its room is invisible in every list and shuts the chat
\* for text (both gates of ChatPage read it as "not accepted, not first").
\* Only a send that broke off can leave one.
OrphanOnlyByFault ==
  faults = 0 /\ Quiescent => (messages = << >> <=> room = NoRoom)

\* Stored messages are never rewritten or dropped, and 'Seen' is written by the
\* addressee only, however many calls of both users are in flight.
SeenByAddressee ==
  [][/\ Len(messages') >= Len(messages)
     /\ \A i \in DOMAIN messages :
          /\ messages'[i].from = messages[i].from
          /\ messages'[i].to = messages[i].to
          /\ messages[i].seen => messages'[i].seen
          /\ messages'[i].seen /\ ~messages[i].seen =>
               \E c \in Call : At(c, "markWrite") /\ calls[c].user = messages[i].to
    ]_vars

=============================================================================
