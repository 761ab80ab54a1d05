----------------------------- MODULE ChatReading -----------------------------
(***************************************************************************)
(* The reading side of a chat: a page (ChatPage, AdminChatPage or          *)
(* ContactAdmin) shows the message stream of a ChatRoom, and each time the *)
(* stream's builder is called it resets the reader's unread badge and      *)
(* marks the newest message as seen.  Which sends the pages allow is the   *)
(* subject of ChatPages; here any user with an open page may send.         *)
(***************************************************************************)
EXTENDS ChatRoom

CONSTANT Readers     \* the users whose pages the instance follows; of the
                     \* others it keeps only what they send

ASSUME ReadersOk == Readers \subseteq User

VARIABLES
  view,      \* per user: "closed", or the page's stream has something the
             \* builder has not been called with ("fresh"), or not ("shown")
  read       \* history: the users whose builder has shown a message

readVars == <<vars, view, read>>

\* The state of the reading pages.
ReadingTypeOK ==
  /\ TypeOK
  /\ view \in [User -> {"closed", "fresh", "shown"}]
  /\ read \subseteq User

ReadingInit ==
  /\ Init
  /\ view = [u \in User |-> "closed"]
  /\ read = {}

Open(u) ==
  /\ u \in Readers
  /\ view[u] = "closed"
  /\ view' = [view EXCEPT ![u] = "fresh"]
  /\ UNCHANGED <<vars, read>>

Close(u) ==
  /\ view[u] # "closed"
  /\ view' = [view EXCEPT ![u] = "closed"]
  /\ UNCHANGED <<vars, read>>

\* Mutant: the new subscription leaves the page waiting.
RebuildWaiting(u) ==
  /\ view[u] = "shown"
  /\ view' = [view EXCEPT ![u] = "waiting"]
  /\ UNCHANGED <<vars, read>>

\* A setState of the page builds it again, and build() subscribes to a new
\* stream, which begins with what is stored.
Rebuild(u) ==
  /\ view[u] = "shown"
  /\ view' = [view EXCEPT ![u] = "fresh"]
  /\ UNCHANGED <<vars, read>>

\* The builder is called with the messages.
Render(u, c, d) ==
  /\ view[u] = "fresh"
  /\ messages # << >>
  /\ StartRefresh(c, d, u)
  /\ view' = [view EXCEPT ![u] = "shown"]
  /\ read' = read \cup {u}

Send(u, c) ==
  /\ u \in Readers => view[u] # "closed"
  /\ \E first \in FirstStatus : StartSend(c, u, first)
  /\ UNCHANGED <<view, read>>

\* Mutant: the messages are fetched once instead of listened to.
ListenersFetchOnce == view

\* The listeners of the messages subcollection hear of every change of it.
Listeners ==
  IF messages' = messages THEN view
  ELSE [u \in User |-> IF view[u] = "closed" THEN "closed" ELSE "fresh"]

ServerStep(c) ==
  /\ Step(c) \/ Abort(c)
  /\ view' = Listeners
  /\ UNCHANGED read

KillApp(u) ==
  /\ Kill(u)
  /\ view' = [view EXCEPT ![u] = "closed"]
  /\ UNCHANGED read

ReadingNext ==
  \/ \E u \in User :
       \/ Open(u) \/ Close(u) \/ Rebuild(u) \/ KillApp(u)
       \/ \E c \in Call : Send(u, c)
       \/ \E c, d \in Call : Render(u, c, d)
  \/ \E c \in Call : ServerStep(c)

ReadingSpec == ReadingInit /\ [][ReadingNext]_readVars

\* Requests are answered, and the framework calls the builder with what the
\* stream delivers.  Users owe nothing.  (Render is strongly fair because it
\* waits for two free slots, which are a bound of the model that the peer's
\* calls may keep taking, and not of the app.)
ReadingFairness ==
  /\ \A c \in Call : WF_readVars(Step(c) /\ ServerStep(c))
  /\ \A u \in User : SF_readVars(\E c, d \in Call : Render(u, c, d))

FairReadingSpec == ReadingSpec /\ ReadingFairness

-----------------------------------------------------------------------------
(* Properties                                                               *)

\* The sender sees "Seen" only under a message whose addressee has had the chat
\* on screen, whichever message the mark call of his page came to pick.
SeenHasReader ==
  \A i \in DOMAIN messages : messages[i].seen => messages[i].to \in read

SendInFlight == \E c \in Call : Sending(c)

\* Opening the chat clears the badge: a page whose builder has yet to be called
\* while no send is in flight ends with badge 0, unless another send begins, the
\* page is closed first or a request fails (nothing tries again).  The increment
\* of a send in flight may land after the reset its own message caused; then the
\* badge stays up although the message is on screen.
OpeningClearsBadge ==
  \A u \in User :
    (view[u] = "fresh" /\ room # NoRoom /\ ~SendInFlight)
      ~> (BadgeOf(u) = 0 \/ SendInFlight \/ view[u] = "closed" \/ faults > 0)

\* While the addressee's page is open the newest message becomes seen, unless a
\* newer one takes its place.
NewestBecomesSeen ==
  \A i \in 1..MaxMessages : \A u \in User :
    (Len(messages) = i /\ messages[i].to = u /\ view[u] # "closed")
      ~> (\/ Len(messages) # i \/ messages[i].seen
          \/ view[u] = "closed" \/ faults > 0)

=============================================================================
