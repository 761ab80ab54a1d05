------------------------------ MODULE ChatPages ------------------------------
(***************************************************************************)
(* The screens in front of a ChatRoom: ChatPage (lib/chat.dart), where a   *)
(* user writes, and Chat_Request (lib/chat_request.dart), where the peer   *)
(* accepts or declines.  They decide which ChatService calls are made.     *)
(*                                                                         *)
(* A screen caches what it last read: the request status, whether a first  *)
(* message exists, whether this user is the receiver.  The cache is what   *)
(* shows or hides a control; a tap on Send reads both facts again before   *)
(* it sends, and an image is sent without reading them.                    *)
(***************************************************************************)
EXTENDS ChatRoom

CONSTANTS
  FromPost,    \* users who may open the chat before they are written to
               \* (from a post, a search result or a profile)
  Notified,    \* users who open the chat from a push notification
  SendWays,    \* subset of {"text", "image"}: the buttons users use
  OneAtATime,  \* TRUE: a user waits for a send to return before the next tap
  NoTap, Closed

ASSUME PagesOk == /\ FromPost \subseteq User
                  /\ Notified \subseteq User
                  /\ SendWays \subseteq {"text", "image"}
                  /\ OneAtATime \in BOOLEAN
                  /\ "pending" \in FirstStatus

VARIABLES
  page,      \* per user: the ChatPage on screen, or Closed
  request,   \* per user: the Chat_Request page on screen, or Closed
  tap,       \* per call slot: the page handler that runs, or will run, the call
  pushed,    \* the users who hold a push notification of the chat
  opened     \* history: the request has been accepted at some time

pageVars == <<page, request, tap, pushed, opened>>
allVars == <<vars, pageVars>>

\* Both reads of a new page are asked for at once ("due"), answered by the server,
\* and applied later, one after the other in any order.
Answer == Status \cup {"none"}

\* status is _isChatRequestAccepted ("unknown" is null, "none" is ''), firstSent
\* is _isFirstMessageSent, opening and first are the reads of the new page.
Page == [status : Answer \cup {"unknown"}, firstSent : BOOLEAN,
         opening : Answer \cup {"due", "done"},
         first : {"due", "yes", "no", "done"}]

Request == [status : {"pending", "declined"},
            receiver : {"unknown", "yes", "no"}]

\* The handler of a text ends with a check of the status, which read belongs to;
\* it keeps its slot until then.  gone: its page has been closed.
Tap == [step : {"status", "first", "pick", "text", "image", "check", "answer"},
        user : User, gone : BOOLEAN, read : Answer \cup {"due"}]

ASSUME SentinelsOk == NoTap \notin Tap /\ Closed \notin Page /\ Closed \notin Request

\* The screens hold only what their fields can: no request page shows an
\* acceptance, since accepting pops it.
PagesTypeOK ==
  /\ TypeOK
  /\ page \in [User -> Page \cup {Closed}]
  /\ request \in [User -> Request \cup {Closed}]
  /\ tap \in [Call -> Tap \cup {NoTap}]
  /\ pushed \subseteq Notified
  /\ opened \in BOOLEAN

NewPage == [status |-> "unknown", firstSent |-> FALSE,
            opening |-> "due", first |-> "due"]

NewTap(u, step) == [step |-> step, user |-> u, gone |-> FALSE, read |-> "due"]

PagesInit ==
  /\ Init
  /\ page = [u \in User |-> Closed]
  /\ request = [u \in User |-> Closed]
  /\ tap = [c \in Call |-> NoTap]
  /\ pushed = {}
  /\ opened = FALSE

RoomStatus == IF room = NoRoom THEN "none" ELSE room.status

TapOf(c, step) == tap[c] # NoTap /\ tap[c].step = step

Busy(u) ==
  \E c \in Call : tap[c] # NoTap /\ tap[c].user = u /\ tap[c].step # "check"

Free(c) == At(c, "idle") /\ tap[c] = NoTap

\* The page of the handler is still mounted.
Shown(c) == ~tap[c].gone /\ page[tap[c].user] # Closed

Uploading(u) == \E c \in Call : TapOf(c, "image") /\ tap[c].user = u /\ Shown(c)

-----------------------------------------------------------------------------
(* Opening ChatPage                                                         *)

\* The chat lists offer the page of an accepted room, a push notification that
\* of the room it was sent for.
Offered(u) ==
  \/ u \in FromPost
  \/ RoomStatus = "accepted"
  \/ u \in pushed

\* A screen below another one in the navigation stack is not modelled.
OnNoChat(u) == page[u] = Closed /\ request[u] = Closed

\* Sends of an earlier page may still be on their way.
OpenPage(u) ==
  /\ OnNoChat(u)
  /\ Offered(u)
  /\ page' = [page EXCEPT ![u] = NewPage]
  /\ UNCHANGED <<vars, request, tap, pushed, opened>>

\* _checkIfFirstMessageSent; a failed read counts as FALSE
ReadFirst(u, ok) ==
  /\ page[u] # Closed /\ page[u].first = "due"
  /\ page' = [page EXCEPT ![u].first = IF ok /\ messages # << >> THEN "yes" ELSE "no"]

\* _checkChatRequestStatus of initState; a failed read counts as ''
ReadOpening(u, ok) ==
  /\ page[u] # Closed /\ page[u].opening = "due"
  /\ page' = [page EXCEPT ![u].opening = IF ok THEN RoomStatus ELSE "none"]

\* didChangeDependencies assigns the answer without setState, and over what a
\* tap has made of the flag since.
ApplyFirst(u) ==
  /\ page[u] # Closed /\ page[u].first \in {"yes", "no"}
  /\ page' = [page EXCEPT ![u].firstSent = page[u].first = "yes", ![u].first = "done"]

ApplyOpening(u) ==
  /\ page[u] # Closed /\ page[u].opening \in Answer
  /\ page' = [page EXCEPT ![u].status = page[u].opening, ![u].opening = "done"]

Load(u) ==
  /\ \/ /\ \/ ReadFirst(u, TRUE) \/ ReadOpening(u, TRUE)
           \/ ApplyFirst(u) \/ ApplyOpening(u)
        /\ UNCHANGED faults
     \/ /\ faults < MaxFaults
        /\ faults' = faults + 1
        /\ ReadFirst(u, FALSE) \/ ReadOpening(u, FALSE)
  /\ UNCHANGED <<room, messages, calls, creates, wasReset, request,
                tap, pushed, opened>>

\* What _isFirstMessageSent of a page may be when the taps on it look.
Flag(p) == {f \in BOOLEAN : \/ f = p.firstSent
                            \/ p.first = "due"
                            \/ p.first = IF f THEN "yes" ELSE "no"}

\* A handler of a page that has gone throws at its next setState: a pick at its
\* start, a text tap when it is the first to set _isFirstMessageSent, a check of
\* the status at its end.  Others go on.
ClosePage(u) ==
  /\ page[u] # Closed
  /\ page' = [page EXCEPT ![u] = Closed]
  /\ \E flag \in Flag(page[u]) :
       tap' = [c \in Call |->
         IF tap[c] = NoTap \/ tap[c].user # u \/ tap[c].gone THEN tap[c]
         ELSE IF \/ tap[c].step \in {"pick", "check"}
                 \/ tap[c].step \in {"status", "first"} /\ ~flag THEN NoTap
         ELSE [tap[c] EXCEPT !.gone = TRUE]]
  /\ UNCHANGED <<vars, request, pushed, opened>>

-----------------------------------------------------------------------------
(* Writing on ChatPage                                                      *)

InputShown(u) ==
  /\ page[u] # Closed
  /\ ~Uploading(u)
  /\ \/ page[u].status = "accepted"
     \/ page[u].status = "none" /\ ~page[u].firstSent

TapInput(u, c, way, step) ==
  /\ way \in SendWays
  /\ InputShown(u)
  /\ OneAtATime => ~Busy(u)
  /\ Free(c)
  /\ tap' = [tap EXCEPT ![c] = NewTap(u, step)]
  /\ UNCHANGED <<vars, page, request, pushed, opened>>

\* the Send button, and the attachment icon that opens the gallery
TapSend(u, c) == TapInput(u, c, "text", "status")
TapImage(u, c) == TapInput(u, c, "image", "pick")

TapGoto(c, step) == tap' = [tap EXCEPT ![c].step = step]

TapEnds(c) == tap' = [tap EXCEPT ![c] = NoTap]

\* _sendMessage ends with a check of the status, which nobody awaits.
Check(c) == IF Shown(c) THEN TapGoto(c, "check") ELSE TapEnds(c)

\* Past the gate _sendMessage looks at the text: an earlier tap may have
\* cleared it.  Then nothing is sent.
Pass(c) ==
  \/ /\ TapGoto(c, "text")
     /\ StartSend(c, tap[c].user, "pending")
     /\ page' = IF Shown(c) THEN [page EXCEPT ![tap[c].user].firstSent = TRUE]
                            ELSE page
  \/ Check(c) /\ UNCHANGED <<vars, page>>

\* await isChatRequestAccepted(...)
GateStatus(c) ==
  /\ TapOf(c, "status")
  /\ IF RoomStatus = "accepted"
       THEN Pass(c)
       ELSE TapGoto(c, "first") /\ UNCHANGED <<vars, page>>
  /\ UNCHANGED <<request, pushed, opened>>

\* Mutant: a request that is not accepted does not stop the tap.
GateFirstAlways(c) ==
  /\ TapOf(c, "first")
  /\ Pass(c)
  /\ UNCHANGED <<request, pushed, opened>>

\* await _isFirstMessage(); otherwise the tap is refused
GateFirst(c) ==
  /\ TapOf(c, "first")
  /\ IF messages = << >>
       THEN Pass(c)
       ELSE TapEnds(c) /\ UNCHANGED <<vars, page>>
  /\ UNCHANGED <<request, pushed, opened>>

\* A read of the gate fails: "not accepted", and then "not the first".
GateFails(c) ==
  /\ faults < MaxFaults
  /\ faults' = faults + 1
  /\ \/ TapOf(c, "status") /\ TapGoto(c, "first")
     \/ TapOf(c, "first") /\ TapEnds(c)
  /\ UNCHANGED <<room, messages, calls, creates, wasReset, page, request,
                pushed, opened>>

CheckRead(c, ok) ==
  /\ TapOf(c, "check") /\ tap[c].read = "due"
  /\ tap' = [tap EXCEPT ![c].read = IF ok THEN RoomStatus ELSE "none"]
  /\ UNCHANGED page

\* Of two checks the one applied last stands, whichever read was the newer.
CheckApply(c) ==
  /\ TapOf(c, "check") /\ tap[c].read # "due" /\ Shown(c)
  /\ page' = [page EXCEPT ![tap[c].user].status = tap[c].read]
  /\ TapEnds(c)

CheckStatus(c) ==
  /\ \/ (CheckRead(c, TRUE) \/ CheckApply(c)) /\ UNCHANGED faults
     \/ faults < MaxFaults /\ faults' = faults + 1 /\ CheckRead(c, FALSE)
  /\ UNCHANGED <<room, messages, calls, creates, wasReset, request, pushed, opened>>

\* _sendImage: an upload that fails yields the empty URL and is sent as well
SendImage(c) ==
  /\ TapOf(c, "pick")
  /\ TapGoto(c, "image")
  /\ StartSend(c, tap[c].user, "pending")
  /\ UNCHANGED <<page, request, pushed, opened>>

CancelImage(c) ==
  /\ TapOf(c, "pick")
  /\ TapEnds(c)
  /\ UNCHANGED <<vars, page, request, pushed, opened>>

-----------------------------------------------------------------------------
(* Chat_Request                                                             *)

\* The request list hands the page the status it was showing.
OpenRequest(u) ==
  /\ OnNoChat(u)
  /\ RoomStatus \in {"pending", "declined"}
  /\ request' = [request EXCEPT ![u] =
                   [status |-> room.status, receiver |-> "unknown"]]
  /\ UNCHANGED <<vars, page, tap, pushed, opened>>

\* Mutant: the comparison is the one of Msgs_Requests, where isReceiver means
\* "is not the receiver".
LoadReceiverInverted(u) ==
  /\ request[u] # Closed
  /\ request[u].receiver = "unknown"
  /\ request' = [request EXCEPT ![u].receiver =
                   IF room.receiver # u THEN "yes" ELSE "no"]
  /\ UNCHANGED <<vars, page, tap, pushed, opened>>

\* checkIsReceiver; a failed read counts as "no".  (The item builder assigns
\* isReceiver too, but only a decline builds the page once more after that.)
LoadReceiver(u) ==
  /\ request[u] # Closed
  /\ request[u].receiver = "unknown"
  /\ \/ /\ request' = [request EXCEPT ![u].receiver =
                         IF room.receiver = u THEN "yes" ELSE "no"]
        /\ UNCHANGED faults
     \/ /\ faults < MaxFaults
        /\ faults' = faults + 1
        /\ request' = [request EXCEPT ![u].receiver = "no"]
  /\ UNCHANGED <<room, messages, calls, creates, wasReset, page,
                tap, pushed, opened>>

\* The answers on their way go on, but no longer have a page to come back to.
CloseRequest(u) ==
  /\ request[u] # Closed
  /\ request' = [request EXCEPT ![u] = Closed]
  /\ tap' = [c \in Call |-> IF TapOf(c, "answer") /\ tap[c].user = u
                              THEN NoTap ELSE tap[c]]
  /\ UNCHANGED <<vars, page, pushed, opened>>

\* Mutant: the page shows the decline with the tap, not when the call returns.
TapAnswerOptimistic(u, c, answer) ==
  /\ request[u] # Closed
  /\ request[u].receiver = "yes"
  /\ request[u].status # "declined"
  /\ Free(c)
  /\ StartDecision(c, u, answer)
  /\ request' = IF answer = "decline" THEN [request EXCEPT ![u].status = "declined"]
                                      ELSE request
  /\ tap' = [tap EXCEPT ![c] = NewTap(u, "answer")]
  /\ UNCHANGED <<page, pushed, opened>>

\* Both buttons stay live while an earlier answer is on its way.
TapAnswer(u, c, answer) ==
  /\ request[u] # Closed
  /\ request[u].receiver = "yes"
  /\ request[u].status # "declined"
  /\ Free(c)
  /\ StartDecision(c, u, answer)
  /\ tap' = [tap EXCEPT ![c] = NewTap(u, "answer")]
  /\ UNCHANGED <<page, request, pushed, opened>>

-----------------------------------------------------------------------------
(* A request to the server, and what the screens do when its call returns.  *)

\* Mutant: the page stays and shows the acceptance instead of being popped.
RequestAfterStays(c) ==
  LET u == calls[c].user IN
  IF ~TapOf(c, "answer") THEN request
  ELSE CASE At(c, "accept") -> [request EXCEPT ![u].status = "accepted"]
         [] At(c, "decline") -> [request EXCEPT ![u].status = "declined"]
         [] OTHER -> request

\* acceptRequest and declineRequest return normally even when they failed
RequestAfter(c) ==
  LET u == calls[c].user IN
  IF ~TapOf(c, "answer") THEN request
  ELSE CASE At(c, "accept") -> [request EXCEPT ![u] = Closed]
         [] At(c, "decline") -> [request EXCEPT ![u].status = "declined"]
         [] OTHER -> request

\* The page handlers that go on after the step: a text to its check, the others
\* not when their call has returned, and no answer of a page that has just been
\* popped.
TapAfter(c) ==
  [d \in Call |->
     IF d = c /\ calls'[c].pc = "idle"
       THEN IF TapOf(c, "text") /\ Shown(c) THEN [tap[c] EXCEPT !.step = "check"]
                                            ELSE NoTap
     ELSE IF TapOf(d, "answer") /\ request'[tap[d].user] = Closed THEN NoTap
     ELSE tap[d]]

\* Both send handlers notify the peer when sendMessage returns, and it returns
\* normally even when it failed.
PushedAfter(c) ==
  IF (TapOf(c, "text") \/ TapOf(c, "image")) /\ calls'[c].pc = "idle"
    THEN pushed \cup ({Peer(calls[c].user)} \cap Notified)
    ELSE pushed

ServerStep(c) ==
  /\ Step(c) \/ Abort(c)
  /\ request' = RequestAfter(c)
  /\ tap' = TapAfter(c)
  /\ pushed' = PushedAfter(c)
  /\ opened' = (opened \/ RoomStatus' = "accepted")
  /\ UNCHANGED page

KillApp(u) ==
  /\ Kill(u)
  /\ page' = [page EXCEPT ![u] = Closed]
  /\ request' = [request EXCEPT ![u] = Closed]
  /\ tap' = [c \in Call |-> IF tap[c] # NoTap /\ tap[c].user = u
                              THEN NoTap ELSE tap[c]]
  /\ UNCHANGED <<pushed, opened>>

UserStep(u) ==
  \/ OpenPage(u) \/ ClosePage(u)
  \/ OpenRequest(u) \/ CloseRequest(u)
  \/ \E c \in Call : \/ TapSend(u, c) \/ TapImage(u, c)
                     \/ \E answer \in {"accept", "decline"} :
                           TapAnswer(u, c, answer)

AppStep(u) == Load(u) \/ LoadReceiver(u)

TapStep(c) ==
  \/ GateStatus(c) \/ GateFirst(c) \/ GateFails(c)
  \/ SendImage(c) \/ CancelImage(c)
  \/ CheckStatus(c)

PagesNext ==
  \/ \E u \in User : UserStep(u) \/ AppStep(u) \/ KillApp(u)
  \/ \E c \in Call : TapStep(c) \/ ServerStep(c)

PagesSpec == PagesInit /\ [][PagesNext]_allVars

-----------------------------------------------------------------------------
(* Properties                                                               *)

\* A request is answered by the user it was sent to, not by its author, although
\* the page decides by a document it read once: only where set() has replaced the
\* room (InitializeOnlyIfMissing) can the roles have changed under the buttons.
AnsweredByReceiver ==
  \A c \in Call :
    calls[c].pc \in {"accept", "decline"} /\ creates = 1 =>
      room.receiver = calls[c].user

\* "Once the request is accepted, You can continue chatting." (lib/chat.dart):
\* before that the request is the only message.
ContinueOnlyAfterAcceptance == Len(messages) > 1 => opened

Protocol == INSTANCE ChatRequest WITH phase <- RoomStatus,
                                      sent <- Len(messages)

\* The pages carry out the request protocol: one message asks, the room is
\* registered after it, and text goes on only once it has been accepted, although
\* each page decides by what it read before (the gates of _sendMessage).
ImplementsProtocol == Protocol!Spec

(* Statements of the source the code does not keep in every interleaving.    *)

\* "Initialize chat data if it doesn't exist" (sendMessage): set() only ever
\* creates the document, it never replaces one.
InitializeOnlyIfMissing == [][creates' # creates => room = NoRoom]_allVars

\* "Update the UI to show the declined status" (Chat_Request) after the status
\* has been set to "declined" in Firestore: a page that shows a decline it was
\* told of does not stand before a request that is still pending.
DeclineStored ==
  \A u \in User : request[u] # Closed /\ request[u].status = "declined"
                   => RoomStatus # "pending"

\* The badge the lists and the home page show a user counts messages he was
\* sent, never his own and none twice.
BadgeCountsReceived ==
  \A u \in User :
    BadgeOf(u) <= Cardinality({i \in DOMAIN messages : messages[i].to = u})

\* When nothing is in flight the preview in the chat lists is the latest message
\* of one of the two users: the last steps of their sends may cross, but no
\* user's older message comes back.
PreviewIsRecent ==
  room # NoRoom /\ Quiescent /\ faults = 0 =>
    ~ \E i \in DOMAIN messages : /\ i > room.last
                                /\ messages[i].from = messages[room.last].from

=============================================================================
