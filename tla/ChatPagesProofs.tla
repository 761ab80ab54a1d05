--------------------------- MODULE ChatPagesProofs ---------------------------
(***************************************************************************)
(* Proofs about ChatPages for any users of the two screens, any number of  *)
(* call slots and any bounds.                                              *)
(*                                                                         *)
(* First the invariant of the screens: which handler of which page runs    *)
(* which call (Slots), and that a request page which offers its buttons    *)
(* belongs to the receiver of the room, until set() replaces it            *)
(* (RequestBacked).                                                        *)
(* Then the refinement: with one user who asks, and texts sent one at a    *)
(* time, the screens carry out ChatRequest (ProtocolInv).                  *)
(* Last, with the same invariant, where the statements of the source hold  *)
(* that the screens break elsewhere.                                       *)
(***************************************************************************)
EXTENDS ChatPages, ChatMessagesProofs

USE DEF At, Goto, Return, Start, hist, vars

Sends == {"sendRead", "sendAdd", "sendCreate", "sendCount", "sendLast"}

\* A slot whose handler (t) has yet to call is idle, and one that sends or
\* answers has a handler of the user of its call (k); an answer has its page.
SlotOK(t, k, r) ==
  /\ k.pc \in Sends => t # NoTap /\ t.step \in {"text", "image"}
  /\ t # NoTap =>
       /\ t.step \in {"status", "first", "pick", "check"} => k.pc = "idle"
       /\ t.step \in {"text", "image"} => k.pc \in Sends /\ k.user = t.user
       /\ t.step = "answer" =>
            k.pc \in {"accept", "decline"} /\ k.user = t.user /\ r[t.user] # Closed

Slots == \A c \in Call : SlotOK(tap[c], calls[c], request)

\* The request is addressed to u, unless the room has been replaced.
SentTo(u) == room # NoRoom /\ (creates = 1 => room.receiver = u)

Created == creates \in Nat /\ (room # NoRoom => creates >= 1)

RequestBacked ==
  \A u \in User : request[u] # Closed =>
    room # NoRoom /\ (request[u].receiver = "yes" => SentTo(u))

AnswersBacked ==
  \A c \in Call : calls[c].pc \in {"accept", "decline"} => SentTo(calls[c].user)

PagesInv ==
  /\ Inv /\ Marked /\ PagesTypeOK
  /\ Slots /\ Created /\ RequestBacked /\ AnswersBacked

TapSteps == {"status", "first", "pick", "text", "image", "check", "answer"}

LEMMA TapFields ==
  ASSUME NEW t \in Tap
  PROVE  /\ t.user \in User /\ t.step \in TapSteps
         /\ t.read = "due" \/ t.read \in Answer
         /\ \A s \in TapSteps : /\ [t EXCEPT !.step = s] \in Tap
                               /\ [t EXCEPT !.step = s].step = s
                               /\ [t EXCEPT !.step = s].user = t.user
         /\ [t EXCEPT !.gone = TRUE] \in Tap
         /\ [t EXCEPT !.gone = TRUE].step = t.step
         /\ [t EXCEPT !.gone = TRUE].user = t.user
         /\ \A a \in Answer : /\ [t EXCEPT !.read = a] \in Tap
                             /\ [t EXCEPT !.read = a].step = t.step
                             /\ [t EXCEPT !.read = a].user = t.user
  BY DEF Tap, TapSteps

LEMMA NewTaps ==
  ASSUME NEW u \in User, NEW s \in TapSteps
  PROVE  /\ NewTap(u, s) \in Tap /\ NewTap(u, s) # NoTap
         /\ NewTap(u, s).step = s /\ NewTap(u, s).user = u
  <1>1. NewTap(u, s) \in Tap /\ NewTap(u, s).step = s /\ NewTap(u, s).user = u
    BY DEF NewTap, Tap, TapSteps
  <1> QED
    BY <1>1, SentinelsOk

LEMMA TapTypes ==
  ASSUME PagesTypeOK
  PROVE  /\ \A c \in Call : tap[c] # NoTap => tap[c] \in Tap /\ tap[c].user \in User
         /\ \A u \in User : page[u] # Closed => page[u] \in Page
         /\ \A u \in User : request[u] # Closed => request[u] \in Request
         /\ tap \in [Call -> Tap \cup {NoTap}]
         /\ calls \in [Call -> CallState] /\ \A c \in Call : calls[c].user \in User
  <1>1. \A c \in Call : tap[c] # NoTap => tap[c] \in Tap
    BY DEF PagesTypeOK
  <1>2. calls \in [Call -> CallState] /\ \A c \in Call : calls[c].user \in User
    BY DEF PagesTypeOK, TypeOK, CallState
  <1>3. /\ \A u \in User : page[u] # Closed => page[u] \in Page
        /\ \A u \in User : request[u] # Closed => request[u] \in Request
        /\ tap \in [Call -> Tap \cup {NoTap}]
    BY DEF PagesTypeOK
  <1> QED
    BY <1>1, <1>2, <1>3, TapFields

-----------------------------------------------------------------------------
(* The room under the pages                                                 *)

\* A step of the pages is a step of the room, or a read of theirs that failed.
LEMMA RoomSteps ==
  ASSUME PagesTypeOK, [PagesNext]_allVars
  PROVE  \/ [Next]_vars
         \/ /\ UNCHANGED <<room, messages, calls, creates, wasReset>>
            /\ faults' = faults + 1
  <1>1. ASSUME NEW u \in User, UserStep(u) PROVE [Next]_vars
    <2>1. CASE \E c \in Call, answer \in {"accept", "decline"} : TapAnswer(u, c, answer)
      BY <2>1 DEF TapAnswer, Next, Begin
    <2>2. CASE ~ \E c \in Call, answer \in {"accept", "decline"} : TapAnswer(u, c, answer)
      BY <1>1, <2>2 DEF UserStep, OpenPage, ClosePage, OpenRequest, CloseRequest,
         TapSend, TapImage, TapInput
    <2> QED
      BY <2>1, <2>2
  <1>2. ASSUME NEW u \in User, AppStep(u)
        PROVE  /\ UNCHANGED <<room, messages, calls, creates, wasReset>>
               /\ faults' = faults \/ faults' = faults + 1
    BY <1>2 DEF AppStep, Load, LoadReceiver
  <1>3. ASSUME NEW u \in User, KillApp(u) PROVE Next
    BY <1>3 DEF KillApp, Next
  <1>4. ASSUME NEW c \in Call, ServerStep(c) PROVE Next
    BY <1>4 DEF ServerStep, Next
  <1>5. ASSUME NEW c \in Call, GateStatus(c) \/ GateFirst(c) \/ SendImage(c)
                               \/ CancelImage(c)
        PROVE  [Next]_vars
    <2>1. CASE UNCHANGED vars
      BY <2>1
    <2>2. CASE ~UNCHANGED vars
      <3>1. tap[c] # NoTap /\ StartSend(c, tap[c].user, "pending")
        BY <1>5, <2>2 DEF GateStatus, GateFirst, SendImage, CancelImage, CheckStatus, Pass, TapOf
      <3>2. tap[c].user \in User
        BY <3>1, TapTypes
      <3> QED
        BY <3>1, <3>2, PagesOk DEF Next, Begin
    <2> QED
      BY <2>1, <2>2
  <1>6. ASSUME NEW c \in Call, GateFails(c) \/ CheckStatus(c)
        PROVE  /\ UNCHANGED <<room, messages, calls, creates, wasReset>>
               /\ faults' = faults \/ faults' = faults + 1
    BY <1>6 DEF GateFails, CheckStatus
  <1>7. CASE UNCHANGED allVars
    BY <1>7 DEF allVars
  <1> QED
    BY <1>1, <1>2, <1>3, <1>4, <1>5, <1>6, <1>7 DEF PagesNext, TapStep

\* Only set() makes a room, or another one of it.
LEMMA RoomRoles ==
  ASSUME Inv, [Next]_vars
  PROVE  \/ /\ creates' = creates
            /\ room = NoRoom => room' = NoRoom
            /\ room # NoRoom => room' # NoRoom /\ room'.receiver = room.receiver
         \/ creates' = creates + 1 /\ room' # NoRoom
  <1>0. room \in Room \cup {NoRoom} /\ CallsBacked
    BY DEF Inv, TypeOK
  <1>1. CASE UNCHANGED <<room, creates>>
    BY <1>1
  <1>2. ASSUME NEW c \in Call, SendCreate(c) PROVE creates' = creates + 1 /\ room' # NoRoom
    BY <1>2, StepRoom DEF SendCreate, Step
  <1>3. ASSUME NEW c \in Call, SendCount(c) \/ SendLast(c) \/ ResetWrite(c)
        PROVE  /\ creates' = creates /\ room # NoRoom
               /\ room' # NoRoom /\ room'.receiver = room.receiver
    <2>1. room # NoRoom /\ room \in Room
      BY <1>0, <1>3 DEF SendCount, SendLast, ResetWrite, CallsBacked
    <2>2. room' # NoRoom
      BY <1>3, <2>1, StepRoom DEF Step
    <2> QED
      BY <1>3, <2>1, <2>2 DEF SendCount, SendLast, ResetWrite, Room
  <1>4. ASSUME NEW c \in Call, Accept(c) \/ Decline(c)
        PROVE  /\ creates' = creates
               /\ room = NoRoom => room' = NoRoom
               /\ room # NoRoom => room' # NoRoom /\ room'.receiver = room.receiver
    <2>1. CASE room = NoRoom
      BY <1>4, <2>1 DEF Accept, Decline, Decide
    <2>2. CASE room # NoRoom
      <3>1. room' # NoRoom
        BY <1>4, <2>2, StepRoom DEF Step
      <3> QED
        BY <1>0, <1>4, <2>2, <3>1 DEF Accept, Decline, Decide, Room
    <2> QED
      BY <2>1, <2>2
  <1>5. CASE ~ \E c \in Call : Step(c)
    BY <1>1, <1>5 DEF Next, Begin, StartSend, StartRefresh, StartDecision, Abort, Kill
  <1>6. ASSUME NEW c \in Call, Step(c), ~UNCHANGED <<room, creates>>
        PROVE  \/ SendCreate(c) \/ Accept(c) \/ Decline(c)
               \/ SendCount(c) \/ SendLast(c) \/ ResetWrite(c)
    BY <1>6 DEF Step, SendRead, SendAdd, ResetRead, MarkRead, MarkWrite
  <1> QED
    BY <1>1, <1>2, <1>3, <1>4, <1>5, <1>6

LEMMA RoomSide ==
  ASSUME PagesInv, [PagesNext]_allVars
  PROVE  /\ Inv' /\ Marked'
         /\ room # NoRoom => room' # NoRoom
         /\ Created' /\ \A u \in User : SentTo(u) => SentTo(u)'
         /\ messages # << >> => messages' # << >>
  <1>0. Inv /\ Marked /\ PagesTypeOK /\ Created
    BY DEF PagesInv
  <1>1. CASE [Next]_vars
    <2>1. Inv' /\ Marked' /\ SeenStep
      BY <1>0, <1>1, NextInv, NextMarked, NextSeen
    <2>2. /\ messages \in Seq(Message) /\ Len(messages) \in Nat
          /\ DOMAIN messages = 1..Len(messages)
          /\ messages' \in Seq(Message) /\ Len(messages') \in Nat
          /\ DOMAIN messages' = 1..Len(messages')
      BY <1>0, <2>1, LenProperties DEF Inv, TypeOK
    <2>4. Created' /\ \A u \in User : SentTo(u) => SentTo(u)'
      BY <1>0, <1>1, RoomRoles DEF Created, SentTo
    <2>5. messages # << >> => messages' # << >>
      <3>1. messages # << >> => Len(messages) > 0
        BY <2>2, EmptySeq
      <3>2. messages' = << >> => Len(messages') = 0
        BY EmptySeq
      <3> QED
        BY <2>1, <2>2, <3>1, <3>2 DEF SeenStep
    <2>6. room # NoRoom => room' # NoRoom
      <3>1. CASE \E c \in Call : Step(c)
        BY <1>0, <3>1, StepRoom
      <3>2. CASE ~ \E c \in Call : Step(c)
        BY <1>0, <1>1, <3>2, BeginMarked, EndMarked DEF Next
      <3> QED
        BY <3>1, <3>2
    <2> QED
      BY <2>1, <2>4, <2>5, <2>6
  <1>2. CASE /\ UNCHANGED <<room, messages, calls, creates, wasReset>>
             /\ faults' = faults + 1
    <2>1. Inv'
      BY <1>0, <1>2, ReturnInv DEF Inv, TypeOK
    <2>2. Marked'
      BY <1>0, <1>2 DEF Marked
    <2> QED
      BY <1>0, <1>2, <2>1, <2>2 DEF SentTo, Created
  <1> QED
    BY <1>0, <1>1, <1>2, RoomSteps

-----------------------------------------------------------------------------
(* The pages                                                                *)

LEMMA PageFields ==
  ASSUME NEW p \in Page
  PROVE  /\ \A f \in {"yes", "no"} : [p EXCEPT !.first = f] \in Page
         /\ \A a \in Answer : [p EXCEPT !.opening = a] \in Page
         /\ \A a \in Answer : [p EXCEPT !.status = a] \in Page
         /\ \A b \in BOOLEAN : [p EXCEPT !.firstSent = b, !.first = "done"] \in Page
         /\ \A a \in Answer : [p EXCEPT !.status = a, !.opening = "done"] \in Page
         /\ [p EXCEPT !.firstSent = TRUE] \in Page
         /\ p.opening \in Answer \/ p.opening \in {"due", "done"}
  BY DEF Page, Answer, Status

LEMMA PageTyped ==
  ASSUME PagesInv, [PagesNext]_allVars
  PROVE  page' \in [User -> Page \cup {Closed}]
  <1>0. /\ PagesTypeOK /\ page \in [User -> Page \cup {Closed}]
        /\ RoomStatus \in Answer /\ "none" \in Answer
    BY DEF PagesInv, PagesTypeOK, RoomStatus, TypeOK, Room, Answer
  \* One page at a time, by a value of its type.
  <1>1. ASSUME NEW u \in User, NEW p \in Page \cup {Closed}, page' = [page EXCEPT ![u] = p]
        PROVE  page' \in [User -> Page \cup {Closed}]
    BY <1>0, <1>1
  <1>2. NewPage \in Page
    BY DEF NewPage, Page
  <1>3. ASSUME NEW u \in User, OpenPage(u)
        PROVE  page' \in [User -> Page \cup {Closed}]
    BY <1>1, <1>2, <1>3 DEF OpenPage
  <1>4. ASSUME NEW u \in User, ClosePage(u) \/ KillApp(u)
        PROVE  page' \in [User -> Page \cup {Closed}]
    BY <1>1, <1>4 DEF ClosePage, KillApp
  <1>5. ASSUME NEW u \in User, Load(u)
        PROVE  page' \in [User -> Page \cup {Closed}]
    <2>1. page[u] \in Page
      BY <1>0, <1>5, TapTypes DEF Load, ReadFirst, ReadOpening, ApplyFirst, ApplyOpening
    <2>2. ASSUME NEW ok \in BOOLEAN, ReadFirst(u, ok)
          PROVE  page' \in [User -> Page \cup {Closed}]
      <3>1. PICK f \in {"yes", "no"} : page' = [page EXCEPT ![u].first = f]
        BY <2>2 DEF ReadFirst
      <3>2. page' = [page EXCEPT ![u] = [page[u] EXCEPT !.first = f]]
        BY <3>1
      <3>3. [page[u] EXCEPT !.first = f] \in Page
        BY <2>1, PageFields
      <3> QED
        BY <1>1, <3>2, <3>3
    <2>3. ASSUME NEW ok \in BOOLEAN, ReadOpening(u, ok)
          PROVE  page' \in [User -> Page \cup {Closed}]
      <3>1. PICK a \in Answer : page' = [page EXCEPT ![u].opening = a]
        BY <1>0, <2>3 DEF ReadOpening
      <3>2. page' = [page EXCEPT ![u] = [page[u] EXCEPT !.opening = a]]
        BY <3>1
      <3>3. [page[u] EXCEPT !.opening = a] \in Page
        BY <2>1, PageFields
      <3> QED
        BY <1>1, <3>2, <3>3
    <2>4. ASSUME ApplyFirst(u) PROVE page' \in [User -> Page \cup {Closed}]
      <3>1. PICK b \in BOOLEAN :
              page' = [page EXCEPT ![u].firstSent = b, ![u].first = "done"]
        BY <2>4 DEF ApplyFirst
      <3>2. page' = [page EXCEPT ![u] = [page[u] EXCEPT !.firstSent = b, !.first = "done"]]
        BY <1>0, <3>1
      <3>3. [page[u] EXCEPT !.firstSent = b, !.first = "done"] \in Page
        BY <2>1, PageFields
      <3> QED
        BY <1>1, <3>2, <3>3
    <2>5. ASSUME ApplyOpening(u) PROVE page' \in [User -> Page \cup {Closed}]
      <3>1. PICK a \in Answer :
              page' = [page EXCEPT ![u].status = a, ![u].opening = "done"]
        BY <2>5 DEF ApplyOpening
      <3>2. page' = [page EXCEPT ![u] = [page[u] EXCEPT !.status = a, !.opening = "done"]]
        BY <1>0, <3>1
      <3>3. [page[u] EXCEPT !.status = a, !.opening = "done"] \in Page
        BY <2>1, PageFields
      <3> QED
        BY <1>1, <3>2, <3>3
    <2> QED
      BY <1>5, <2>2, <2>3, <2>4, <2>5 DEF Load
  <1>6. ASSUME NEW u \in User, NEW c \in Call, TapSend(u, c) \/ TapImage(u, c)
        PROVE  UNCHANGED page
    BY <1>6 DEF TapSend, TapImage, TapInput
  <1>7. ASSUME NEW c \in Call, tap[c] # NoTap, Pass(c)
        PROVE  page' \in [User -> Page \cup {Closed}]
    <2> DEFINE u == tap[c].user
    <2>1. u \in User
      BY <1>0, <1>7, TapTypes
    <2>2. CASE UNCHANGED page
      BY <1>0, <2>2
    <2>3. CASE ~UNCHANGED page
      <3>1. page[u] # Closed /\ page' = [page EXCEPT ![u].firstSent = TRUE]
        BY <1>7, <2>3 DEF Pass, Shown
      <3>2. page' = [page EXCEPT ![u] = [page[u] EXCEPT !.firstSent = TRUE]]
        BY <3>1
      <3>3. [page[u] EXCEPT !.firstSent = TRUE] \in Page
        BY <1>0, <2>1, <3>1, PageFields
      <3> QED
        BY <1>1, <2>1, <3>2, <3>3
    <2> QED
      BY <2>2, <2>3
  <1>8. ASSUME NEW c \in Call, CheckStatus(c)
        PROVE  page' \in [User -> Page \cup {Closed}]
    <2> DEFINE u == tap[c].user
    <2>1. CASE UNCHANGED page
      BY <1>0, <2>1
    <2>2. CASE ~UNCHANGED page
      <3>1. /\ tap[c] # NoTap /\ tap[c].read # "due" /\ page[u] # Closed
            /\ page' = [page EXCEPT ![u].status = tap[c].read]
        BY <1>8, <2>2 DEF CheckStatus, CheckRead, CheckApply, TapOf, Shown
      <3>2. u \in User /\ tap[c].read \in Answer /\ page[u] \in Page
        BY <1>0, <3>1, TapTypes, TapFields
      <3>3. page' = [page EXCEPT ![u] = [page[u] EXCEPT !.status = tap[c].read]]
        BY <3>1
      <3>4. [page[u] EXCEPT !.status = tap[c].read] \in Page
        BY <3>2, PageFields
      <3> QED
        BY <1>1, <3>2, <3>3, <3>4
    <2> QED
      BY <2>1, <2>2
  <1>9. ASSUME NEW c \in Call, TapStep(c)
        PROVE  page' \in [User -> Page \cup {Closed}]
    <2>1. CASE tap[c] # NoTap /\ Pass(c)
      BY <1>7, <2>1
    <2>2. CASE CheckStatus(c)
      BY <1>8, <2>2
    <2>3. CASE ~(tap[c] # NoTap /\ Pass(c)) /\ ~CheckStatus(c)
      <3>1. UNCHANGED page
        BY <1>9, <2>3 DEF TapStep, GateStatus, GateFirst, GateFails, SendImage,
           CancelImage, TapOf
      <3> QED
        BY <1>0, <3>1
    <2> QED
      BY <2>1, <2>2, <2>3
  <1>12. ASSUME NEW c \in Call, ServerStep(c) PROVE UNCHANGED page
    BY <1>12 DEF ServerStep
  <1>10. ASSUME NEW u \in User, OpenRequest(u) \/ CloseRequest(u) \/ LoadReceiver(u)
                  \/ \E c \in Call, answer \in {"accept", "decline"} : TapAnswer(u, c, answer)
         PROVE  UNCHANGED page
    BY <1>10 DEF OpenRequest, CloseRequest, LoadReceiver, TapAnswer
  <1>11. CASE UNCHANGED allVars
    BY <1>0, <1>11 DEF allVars, pageVars
  <1> QED
    BY <1>0, <1>3, <1>4, <1>5, <1>6, <1>9, <1>10, <1>11, <1>12
    DEF PagesNext, UserStep, AppStep

-----------------------------------------------------------------------------
(* The request pages                                                        *)

\* How a step changes the request pages.
RequestEffect ==
  \/ UNCHANGED request
  \/ \E u \in User : request' = [request EXCEPT ![u] = Closed]
  \/ \E u \in User, q \in Request :
       /\ request' = [request EXCEPT ![u] = q]
       /\ room # NoRoom
       /\ q.receiver = "yes" =>
            SentTo(u) \/ (request[u] # Closed /\ request[u].receiver = "yes")

LEMMA RequestSteps ==
  ASSUME PagesInv, [PagesNext]_allVars
  PROVE  RequestEffect
  <1>0. /\ Inv /\ PagesTypeOK /\ Slots /\ RequestBacked
        /\ request \in [User -> Request \cup {Closed}]
    BY DEF PagesInv, PagesTypeOK
  <1>1. ASSUME NEW u \in User, OpenRequest(u) PROVE RequestEffect
    <2> DEFINE q == [status |-> room.status, receiver |-> "unknown"]
    <2>1. room # NoRoom /\ room.status \in {"pending", "declined"}
      BY <1>1 DEF OpenRequest, RoomStatus
    <2>2. q \in Request /\ q.receiver # "yes"
      BY <2>1 DEF Request
    <2>3. request' = [request EXCEPT ![u] = q]
      BY <1>1 DEF OpenRequest
    <2> HIDE DEF q
    <2> QED
      BY <2>1, <2>2, <2>3 DEF RequestEffect
  <1>2. ASSUME NEW u \in User, CloseRequest(u) \/ KillApp(u) PROVE RequestEffect
    BY <1>2 DEF CloseRequest, KillApp, RequestEffect
  <1>3. ASSUME NEW u \in User, LoadReceiver(u) PROVE RequestEffect
    <2>1. PICK b \in {"yes", "no"} :
            /\ request' = [request EXCEPT ![u].receiver = b]
            /\ b = "yes" => room.receiver = u
      BY <1>3 DEF LoadReceiver
    <2>2. request[u] # Closed /\ request[u] \in Request
      BY <1>0, <1>3 DEF LoadReceiver
    <2> DEFINE q == [request[u] EXCEPT !.receiver = b]
    <2>3. q \in Request /\ q.receiver = b
      BY <2>2 DEF Request
    <2>4. request' = [request EXCEPT ![u] = q]
      BY <2>1
    <2> HIDE DEF q
    <2>5. room # NoRoom
      BY <1>0, <2>2 DEF RequestBacked
    <2>6. b = "yes" => SentTo(u)
      BY <2>1, <2>5 DEF SentTo
    <2> QED
      BY <2>3, <2>4, <2>5, <2>6 DEF RequestEffect
  <1>4. ASSUME NEW c \in Call, ServerStep(c) PROVE RequestEffect
    <2> DEFINE u == calls[c].user
    <2>1. u \in User
      BY <1>0, TapTypes
    <2>2. CASE ~TapOf(c, "answer") \/ ~(At(c, "accept") \/ At(c, "decline"))
      BY <1>4, <2>2 DEF ServerStep, RequestAfter, RequestEffect
    <2>3. CASE TapOf(c, "answer") /\ At(c, "accept")
      <3>1. request' = [request EXCEPT ![u] = Closed]
        BY <1>4, <2>3 DEF ServerStep, RequestAfter
      <3> QED
        BY <2>1, <3>1 DEF RequestEffect
    <2>4. CASE TapOf(c, "answer") /\ At(c, "decline")
      <3>1. request[u] # Closed
        BY <1>0, <2>4 DEF Slots, SlotOK, TapOf
      <3>2. request[u] \in Request /\ room # NoRoom
        BY <1>0, <2>1, <3>1 DEF RequestBacked
      <3> DEFINE q == [request[u] EXCEPT !.status = "declined"]
      <3>3. q \in Request /\ q.receiver = request[u].receiver
        BY <3>2 DEF Request
      <3>4. request' = [request EXCEPT ![u] = q]
        BY <1>4, <2>4 DEF ServerStep, RequestAfter
      <3> HIDE DEF q
      <3> QED
        BY <2>1, <3>1, <3>2, <3>3, <3>4 DEF RequestEffect
    <2> QED
      BY <2>2, <2>3, <2>4
  <1>5. ASSUME NEW u \in User, AppStep(u), ~LoadReceiver(u) PROVE UNCHANGED request
    BY <1>5 DEF AppStep, Load
  <1>6. ASSUME NEW u \in User, UserStep(u), ~OpenRequest(u), ~CloseRequest(u)
        PROVE  UNCHANGED request
    BY <1>6 DEF UserStep, OpenPage, ClosePage, TapSend, TapImage, TapInput, TapAnswer
  <1>7. ASSUME NEW c \in Call, TapStep(c) PROVE UNCHANGED request
    BY <1>7 DEF TapStep, GateStatus, GateFirst, GateFails, SendImage, CancelImage, CheckStatus
  <1>8. CASE UNCHANGED allVars
    BY <1>8 DEF allVars, pageVars, RequestEffect
  <1> QED
    BY <1>1, <1>2, <1>3, <1>4, <1>5, <1>6, <1>7, <1>8 DEF PagesNext, RequestEffect

LEMMA RequestsTyped ==
  ASSUME PagesInv, [PagesNext]_allVars
  PROVE  request' \in [User -> Request \cup {Closed}] /\ RequestBacked'
  <1>0. /\ RequestBacked /\ request \in [User -> Request \cup {Closed}]
        /\ RequestEffect
    BY RequestSteps DEF PagesInv, PagesTypeOK
  <1>1. /\ room # NoRoom => room' # NoRoom
        /\ \A u \in User : SentTo(u) => SentTo(u)'
    BY RoomSide
  <1>2. CASE UNCHANGED request
    BY <1>0, <1>1, <1>2 DEF RequestBacked
  <1>3. CASE \E u \in User : request' = [request EXCEPT ![u] = Closed]
    BY <1>0, <1>1, <1>3 DEF RequestBacked
  <1>4. ASSUME NEW u \in User, NEW q \in Request,
               request' = [request EXCEPT ![u] = q], room # NoRoom,
               q.receiver = "yes" =>
                 SentTo(u) \/ (request[u] # Closed /\ request[u].receiver = "yes")
        PROVE  request' \in [User -> Request \cup {Closed}] /\ RequestBacked'
    <2>1. q.receiver = "yes" => SentTo(u)
      BY <1>0, <1>4 DEF RequestBacked
    <2>2. request'[u] = q /\ \A v \in User \ {u} : request'[v] = request[v]
      BY <1>0, <1>4
    <2>3. RequestBacked'
      BY <1>0, <1>1, <1>4, <2>1, <2>2 DEF RequestBacked
    <2> QED
      BY <1>0, <1>4, <2>3
  <1> QED
    BY <1>0, <1>2, <1>3, <1>4 DEF RequestEffect

\* Which request pages a step closes.
LEMMA RequestsStay ==
  ASSUME PagesInv, [PagesNext]_allVars
  PROVE  /\ \A u \in User : request[u] # Closed /\ request'[u] = Closed =>
              request' = [request EXCEPT ![u] = Closed]
         /\ UNCHANGED request => \A u \in User : request'[u] = request[u]
  BY RequestSteps, SentinelsOk DEF RequestEffect, PagesInv, PagesTypeOK

-----------------------------------------------------------------------------
(* The slots                                                                *)

\* A slot that is not touched keeps what it promises as long as the page of its
\* answer stays.
LEMMA SlotStays ==
  ASSUME PagesInv, NEW c \in Call, calls'[c] = calls[c],
         \/ tap'[c] = tap[c] /\ (TapOf(c, "answer") => request'[tap[c].user] # Closed)
         \/ tap'[c] = NoTap /\ calls[c].pc \notin Sends
  PROVE  SlotOK(tap'[c], calls'[c], request')
  BY DEF PagesInv, Slots, SlotOK, TapOf

\* A slot whose call has ended is free.
LEMMA SlotEnds ==
  ASSUME NEW c \in Call, tap'[c] = NoTap, calls'[c].pc \notin Sends
  PROVE  SlotOK(tap'[c], calls'[c], request')
  BY DEF SlotOK

LEMMA SlotsKept ==
  ASSUME PagesInv, [PagesNext]_allVars
  PROVE  tap' \in [Call -> Tap \cup {NoTap}] /\ Slots'
  <1>0. /\ Inv /\ PagesTypeOK /\ Slots
        /\ tap \in [Call -> Tap \cup {NoTap}] /\ calls \in [Call -> CallState]
    BY TapTypes DEF PagesInv
  <1>a. \A u \in User : request[u] # Closed /\ request'[u] = Closed =>
          request' = [request EXCEPT ![u] = Closed]
    BY RequestsStay
  <1>b. \A c \in Call : TapOf(c, "answer") =>
          tap[c].user \in User /\ request[tap[c].user] # Closed
    BY <1>0, TapTypes DEF Slots, SlotOK, TapOf
  \* Calls and request pages stay, and at most one slot gets a handler.
  <1>1. ASSUME UNCHANGED tap, UNCHANGED calls,
               \A u \in User : request[u] # Closed => request'[u] # Closed
        PROVE  Slots'
    BY <1>0, <1>1, <1>b, SlotStays DEF Slots
  <1>2. ASSUME NEW c \in Call, NEW t \in Tap \cup {NoTap}, tap' = [tap EXCEPT ![c] = t],
               UNCHANGED request, SlotOK(t, calls'[c], request'),
               \A b \in Call \ {c} : calls'[b] = calls[b]
        PROVE  tap' \in [Call -> Tap \cup {NoTap}] /\ Slots'
    <2>1. tap'[c] = t /\ \A b \in Call \ {c} : tap'[b] = tap[b]
      BY <1>0, <1>2
    <2>2. \A b \in Call \ {c} : SlotOK(tap'[b], calls'[b], request')
      BY <1>2, <1>b, <2>1, SlotStays
    <2> QED
      BY <1>0, <1>2, <2>1, <2>2 DEF Slots
  <1>3. ASSUME NEW u \in User, OpenPage(u) \/ Load(u) \/ OpenRequest(u) \/ LoadReceiver(u)
        PROVE  tap' \in [Call -> Tap \cup {NoTap}] /\ Slots'
    <2>1. UNCHANGED <<tap, calls>>
      BY <1>3 DEF OpenPage, Load, OpenRequest, LoadReceiver
    <2>2. \A v \in User : request[v] # Closed => request'[v] # Closed
      <3>1. CASE UNCHANGED request
        BY <3>1
      <3>2. CASE OpenRequest(u)
        BY <1>0, <3>2 DEF OpenRequest, OnNoChat, PagesTypeOK
      <3>3. CASE LoadReceiver(u)
        <4>1. PICK b \in {"yes", "no"} : request' = [request EXCEPT ![u].receiver = b]
          BY <3>3 DEF LoadReceiver
        <4>2. request[u] \in Request
          BY <1>0, <3>3, TapTypes DEF LoadReceiver
        <4>3. [request[u] EXCEPT !.receiver = b] \in Request
          BY <4>2 DEF Request
        <4>4. request' = [request EXCEPT ![u] = [request[u] EXCEPT !.receiver = b]]
          BY <4>1
        <4> QED
          BY <1>0, <4>3, <4>4, SentinelsOk DEF PagesTypeOK
      <3>4. OpenPage(u) \/ Load(u) => UNCHANGED request
        BY DEF OpenPage, Load
      <3> QED
        BY <1>3, <3>1, <3>2, <3>3, <3>4
    <2> QED
      BY <1>0, <1>1, <2>1, <2>2
  <1>4. ASSUME NEW u \in User, ClosePage(u)
        PROVE  tap' \in [Call -> Tap \cup {NoTap}] /\ Slots'
    <2>1. UNCHANGED <<calls, request>>
      BY <1>4 DEF ClosePage
    <2>2. /\ tap' \in [Call -> Tap \cup {NoTap}]
          /\ \A c \in Call : \/ tap'[c] = tap[c]
                             \/ /\ tap'[c] = NoTap /\ tap[c] # NoTap
                                /\ tap[c].step \in {"pick", "check", "status", "first"}
                             \/ tap[c] # NoTap /\ tap'[c] = [tap[c] EXCEPT !.gone = TRUE]
      <3> DEFINE Kept(c) == \/ tap'[c] = tap[c]
                            \/ /\ tap'[c] = NoTap /\ tap[c] # NoTap
                               /\ tap[c].step \in {"pick", "check", "status", "first"}
                            \/ tap[c] # NoTap /\ tap'[c] = [tap[c] EXCEPT !.gone = TRUE]
      <3>1. PICK flag \in Flag(page[u]) :
              tap' = [c \in Call |->
                IF tap[c] = NoTap \/ tap[c].user # u \/ tap[c].gone THEN tap[c]
                ELSE IF \/ tap[c].step \in {"pick", "check"}
                        \/ tap[c].step \in {"status", "first"} /\ ~flag THEN NoTap
                ELSE [tap[c] EXCEPT !.gone = TRUE]]
        BY <1>4 DEF ClosePage
      <3>2. \A c \in Call : Kept(c)
        BY <3>1
      <3>3. \A c \in Call : Kept(c) => tap'[c] \in Tap \cup {NoTap}
        BY <1>0, TapTypes, TapFields
      <3>4. tap' = [c \in Call |-> tap'[c]]
        BY <3>1
      <3> QED
        BY <3>2, <3>3, <3>4
    <2>3. \A c \in Call : SlotOK(tap'[c], calls'[c], request')
      <3> SUFFICES ASSUME NEW c \in Call PROVE SlotOK(tap'[c], calls'[c], request')
        OBVIOUS
      <3>1. CASE tap'[c] = tap[c]
        BY <1>b, <2>1, <3>1, SlotStays
      <3>2. CASE tap'[c] = NoTap /\ tap[c] # NoTap
                 /\ tap[c].step \in {"pick", "check", "status", "first"}
        <4>1. tap'[c] = NoTap /\ calls[c].pc = "idle"
          BY <1>0, <3>2 DEF Slots, SlotOK
        <4> QED
          BY <2>1, <4>1, SlotEnds DEF Sends
      <3>3. CASE tap[c] # NoTap /\ tap'[c] = [tap[c] EXCEPT !.gone = TRUE]
        <4>1. tap'[c].step = tap[c].step /\ tap'[c].user = tap[c].user
          BY <1>0, <3>3, TapTypes, TapFields
        <4>2. SlotOK(tap[c], calls[c], request)
          BY <1>0 DEF Slots
        <4>3. tap'[c] # NoTap
          BY <1>0, <3>3, TapTypes, TapFields, SentinelsOk
        <4>4. calls'[c] = calls[c] /\ request' = request
          BY <2>1
        <4> QED
          BY <3>3, <4>1, <4>2, <4>3, <4>4 DEF SlotOK
      <3> QED
        BY <2>2, <3>1, <3>2, <3>3
    <2> QED
      BY <2>2, <2>3 DEF Slots
  <1>5. ASSUME NEW u \in User, CloseRequest(u)
        PROVE  tap' \in [Call -> Tap \cup {NoTap}] /\ Slots'
    <2>1. UNCHANGED calls /\ request' = [request EXCEPT ![u] = Closed]
      BY <1>5 DEF CloseRequest
    <2>2. /\ tap' \in [Call -> Tap \cup {NoTap}]
          /\ \A c \in Call :
               tap'[c] = IF TapOf(c, "answer") /\ tap[c].user = u THEN NoTap ELSE tap[c]
      BY <1>0, <1>5 DEF CloseRequest
    <2>3. \A c \in Call : SlotOK(tap'[c], calls'[c], request')
      <3> SUFFICES ASSUME NEW c \in Call PROVE SlotOK(tap'[c], calls'[c], request')
        OBVIOUS
      <3>1. CASE TapOf(c, "answer") /\ tap[c].user = u
        <4>1. tap'[c] = NoTap /\ calls[c].pc \in {"accept", "decline"}
          BY <1>0, <2>2, <3>1 DEF Slots, SlotOK, TapOf
        <4> QED
          BY <2>1, <4>1, SlotEnds DEF Sends
      <3>2. CASE ~(TapOf(c, "answer") /\ tap[c].user = u)
        <4>1. tap'[c] = tap[c]
          BY <2>2, <3>2
        <4>2. TapOf(c, "answer") => request'[tap[c].user] # Closed
          BY <1>0, <1>b, <2>1, <3>2 DEF PagesTypeOK
        <4> QED
          BY <2>1, <4>1, <4>2, SlotStays
      <3> QED
        BY <3>1, <3>2
    <2> QED
      BY <2>2, <2>3 DEF Slots
  <1>6. ASSUME NEW u \in User, NEW c \in Call, TapSend(u, c) \/ TapImage(u, c)
        PROVE  tap' \in [Call -> Tap \cup {NoTap}] /\ Slots'
    <2>1. PICK s \in {"status", "pick"} :
            /\ tap' = [tap EXCEPT ![c] = NewTap(u, s)]
            /\ UNCHANGED <<vars, request>> /\ calls[c].pc = "idle"
      BY <1>6 DEF TapSend, TapImage, TapInput, Free
    <2> DEFINE t == NewTap(u, s)
    <2>2. t \in Tap /\ t.step = s
      BY NewTaps DEF TapSteps
    <2>3. tap' = [tap EXCEPT ![c] = t]
      BY <2>1
    <2> HIDE DEF t
    <2>4. SlotOK(t, calls'[c], request')
      BY <2>1, <2>2 DEF SlotOK, Sends
    <2> QED
      BY <1>2, <2>1, <2>2, <2>3, <2>4
  <1>7. ASSUME NEW u \in User, NEW c \in Call, NEW answer \in {"accept", "decline"},
               TapAnswer(u, c, answer)
        PROVE  tap' \in [Call -> Tap \cup {NoTap}] /\ Slots'
    <2>1. /\ tap' = [tap EXCEPT ![c] = NewTap(u, "answer")]
          /\ UNCHANGED request /\ request[u] # Closed
          /\ StartDecision(c, u, answer)
      BY <1>7 DEF TapAnswer
    <2>2. /\ calls'[c].pc = answer /\ calls'[c].user = u
          /\ \A b \in Call \ {c} : calls'[b] = calls[b]
      BY <1>0, <2>1, Starts
    <2> DEFINE t == NewTap(u, "answer")
    <2>3. t \in Tap /\ t.step = "answer" /\ t.user = u
      BY NewTaps DEF TapSteps
    <2>4. tap' = [tap EXCEPT ![c] = t]
      BY <2>1
    <2> HIDE DEF t
    <2>5. SlotOK(t, calls'[c], request')
      BY <2>1, <2>2, <2>3 DEF SlotOK, Sends
    <2> QED
      BY <1>2, <2>1, <2>2, <2>3, <2>4, <2>5
  <1>8. ASSUME NEW u \in User, KillApp(u)
        PROVE  tap' \in [Call -> Tap \cup {NoTap}] /\ Slots'
    <2>1. /\ request' = [request EXCEPT ![u] = Closed]
          /\ \A c \in Call : calls'[c] = IF calls[c].user = u THEN Idle ELSE calls[c]
          /\ \A c \in Call :
               tap'[c] = IF tap[c] # NoTap /\ tap[c].user = u THEN NoTap ELSE tap[c]
      BY <1>8 DEF KillApp, Kill
    <2>2. tap' \in [Call -> Tap \cup {NoTap}]
      BY <1>0, <1>8 DEF KillApp
    <2>3. \A c \in Call : SlotOK(tap'[c], calls'[c], request')
      <3> SUFFICES ASSUME NEW c \in Call PROVE SlotOK(tap'[c], calls'[c], request')
        OBVIOUS
      <3>0. Idle.pc = "idle"
        BY DEF Idle
      <3>1. CASE tap'[c] = NoTap
        <4>1. calls'[c].pc \notin Sends
          BY <1>0, <2>1, <3>0, <3>1 DEF Slots, SlotOK, Sends
        <4> QED
          BY <3>1, <4>1, SlotEnds
      <3>2. CASE tap'[c] # NoTap
        <4>1. tap'[c] = tap[c] /\ tap[c] # NoTap /\ tap[c].user # u
          BY <2>1, <3>2
        <4>2. CASE calls'[c] = calls[c]
          <5>1. TapOf(c, "answer") => request'[tap[c].user] # Closed
            BY <1>0, <1>b, <2>1, <4>1 DEF PagesTypeOK
          <5> QED
            BY <4>1, <4>2, <5>1, SlotStays
        <4>3. CASE calls'[c] # calls[c]
          <5>1. calls[c].user = u /\ calls'[c] = Idle
            BY <2>1, <4>3
          <5>2. tap[c].step \notin {"text", "image", "answer"}
            BY <1>0, <4>1, <5>1 DEF Slots, SlotOK
          <5> QED
            BY <3>0, <4>1, <5>1, <5>2 DEF SlotOK, Sends
        <4> QED
          BY <4>2, <4>3
      <3> QED
        BY <3>1, <3>2
    <2> QED
      BY <2>2, <2>3 DEF Slots
  \* A handler goes on to another step of its own.
  <1>9. ASSUME NEW c \in Call, NEW s \in {"status", "first", "pick", "check"},
               tap[c] # NoTap, tap[c].step \in {"status", "first", "pick", "check"},
               TapGoto(c, s) \/ TapEnds(c), UNCHANGED <<calls, request>>
        PROVE  tap' \in [Call -> Tap \cup {NoTap}] /\ Slots'
    <2>1. calls[c].pc = "idle"
      BY <1>0, <1>9 DEF Slots, SlotOK
    <2> DEFINE t == [tap[c] EXCEPT !.step = s]
    <2>2. t \in Tap /\ t.step = s
      BY <1>0, <1>9, TapTypes, TapFields DEF TapSteps
    <2>3. tap' = [tap EXCEPT ![c] = t] \/ tap' = [tap EXCEPT ![c] = NoTap]
      BY <1>9 DEF TapGoto, TapEnds
    <2> HIDE DEF t
    <2>4. SlotOK(t, calls'[c], request') /\ SlotOK(NoTap, calls'[c], request')
      BY <1>9, <2>1, <2>2 DEF SlotOK, Sends
    <2> QED
      BY <1>2, <1>9, <2>2, <2>3, <2>4
  \* A handler starts its send.
  <1>10. ASSUME NEW c \in Call, NEW s \in {"text", "image"}, tap[c] # NoTap,
                TapGoto(c, s), StartSend(c, tap[c].user, "pending"), UNCHANGED request
         PROVE  tap' \in [Call -> Tap \cup {NoTap}] /\ Slots'
    <2> DEFINE t == [tap[c] EXCEPT !.step = s]
    <2>1. t \in Tap /\ t.step = s /\ t.user = tap[c].user
      <3>1. tap[c] \in Tap /\ s \in TapSteps
        BY <1>0, <1>10, TapTypes DEF TapSteps
      <3> QED
        BY <3>1, TapFields
    <2>2. /\ calls'[c].pc = "sendRead" /\ calls'[c].user = tap[c].user
          /\ \A b \in Call \ {c} : calls'[b] = calls[b]
      BY <1>0, <1>10, Starts
    <2>3. tap' = [tap EXCEPT ![c] = t]
      BY <1>10 DEF TapGoto
    <2> HIDE DEF t
    <2>4. SlotOK(t, calls'[c], request')
      BY <2>1, <2>2, SentinelsOk DEF SlotOK, Sends
    <2> QED
      BY <1>2, <1>10, <2>1, <2>2, <2>3, <2>4
  <1>11. ASSUME NEW c \in Call, TapStep(c)
         PROVE  tap' \in [Call -> Tap \cup {NoTap}] /\ Slots'
    <2>0. UNCHANGED request /\ tap[c] # NoTap
          /\ tap[c].step \in {"status", "first", "pick", "check"}
      BY <1>11 DEF TapStep, GateStatus, GateFirst, GateFails, SendImage,
         CancelImage, CheckStatus, CheckRead, CheckApply, TapOf
    <2>1. ASSUME Pass(c) PROVE tap' \in [Call -> Tap \cup {NoTap}] /\ Slots'
      BY <1>9, <1>10, <2>0, <2>1 DEF Pass, Check
    <2>2. CASE SendImage(c)
      BY <1>10, <2>0, <2>2 DEF SendImage
    <2>3. CASE GateFails(c) \/ CancelImage(c)
      BY <1>9, <2>0, <2>3 DEF GateFails, CancelImage
    <2>4. CASE GateStatus(c) \/ GateFirst(c)
      BY <1>9, <2>0, <2>1, <2>4 DEF GateStatus, GateFirst
    <2>5. CASE CheckStatus(c)
      <3>1. UNCHANGED calls /\ calls[c].pc = "idle"
        BY <1>0, <2>0, <2>5 DEF CheckStatus, CheckRead, CheckApply, TapOf, Slots, SlotOK
      <3>2. CASE TapEnds(c)
        BY <1>9, <2>0, <3>1, <3>2
      <3>3. CASE ~TapEnds(c)
        <4>1. PICK ok \in BOOLEAN : CheckRead(c, ok)
          BY <2>5, <3>3 DEF CheckStatus, CheckApply
        <4>2. RoomStatus \in Answer /\ "none" \in Answer
          BY <1>0 DEF PagesTypeOK, TypeOK, RoomStatus, Room, Answer
        <4>3. PICK a \in Answer : tap' = [tap EXCEPT ![c].read = a]
          BY <4>1, <4>2 DEF CheckRead
        <4> DEFINE t == [tap[c] EXCEPT !.read = a]
        <4>4. t \in Tap /\ t.step = tap[c].step /\ t.step = "check"
          BY <1>0, <2>0, <4>1, TapTypes, TapFields DEF CheckRead, TapOf
        <4>5. tap' = [tap EXCEPT ![c] = t]
          BY <4>3
        <4> HIDE DEF t
        <4>6. SlotOK(t, calls'[c], request')
          BY <3>1, <4>4 DEF SlotOK, Sends
        <4> QED
          BY <1>2, <2>0, <3>1, <4>4, <4>5, <4>6
      <3> QED
        BY <3>2, <3>3
    <2> QED
      BY <1>11, <2>2, <2>3, <2>4, <2>5 DEF TapStep
  <1>12. ASSUME NEW c \in Call, ServerStep(c)
         PROVE  tap' \in [Call -> Tap \cup {NoTap}] /\ Slots'
    <2> DEFINE Ended == [tap[c] EXCEPT !.step = "check"]
    <2>a. tap[c] # NoTap => Ended \in Tap /\ Ended.step = "check"
      BY <1>0, TapTypes, TapFields DEF TapSteps
    <2>b. tap' = TapAfter(c)
      BY <1>12 DEF ServerStep
    <2>1. /\ \A d \in Call : d # c \/ calls'[c].pc # "idle" =>
               tap'[d] = IF TapOf(d, "answer") /\ request'[tap[d].user] = Closed
                           THEN NoTap ELSE tap[d]
          /\ calls'[c].pc = "idle" =>
               tap'[c] = NoTap \/ (tap[c] # NoTap /\ tap'[c] = Ended)
      BY <2>b DEF TapAfter, TapOf
    <2> HIDE DEF Ended
    <2>c. tap' \in [Call -> Tap \cup {NoTap}]
      <3>1. \A d \in Call : tap'[d] \in Tap \cup {NoTap}
        BY <1>0, <2>a, <2>1
      <3>2. tap' = [d \in Call |-> tap'[d]]
        BY <2>b DEF TapAfter
      <3> QED
        BY <3>1, <3>2
    <2>2. /\ \A d \in Call \ {c} : calls'[d] = calls[d]
          /\ Moved(c) \/ calls'[c] = Idle
      <3>1. CASE Step(c)
        BY <1>0, <3>1, Steps
      <3>2. CASE Abort(c)
        BY <1>0, <3>2 DEF Abort
      <3> QED
        BY <1>12, <3>1, <3>2 DEF ServerStep
    <2>3. ASSUME NEW d \in Call, d # c
          PROVE  SlotOK(tap'[d], calls'[d], request')
      <3>1. CASE TapOf(d, "answer") /\ request'[tap[d].user] = Closed
        <4>0. tap'[d] = NoTap
          BY <2>1, <2>3, <3>1
        <4>1. tap'[d] = NoTap /\ calls[d].pc \in {"accept", "decline"}
          BY <1>0, <3>1, <4>0 DEF Slots, SlotOK, TapOf
        <4> QED
          BY <2>2, <2>3, <4>1, SlotEnds DEF Sends
      <3>2. CASE ~(TapOf(d, "answer") /\ request'[tap[d].user] = Closed)
        BY <2>1, <2>2, <2>3, <3>2, SlotStays
      <3> QED
        BY <3>1, <3>2
    <2>4. SlotOK(tap'[c], calls'[c], request')
      <3>1. CASE calls'[c] = Idle
        <4>0. calls'[c].pc = "idle"
          BY <3>1 DEF Idle
        <4>1. tap'[c] = NoTap \/ tap'[c].step = "check"
          BY <2>a, <2>1, <4>0
        <4> QED
          BY <4>0, <4>1 DEF SlotOK, Sends
      <3>2. CASE Moved(c)
        <4>1. /\ calls'[c].user = calls[c].user
              /\ \/ calls[c].pc \in Sends /\ calls'[c].pc \in Sends
                 \/ /\ calls[c].pc \in {"resetRead", "markRead"}
                    /\ calls'[c].pc \in {"resetWrite", "markWrite"}
          BY <3>2 DEF Moved, Sends
        <4>2. CASE calls[c].pc \in Sends
          <5>1. tap[c] # NoTap /\ tap[c].step \in {"text", "image"}
                /\ calls[c].user = tap[c].user
            BY <1>0, <4>2 DEF Slots, SlotOK
          <5>2. calls'[c].pc \in Sends /\ calls'[c].pc # "idle"
            BY <4>1, <4>2 DEF Sends
          <5>3. tap'[c] = tap[c]
            BY <2>1, <5>1, <5>2 DEF TapOf, Sends
          <5> QED
            BY <4>1, <5>1, <5>2, <5>3 DEF SlotOK
        <4>3. CASE calls[c].pc \notin Sends
          <5>1. calls[c].pc \in {"resetRead", "markRead"}
                /\ calls'[c].pc \in {"resetWrite", "markWrite"}
            BY <4>1, <4>3
          <5>2. tap[c] = NoTap \/ tap[c].step \notin
                  {"status", "first", "pick", "check", "text", "image", "answer"}
            BY <1>0, <4>3, <5>1 DEF Slots, SlotOK, Sends
          <5>3. tap[c] = NoTap
            BY <1>0, <5>2, TapTypes, TapFields DEF TapSteps
          <5>4. tap'[c] = NoTap
            BY <2>1, <5>1, <5>3
          <5> QED
            BY <5>1, <5>4, SlotEnds DEF Sends
        <4> QED
          BY <4>2, <4>3
      <3> QED
        BY <2>2, <3>1, <3>2
    <2> QED
      BY <2>c, <2>3, <2>4 DEF Slots
  <1>13. CASE UNCHANGED allVars
    BY <1>0, <1>1, <1>13 DEF allVars, pageVars
  <1> QED
    BY <1>3, <1>4, <1>5, <1>6, <1>7, <1>8, <1>11, <1>12, <1>13
    DEF PagesNext, UserStep, AppStep

-----------------------------------------------------------------------------
(* The invariant of the screens                                             *)

\* A call that answers is one of before, or has just been started by a tap on a
\* page that offers its buttons.
LEMMA AnswerSteps ==
  ASSUME PagesInv, [PagesNext]_allVars, NEW c \in Call,
         calls'[c].pc \in {"accept", "decline"}
  PROVE  \/ calls'[c] = calls[c]
         \/ calls'[c].user \in User /\ SentTo(calls'[c].user)
  <1>0. Inv /\ PagesTypeOK /\ RequestBacked /\ calls \in [Call -> CallState]
    BY TapTypes DEF PagesInv
  <1>1. ASSUME NEW u \in User, UserStep(u)
        PROVE  \/ calls'[c] = calls[c]
               \/ calls'[c].user \in User /\ SentTo(calls'[c].user)
    <2>1. ASSUME NEW d \in Call, NEW answer \in {"accept", "decline"},
                 TapAnswer(u, d, answer)
          PROVE  \/ calls'[c] = calls[c]
                 \/ calls'[c].user \in User /\ SentTo(calls'[c].user)
      <3>1. /\ calls'[d].user = u /\ \A b \in Call \ {d} : calls'[b] = calls[b]
        BY <1>0, <2>1, Starts DEF TapAnswer
      <3>2. SentTo(u)
        BY <1>0, <2>1 DEF TapAnswer, RequestBacked
      <3> QED
        BY <3>1, <3>2
    <2>2. CASE ~ \E d \in Call, answer \in {"accept", "decline"} : TapAnswer(u, d, answer)
      BY <1>1, <2>2 DEF UserStep, OpenPage, ClosePage, OpenRequest, CloseRequest,
         TapSend, TapImage, TapInput
    <2> QED
      BY <2>1, <2>2
  <1>2. ASSUME NEW u \in User, AppStep(u) PROVE UNCHANGED calls
    BY <1>2 DEF AppStep, Load, LoadReceiver
  <1>3. ASSUME NEW u \in User, KillApp(u) PROVE calls'[c] = calls[c]
    BY <1>3 DEF KillApp, Kill, Idle
  <1>4. ASSUME NEW d \in Call, TapStep(d) PROVE calls'[c] = calls[c]
    <2>1. CASE UNCHANGED calls
      BY <2>1
    <2>2. CASE ~UNCHANGED calls
      <3>1. StartSend(d, tap[d].user, "pending")
        BY <1>4, <2>2 DEF TapStep, GateStatus, GateFirst, GateFails, SendImage,
           CancelImage, CheckStatus, Pass
      <3>2. calls'[d].pc = "sendRead" /\ \A b \in Call \ {d} : calls'[b] = calls[b]
        BY <1>0, <3>1, Starts
      <3> QED
        BY <3>2
    <2> QED
      BY <2>1, <2>2
  <1>5. ASSUME NEW d \in Call, ServerStep(d) PROVE calls'[c] = calls[c]
    <2>1. CASE Step(d)
      <3>1. /\ \A b \in Call \ {d} : calls'[b] = calls[b]
            /\ Moved(d) \/ calls'[d] = Idle
        BY <1>0, <2>1, Steps
      <3> QED
        BY <3>1 DEF Moved, Idle
    <2>2. CASE Abort(d)
      BY <1>0, <2>2 DEF Abort, Idle
    <2> QED
      BY <1>5, <2>1, <2>2 DEF ServerStep
  <1>6. CASE UNCHANGED allVars
    BY <1>6 DEF allVars
  <1> QED
    BY <1>1, <1>2, <1>3, <1>4, <1>5, <1>6 DEF PagesNext

LEMMA NextPagesInv == PagesInv /\ [PagesNext]_allVars => PagesInv'
  <1> SUFFICES ASSUME PagesInv, [PagesNext]_allVars PROVE PagesInv'
    OBVIOUS
  <1>1. /\ Inv' /\ Marked'
        /\ \A u \in User : SentTo(u) => SentTo(u)'
    BY RoomSide
  <1>2. pushed' \subseteq Notified
    <2>0. pushed \subseteq Notified
      BY DEF PagesInv, PagesTypeOK
    <2>1. ASSUME NEW c \in Call, ServerStep(c) PROVE pushed' \subseteq Notified
      BY <2>0, <2>1 DEF ServerStep, PushedAfter
    <2>2. CASE ~ \E c \in Call : ServerStep(c)
      <3>1. UNCHANGED pushed
        BY <2>2 DEF PagesNext, UserStep, OpenPage, ClosePage, OpenRequest,
           CloseRequest, TapSend, TapImage, TapInput, TapAnswer, AppStep, Load, LoadReceiver, KillApp, TapStep, GateStatus,
           GateFirst, GateFails, SendImage, CancelImage, CheckStatus, allVars, pageVars
      <3> QED
        BY <2>0, <3>1
    <2> QED
      BY <2>1, <2>2
  <1>3. opened' \in BOOLEAN
    <2>0. opened \in BOOLEAN
      BY DEF PagesInv, PagesTypeOK
    <2>1. ASSUME NEW c \in Call, ServerStep(c) PROVE opened' \in BOOLEAN
      BY <2>0, <2>1 DEF ServerStep
    <2>2. CASE ~ \E c \in Call : ServerStep(c)
      <3>1. UNCHANGED opened
        BY <2>2 DEF PagesNext, UserStep, OpenPage, ClosePage, OpenRequest,
           CloseRequest, TapSend, TapImage, TapInput, TapAnswer, AppStep, Load, LoadReceiver, KillApp, TapStep, GateStatus,
           GateFirst, GateFails, SendImage, CancelImage, CheckStatus, allVars, pageVars
      <3> QED
        BY <2>0, <3>1
    <2> QED
      BY <2>1, <2>2
  <1>4. PagesTypeOK'
    <2>1. TypeOK'
      BY <1>1 DEF Inv
    <2>2. /\ page' \in [User -> Page \cup {Closed}]
          /\ request' \in [User -> Request \cup {Closed}]
          /\ tap' \in [Call -> Tap \cup {NoTap}]
      BY PageTyped, RequestsTyped, SlotsKept
    <2> QED
      BY <1>2, <1>3, <2>1, <2>2 DEF PagesTypeOK
  <1>5. AnswersBacked'
    <2> SUFFICES ASSUME NEW c \in Call, calls'[c].pc \in {"accept", "decline"}
                 PROVE  SentTo(calls[c].user)'
      BY DEF AnswersBacked
    <2>1. calls[c].user \in User
      BY TapTypes DEF PagesInv
    <2>2. calls'[c].user \in User /\ SentTo(calls'[c].user)
      BY <2>1, AnswerSteps DEF PagesInv, AnswersBacked
    <2>3. \A u \in User : SentTo(u) => SentTo(u)'
      BY <1>1
    <2> QED
      BY <2>2, <2>3 DEF SentTo
  <1>6. Created' /\ RequestBacked' /\ Slots'
    BY RoomSide, RequestsTyped, SlotsKept
  <1> QED
    BY <1>1, <1>4, <1>5, <1>6 DEF PagesInv

LEMMA InitPagesInv == PagesInit => PagesInv
  <1> SUFFICES ASSUME PagesInit PROVE PagesInv
    OBVIOUS
  <1>1. Init /\ Inv /\ Marked
    BY InitInv, InitMarked DEF PagesInit
  <1>2. PagesTypeOK
    BY <1>1 DEF PagesInit, PagesTypeOK, Inv
  <1>3. \A c \in Call : calls[c].pc = "idle" /\ tap[c] = NoTap
    BY <1>1 DEF Init, Idle, PagesInit
  <1>4. Slots /\ AnswersBacked
    BY <1>3 DEF Slots, SlotOK, Sends, AnswersBacked
  <1>5. RequestBacked /\ Created
    BY <1>1 DEF PagesInit, Init, RequestBacked, Created
  <1> QED
    BY <1>1, <1>2, <1>4, <1>5 DEF PagesInv

LEMMA PagesInvariant == PagesSpec => []PagesInv
  BY InitPagesInv, NextPagesInv, PTL DEF PagesSpec

\* The screens hold what their fields can, whoever opens them and whatever fails.
THEOREM PagesTypeCorrect == PagesSpec => []PagesTypeOK
  <1>1. PagesInv => PagesTypeOK
    BY DEF PagesInv
  <1> QED
    BY <1>1, PagesInvariant, PTL

\* Nobody accepts or declines a request he was not sent, although the page that
\* offers him the buttons read the room once: as long as set() has not replaced the
\* room, the call that answers is one of its receiver, whatever else is on its way.
THEOREM AnswersOfReceivers == PagesSpec => []AnsweredByReceiver
  <1>1. PagesInv => AnsweredByReceiver
    BY DEF PagesInv, AnswersBacked, AnsweredByReceiver, SentTo
  <1> QED
    BY <1>1, PagesInvariant, PTL

-----------------------------------------------------------------------------
(* What users have on the way                                               *)

\* A handler of a send, from the tap on.
Writing(c) == tap[c] # NoTap /\ tap[c].step \notin {"answer", "check"}

\* What a step that is none of the server does to a call: it may be killed, and
\* an answer or, behind the gate, a send begins.
Quiet(c) ==
  \/ calls'[c] = calls[c]
  \/ calls'[c] = Idle /\ faults' = faults + 1
  \/ calls[c].pc = "idle" /\ calls'[c].pc \in {"accept", "decline"}
  \/ /\ calls[c].pc = "idle" /\ Writing(c)
     /\ calls'[c].pc = "sendRead" /\ calls'[c].first = "pending"
     /\ calls'[c].user = tap[c].user
     /\ tap[c].step = "pick" \/ RoomStatus = "accepted" \/ messages = << >>

\* Without a step of the server the room, the messages and the pushes stay.
LEMMA QuietSteps ==
  ASSUME PagesInv, [PagesNext]_allVars, ~ \E c \in Call : ServerStep(c)
  PROVE  /\ UNCHANGED <<room, messages, creates, pushed, opened>>
         /\ \A c \in Call : Quiet(c)
  <1>0. Inv /\ PagesTypeOK /\ calls \in [Call -> CallState]
        /\ tap \in [Call -> Tap \cup {NoTap}]
    BY TapTypes DEF PagesInv
  <1> DEFINE Stays == UNCHANGED <<room, messages, creates, pushed, opened>>
  <1>1. ASSUME UNCHANGED calls PROVE \A c \in Call : Quiet(c)
    BY <1>1 DEF Quiet
  <1>2. ASSUME NEW u \in User, UserStep(u)
        PROVE  Stays /\ \A c \in Call : Quiet(c)
    <2>1. ASSUME NEW d \in Call, NEW answer \in {"accept", "decline"},
                 TapAnswer(u, d, answer)
          PROVE  Stays /\ \A c \in Call : Quiet(c)
      <3>1. /\ calls[d].pc = "idle" /\ calls'[d].pc = answer
            /\ \A b \in Call \ {d} : calls'[b] = calls[b]
            /\ UNCHANGED <<room, messages, creates>>
        BY <1>0, <2>1, Starts DEF TapAnswer
      <3> QED
        BY <2>1, <3>1 DEF TapAnswer, Quiet
    <2>2. CASE ~ \E d \in Call, answer \in {"accept", "decline"} : TapAnswer(u, d, answer)
      <3>1. Stays /\ UNCHANGED calls
        BY <1>2, <2>2 DEF UserStep, OpenPage, ClosePage, OpenRequest, CloseRequest,
           TapSend, TapImage, TapInput
      <3> QED
        BY <1>1, <3>1
    <2> QED
      BY <2>1, <2>2
  <1>3. ASSUME NEW u \in User, AppStep(u) PROVE Stays /\ \A c \in Call : Quiet(c)
    <2>1. Stays /\ UNCHANGED calls
      BY <1>3 DEF AppStep, Load, LoadReceiver
    <2> QED
      BY <1>1, <2>1
  <1>4. ASSUME NEW u \in User, KillApp(u) PROVE Stays /\ \A c \in Call : Quiet(c)
    BY <1>4 DEF KillApp, Kill, Quiet
  <1>5. ASSUME NEW d \in Call, TapStep(d), ~UNCHANGED calls
        PROVE  Stays /\ \A c \in Call : Quiet(c)
    <2>1. /\ tap[d] # NoTap /\ tap[d].step \notin {"answer", "check"}
          /\ StartSend(d, tap[d].user, "pending")
          /\ tap[d].step = "pick" \/ RoomStatus = "accepted" \/ messages = << >>
          /\ UNCHANGED <<pushed, opened>>
      BY <1>5 DEF TapStep, GateStatus, GateFirst, GateFails, SendImage, CancelImage, CheckStatus,
         Pass, TapOf
    <2>2. /\ calls[d].pc = "idle"
          /\ calls'[d].pc = "sendRead" /\ calls'[d].first = "pending"
          /\ calls'[d].user = tap[d].user
          /\ \A b \in Call \ {d} : calls'[b] = calls[b]
          /\ UNCHANGED <<room, messages, creates>>
      BY <1>0, <2>1, Starts
    <2> QED
      BY <2>1, <2>2 DEF Quiet, Writing
  <1>6. ASSUME NEW d \in Call, TapStep(d), UNCHANGED calls
        PROVE  Stays /\ \A c \in Call : Quiet(c)
    <2>1. Stays
      BY <1>6 DEF TapStep, GateStatus, GateFirst, GateFails, SendImage, CancelImage, CheckStatus,
         Pass, StartSend
    <2> QED
      BY <1>1, <1>6, <2>1
  <1>7. CASE UNCHANGED allVars
    BY <1>1, <1>7 DEF allVars, pageVars
  <1> QED
    BY <1>2, <1>3, <1>4, <1>5, <1>6, <1>7 DEF PagesNext

\* Every handler that runs after the step ran before it, for the same user.
GoOn ==
  \A c \in Call : Writing(c)' =>
    /\ Writing(c) /\ tap'[c].user = tap[c].user
    /\ tap'[c].step \in {"first", "text", tap[c].step} \/ tap[c].step = "pick"

\* A handler of u begins on an open page.
Taps(u, c) ==
  /\ page[u] # Closed /\ (OneAtATime => ~Busy(u)) /\ UNCHANGED room
  /\ tap'[c] # NoTap /\ tap'[c].user = u
  /\ tap'[c].step = "status" \/ (tap'[c].step = "pick" /\ "image" \in SendWays)
  /\ \A b \in Call \ {c} : tap'[b] = tap[b]

LEMMA WritingSteps ==
  ASSUME PagesInv, [PagesNext]_allVars
  PROVE  GoOn \/ \E u \in User, c \in Call : Taps(u, c)
  <1>0. PagesTypeOK /\ tap \in [Call -> Tap \cup {NoTap}]
    BY TapTypes DEF PagesInv
  <1> USE DEF GoOn
  <1>1. ASSUME \A c \in Call :
                 \/ tap'[c] \in {tap[c], NoTap}
                 \/ tap'[c].step = "check"
                 \/ /\ tap[c] # NoTap /\ tap'[c].step = tap[c].step
                    /\ tap'[c].user = tap[c].user
        PROVE  GoOn
    BY <1>1 DEF Writing
  <1>2. ASSUME NEW c \in Call, Writing(c),
               NEW s \in {"first", "text", "image", "check"}, TapGoto(c, s) \/ TapEnds(c),
               s = "image" => tap[c].step = "pick"
        PROVE  GoOn
    <2> DEFINE t == [tap[c] EXCEPT !.step = s]
    <2>1. t.step = s /\ t.user = tap[c].user
      BY <1>0, <1>2, TapTypes, TapFields DEF TapSteps, Writing
    <2>2. tap' = [tap EXCEPT ![c] = t] \/ tap' = [tap EXCEPT ![c] = NoTap]
      BY <1>2 DEF TapGoto, TapEnds
    <2> HIDE DEF t
    <2>3. \A d \in Call : d # c => tap'[d] = tap[d]
      BY <1>0, <2>2
    <2>4. tap'[c] = t \/ tap'[c] = NoTap
      BY <1>0, <2>2
    <2> QED
      BY <1>2, <2>1, <2>3, <2>4 DEF Writing
  <1>3. ASSUME NEW u \in User, NEW c \in Call, TapSend(u, c) \/ TapImage(u, c)
        PROVE  Taps(u, c)
    <2> DEFINE t(s) == NewTap(u, s)
    <2>1. \A s \in {"status", "pick"} :
            t(s) # NoTap /\ t(s).step = s /\ t(s).user = u
      BY NewTaps DEF TapSteps
    <2>2. PICK s \in {"status", "pick"} :
            /\ tap' = [tap EXCEPT ![c] = t(s)] /\ page[u] # Closed
            /\ (OneAtATime => ~Busy(u)) /\ UNCHANGED room
            /\ s = "pick" => "image" \in SendWays
      BY <1>3 DEF TapSend, TapImage, TapInput, InputShown
    <2> HIDE DEF t
    <2> QED
      BY <1>0, <2>1, <2>2 DEF Taps
  <1>4. ASSUME NEW u \in User, ClosePage(u) \/ CloseRequest(u) \/ KillApp(u)
        PROVE  GoOn
    <2>1. \A c \in Call : \/ tap'[c] \in {tap[c], NoTap}
                          \/ tap[c] # NoTap /\ tap'[c] = [tap[c] EXCEPT !.gone = TRUE]
      BY <1>4 DEF ClosePage, CloseRequest, KillApp
    <2> QED
      BY <1>0, <1>1, <2>1, TapTypes, TapFields
  <1>5. ASSUME NEW u \in User, OpenPage(u) \/ OpenRequest(u) \/ AppStep(u)
        PROVE  GoOn
    <2>1. UNCHANGED tap
      BY <1>5 DEF OpenPage, OpenRequest, AppStep, Load,
         LoadReceiver
    <2> QED
      BY <1>1, <2>1
  <1>6. ASSUME NEW u \in User, NEW c \in Call, NEW answer \in {"accept", "decline"},
               TapAnswer(u, c, answer)
        PROVE  GoOn
    <2> DEFINE t == NewTap(u, "answer")
    <2>1. t.step = "answer"
      BY NewTaps DEF TapSteps
    <2>2. tap' = [tap EXCEPT ![c] = t]
      BY <1>6 DEF TapAnswer
    <2> HIDE DEF t
    <2> QED
      BY <1>0, <2>1, <2>2 DEF Writing
  <1>7. ASSUME NEW c \in Call, TapStep(c) PROVE GoOn
    <2>1. CASE CheckStatus(c)
      <3>1. /\ tap[c] # NoTap /\ tap[c].step = "check"
            /\ \A d \in Call : d # c => tap'[d] = tap[d]
            /\ \/ tap'[c] = NoTap
               \/ \E a \in Answer : tap'[c] = [tap[c] EXCEPT !.read = a]
        <4>1. RoomStatus \in Answer /\ "none" \in Answer
          BY <1>0 DEF PagesTypeOK, TypeOK, RoomStatus, Room, Answer
        <4>2. \/ tap' = [tap EXCEPT ![c] = NoTap]
              \/ \E a \in Answer : tap' = [tap EXCEPT ![c] = [tap[c] EXCEPT !.read = a]]
          BY <2>1, <4>1 DEF CheckStatus, CheckRead, CheckApply, TapEnds
        <4> QED
          BY <1>0, <2>1, <4>2 DEF CheckStatus, CheckRead, CheckApply, TapOf
      <3>2. \A a \in Answer : [tap[c] EXCEPT !.read = a].step = "check"
        BY <1>0, <3>1, TapTypes, TapFields
      <3> QED
        BY <1>1, <3>1, <3>2 DEF GoOn
    <2>2. CASE ~CheckStatus(c)
      <3>1. /\ Writing(c)
            /\ \E s \in {"first", "text", "image", "check"} :
                 /\ TapGoto(c, s) \/ TapEnds(c)
                 /\ s = "image" => tap[c].step = "pick"
        BY <1>7, <2>2 DEF TapStep, GateStatus, GateFirst, GateFails, SendImage,
           CancelImage, Pass, Check, TapOf, Writing
      <3> QED
        BY <1>2, <3>1
    <2> QED
      BY <2>1, <2>2
  <1>8. ASSUME NEW c \in Call, ServerStep(c) PROVE GoOn
    <2>1. \A d \in Call : \/ tap'[d] \in {tap[d], NoTap}
                          \/ tap[d] # NoTap /\ tap'[d] = [tap[d] EXCEPT !.step = "check"]
      BY <1>8 DEF ServerStep, TapAfter, TapOf
    <2>2. \A d \in Call : tap'[d] \in {tap[d], NoTap} \/ tap'[d].step = "check"
      <3>1. \A d \in Call : tap[d] # NoTap =>
              [tap[d] EXCEPT !.step = "check"].step = "check"
        BY <1>0, TapTypes, TapFields DEF TapSteps
      <3> QED
        BY <2>1, <3>1
    <2> QED
      BY <1>1, <2>2
  <1>9. ASSUME UNCHANGED allVars PROVE GoOn
    <2>1. UNCHANGED tap
      BY <1>9 DEF allVars, pageVars
    <2> QED
      BY <1>1, <2>1
  <1> HIDE DEF GoOn
  <1>10. ASSUME NEW u \in User, UserStep(u)
         PROVE  GoOn \/ \E c \in Call : Taps(u, c)
    BY <1>3, <1>4, <1>5, <1>6, <1>10 DEF UserStep
  <1>11. ASSUME NEW u \in User, AppStep(u) \/ KillApp(u) PROVE GoOn
    BY <1>4, <1>5, <1>11
  <1>12. ASSUME NEW c \in Call, TapStep(c) \/ ServerStep(c) PROVE GoOn
    BY <1>7, <1>8, <1>12
  <1> QED
    BY <1>9, <1>10, <1>11, <1>12 DEF PagesNext

\* Users who wait for a send to return have one handler each.
OneAtOnce ==
  \A c, d \in Call : Writing(c) /\ Writing(d) /\ tap[c].user = tap[d].user => c = d

LEMMA OnceStays ==
  ASSUME PagesInv, [PagesNext]_allVars, OneAtATime, OneAtOnce
  PROVE  OneAtOnce'
  <1>1. CASE GoOn
    BY <1>1 DEF GoOn, OneAtOnce
  <1>2. CASE \E u \in User, c \in Call : Taps(u, c)
    <2>1. PICK u \in User, c \in Call :
            /\ ~Busy(u) /\ tap'[c].user = u
            /\ \A b \in Call \ {c} : tap'[b] = tap[b]
      BY <1>2 DEF Taps
    <2>2. \A b \in Call \ {c} : Writing(b)' => Writing(b) /\ tap'[b].user # u
      BY <2>1 DEF Busy, Writing
    <2> QED
      BY <2>1, <2>2 DEF OneAtOnce
  <1> QED
    BY <1>1, <1>2, WritingSteps

\* No image is ever on its way if no user sends one.
TextsOnly == \A c \in Call : Writing(c) => tap[c].step \in {"status", "first", "text"}

LEMMA TextsStay ==
  ASSUME PagesInv, [PagesNext]_allVars, SendWays = {"text"}, TextsOnly
  PROVE  TextsOnly'
  <1>1. CASE GoOn
    BY <1>1 DEF GoOn, TextsOnly
  <1>2. CASE \E u \in User, c \in Call : Taps(u, c)
    BY <1>2 DEF Taps, TextsOnly, Writing
  <1> QED
    BY <1>1, <1>2, WritingSteps

\* A page that is open after the step was open before it, or has been offered.
LEMMA PageSteps ==
  ASSUME PagesInv, [PagesNext]_allVars, NEW v \in User, page'[v] # Closed
  PROVE  page[v] # Closed \/ (Offered(v) /\ UNCHANGED room)
  <1>0. page \in [User -> Page \cup {Closed}] /\ \A c \in Call : calls[c].user \in User
    BY TapTypes DEF PagesInv, PagesTypeOK
  <1>1. ASSUME NEW u \in User, UserStep(u)
        PROVE  page[v] # Closed \/ (Offered(v) /\ UNCHANGED room)
    BY <1>0, <1>1 DEF UserStep, OpenPage, ClosePage, OpenRequest, CloseRequest,
       TapSend, TapImage, TapInput, TapAnswer
  <1>2. ASSUME NEW u \in User, AppStep(u) PROVE page[v] # Closed
    BY <1>0, <1>2 DEF AppStep, Load, LoadReceiver, ReadFirst, ReadOpening, ApplyFirst,
       ApplyOpening
  <1>3. ASSUME NEW u \in User, KillApp(u) PROVE page[v] # Closed
    BY <1>0, <1>3 DEF KillApp
  <1>4. ASSUME NEW c \in Call, TapStep(c) PROVE page[v] # Closed
    BY <1>0, <1>4 DEF TapStep, GateStatus, GateFirst, GateFails, SendImage, CancelImage,
       CheckStatus, CheckRead, CheckApply, Pass, Shown
  <1>5. ASSUME NEW c \in Call, ServerStep(c) PROVE page[v] # Closed
    BY <1>5 DEF ServerStep
  <1>6. CASE UNCHANGED allVars
    BY <1>6 DEF allVars, pageVars
  <1> QED
    BY <1>1, <1>2, <1>3, <1>4, <1>5, <1>6 DEF PagesNext

-----------------------------------------------------------------------------
(* One user who asks                                                        *)

\* One user opens the chat before he is written to.  A notification may open it
\* to the peer, unless sends fail: the peer is notified of a message that was
\* not stored, too.
OneAsker(a) ==
  /\ a \in User /\ FromPost \subseteq {a}
  /\ Notified = {} \/ MaxFaults = 0

\* Before the room is there only a can write.
AskerAlone(a) ==
  room = NoRoom =>
    /\ pushed = {}
    /\ \A u \in User : page[u] # Closed => u = a
    /\ \A c \in Call : Writing(c) => tap[c].user = a

\* A user is notified of the chat once the room is there.
LEMMA PushSteps ==
  ASSUME PagesInv, [PagesNext]_allVars, NEW a, OneAsker(a), AskerAlone(a),
         room = NoRoom, room' = NoRoom
  PROVE  pushed' = {}
  <1>0. /\ Inv /\ PagesTypeOK /\ pushed = {} /\ faults \in Nat
        /\ Notified = {} \/ MaxFaults = 0
    BY DEF PagesInv, PagesTypeOK, TypeOK, Inv, AskerAlone, OneAsker
  <1>1. CASE ~ \E c \in Call : ServerStep(c)
    BY <1>0, <1>1, QuietSteps
  <1>2. ASSUME NEW c \in Call, ServerStep(c) PROVE pushed' = {}
    <2>1. CASE Notified = {}
      BY <1>0, <1>2, <2>1 DEF ServerStep, PushedAfter
    <2>2. CASE MaxFaults = 0
      <3>1. Step(c)
        BY <1>0, <1>2, <2>2 DEF ServerStep, Abort
      <3>2. CASE (TapOf(c, "text") \/ TapOf(c, "image")) /\ calls'[c].pc = "idle"
        <4>1. calls[c].pc \in Sends
          BY <3>2 DEF TapOf, PagesInv, Slots, SlotOK
        <4>2. calls[c].pc \in {"sendCreate", "sendLast"}
          BY <1>0, <3>1, <3>2, <4>1, Steps DEF Sends, Moved
        <4>3. CASE At(c, "sendCreate")
          <5>1. SendCreate(c)
            BY <3>1, <4>3 DEF Step, SendRead, SendAdd, SendCount, SendLast, ResetRead,
               ResetWrite, MarkRead, MarkWrite, Accept, Decline
          <5> QED
            BY <1>0, <3>1, <5>1, StepRoom
        <4>4. CASE At(c, "sendLast")
          BY <1>0, <4>4 DEF Inv, CallsBacked
        <4> QED
          BY <4>2, <4>3, <4>4
      <3>3. CASE ~((TapOf(c, "text") \/ TapOf(c, "image")) /\ calls'[c].pc = "idle")
        BY <1>0, <1>2, <3>3 DEF ServerStep, PushedAfter
      <3> QED
        BY <3>2, <3>3
    <2> QED
      BY <1>0, <2>1, <2>2
  <1> QED
    BY <1>1, <1>2
LEMMA AskerStays ==
  ASSUME PagesInv, [PagesNext]_allVars, NEW a, OneAsker(a), AskerAlone(a)
  PROVE  AskerAlone(a)'
  <1> SUFFICES ASSUME room' = NoRoom
               PROVE  /\ pushed' = {}
                      /\ \A u \in User : page'[u] # Closed => u = a
                      /\ \A c \in Call : Writing(c)' => tap'[c].user = a
    BY DEF AskerAlone
  <1>1. room = NoRoom
    BY RoomSide
  <1>2. /\ pushed = {} /\ \A u \in User : page[u] # Closed => u = a
        /\ \A c \in Call : Writing(c) => tap[c].user = a
    BY <1>1 DEF AskerAlone
  <1>3. \A u \in User : Offered(u) => u = a
    BY <1>1, <1>2 DEF Offered, RoomStatus, OneAsker
  <1>4. \A u \in User : page'[u] # Closed => u = a
    BY <1>2, <1>3, PageSteps
  <1>5. \A c \in Call : Writing(c)' => tap'[c].user = a
    <2>1. CASE GoOn
      BY <1>2, <2>1 DEF GoOn
    <2>2. CASE \E u \in User, c \in Call : Taps(u, c)
      BY <1>2, <2>2 DEF Taps, Writing
    <2> QED
      BY <2>1, <2>2, WritingSteps
  <1> QED
    BY <1>1, <1>4, <1>5, PushSteps

\* If he also waits for his sends, he has one before the room is there, and so
\* every set() on its way finds the document missing, as its call has read.
SetsMissing ==
  \A c \in Call :
    (At(c, "sendAdd") /\ calls[c].snap = NoRoom) \/ At(c, "sendCreate") => room = NoRoom

CreatorInv(a) == AskerAlone(a) /\ OneAtOnce /\ SetsMissing

LEMMA OneSend ==
  ASSUME PagesInv, NEW a, AskerAlone(a), OneAtOnce, room = NoRoom,
         NEW c \in Call, NEW d \in Call, calls[c].pc \in Sends, calls[d].pc \in Sends
  PROVE  c = d
  <1>1. Writing(c) /\ Writing(d)
    BY DEF PagesInv, Slots, SlotOK, Writing
  <1> QED
    BY <1>1 DEF AskerAlone, OneAtOnce

LEMMA SetsStay ==
  ASSUME PagesInv, [PagesNext]_allVars, NEW a, CreatorInv(a)
  PROVE  SetsMissing'
  <1>0. /\ Inv /\ Marked /\ calls \in [Call -> CallState]
        /\ AskerAlone(a) /\ OneAtOnce /\ SetsMissing
    BY TapTypes DEF PagesInv, PagesTypeOK, CreatorInv
  <1>1. ASSUME NEW c \in Call, Step(c) PROVE SetsMissing'
    <2>1. /\ \A d \in Call \ {c} : calls'[d] = calls[d]
          /\ Moved(c) \/ calls'[c].pc = "idle"
      BY <1>0, <1>1, Steps DEF Idle
    <2>2. room = NoRoom /\ ~At(c, "sendCreate") => room' = NoRoom
      BY <1>0, <1>1, StepRoom DEF SendCreate
    <2>3. ASSUME NEW d \in Call, d # c,
                 \/ calls'[d].pc = "sendAdd" /\ calls'[d].snap = NoRoom
                 \/ calls'[d].pc = "sendCreate"
          PROVE  room' = NoRoom
      <3>1. calls[d].pc \in Sends /\ room = NoRoom
        BY <1>0, <2>1, <2>3 DEF SetsMissing, Sends
      <3>2. ~At(c, "sendCreate")
        BY <1>0, <2>3, <3>1, OneSend DEF Sends
      <3> QED
        BY <2>2, <3>1, <3>2
    <2>4. ASSUME \/ calls'[c].pc = "sendAdd" /\ calls'[c].snap = NoRoom
                 \/ calls'[c].pc = "sendCreate"
          PROVE  room' = NoRoom
      <3>1. \/ At(c, "sendRead") /\ calls'[c].snap = Snapshot /\ calls'[c].snap = NoRoom
            \/ At(c, "sendAdd") /\ calls[c].snap = NoRoom
        BY <2>1, <2>4 DEF Moved
      <3>2. room = NoRoom
        BY <1>0, <3>1, SnapshotType DEF SetsMissing, Inv
      <3> QED
        BY <2>2, <3>1, <3>2
    <2> QED
      BY <2>3, <2>4 DEF SetsMissing
  <1>2. ASSUME NEW c \in Call, Abort(c) PROVE SetsMissing'
    <2>1. room' = room /\ \A d \in Call : calls'[d] = calls[d] \/ calls'[d].pc = "idle"
      BY <1>0, <1>2 DEF Abort, Idle
    <2> QED
      BY <1>0, <2>1 DEF SetsMissing
  <1>3. ASSUME ~ \E c \in Call : ServerStep(c) PROVE SetsMissing'
    <2>1. room' = room /\ \A c \in Call : Quiet(c)
      BY <1>3, QuietSteps
    <2> QED
      BY <1>0, <2>1 DEF SetsMissing, Quiet, Idle
  <1> QED
    BY <1>1, <1>2, <1>3 DEF ServerStep

LEMMA CreatorStays ==
  ASSUME PagesInv, PagesInv', [PagesNext]_allVars, NEW a, OneAsker(a), OneAtATime,
         CreatorInv(a)
  PROVE  CreatorInv(a)'
  BY SetsStay, AskerStays, OnceStays DEF CreatorInv

LEMMA InitCreator == \A a : PagesInit => CreatorInv(a)
  <1> SUFFICES ASSUME NEW a, PagesInit PROVE CreatorInv(a)
    OBVIOUS
  <1>1. /\ room = NoRoom /\ pushed = {} /\ \A u \in User : page[u] = Closed
        /\ \A c \in Call : calls[c].pc = "idle" /\ tap[c] = NoTap
    BY DEF PagesInit, Init, Idle
  <1> QED
    BY <1>1 DEF CreatorInv, AskerAlone, OneAtOnce, SetsMissing, Writing

-----------------------------------------------------------------------------
(* The request protocol                                                     *)

\* One user asks, each user waits for a send to return before the next one, and
\* nobody sends an image.
Conversation(a) == OneAsker(a) /\ SendWays = {"text"} /\ OneAtATime

OpenedByAcceptance ==
  /\ RoomStatus = "accepted" => opened
  /\ opened => room # NoRoom

\* A send either follows an acceptance, and then knows the room, or it is the
\* request, and then it is alone.
FirstAsks ==
  \A c \in Call :
    /\ calls[c].pc \in {"sendRead", "sendAdd"} /\ ~opened => messages = << >>
    /\ calls[c].pc = "sendAdd" /\ opened => calls[c].snap # NoRoom
    /\ calls[c].pc = "sendCreate" => ~opened /\ room = NoRoom /\ Len(messages) = 1
    /\ calls[c].pc \in Sends => calls[c].first = "pending"

ProtocolInv(a) ==
  OpenedByAcceptance /\ AskerAlone(a) /\ OneAtOnce /\ TextsOnly /\ FirstAsks

\* What a step of a call does to the request status.
LEMMA StepStatus ==
  ASSUME Inv, NEW c \in Call, Step(c)
  PROVE  /\ At(c, "sendCreate") => RoomStatus' = calls[c].first
         /\ At(c, "accept") => RoomStatus' = IF room = NoRoom THEN "none" ELSE "accepted"
         /\ At(c, "decline") => RoomStatus' = IF room = NoRoom THEN "none" ELSE "declined"
         /\ calls[c].pc \notin {"sendCreate", "accept", "decline"} => RoomStatus' = RoomStatus
  <1>0. /\ calls \in [Call -> CallState] /\ room \in Room \cup {NoRoom}
        /\ CallsBacked
    BY DEF Inv, TypeOK
  <1>1. CASE At(c, "sendCreate")
    <2>1. SendCreate(c)
      BY <1>1 DEF Step, SendRead, SendAdd, SendCount, SendLast, ResetRead, ResetWrite,
         MarkRead, MarkWrite, Accept, Decline
    <2>2. room' # NoRoom /\ room' = NewRoom(calls[c].user, calls[c].first, calls[c].msg)
      BY <2>1, StepRoom DEF SendCreate
    <2> QED
      BY <1>1, <2>2 DEF RoomStatus, NewRoom
  <1>2. CASE calls[c].pc \in {"accept", "decline"}
    <2>1. Accept(c) \/ Decline(c)
      BY <1>2 DEF Step, SendRead, SendAdd, SendCreate, SendCount, SendLast,
         ResetRead, ResetWrite, MarkRead, MarkWrite
    <2>2. CASE room = NoRoom
      BY <1>2, <2>1, <2>2 DEF Accept, Decline, Decide, RoomStatus
    <2>3. CASE room # NoRoom
      <3>1. room' # NoRoom
        BY <2>3, StepRoom
      <3>2. room \in Room
        BY <1>0, <2>3
      <3>3. room'.status = IF At(c, "accept") THEN "accepted" ELSE "declined"
        BY <1>2, <2>1, <2>3, <3>2 DEF Accept, Decline, Decide, Room
      <3> QED
        BY <1>2, <2>3, <3>1, <3>3 DEF RoomStatus
    <2> QED
      BY <2>2, <2>3
  <1>3. CASE SendCount(c) \/ SendLast(c) \/ ResetWrite(c)
    <2>1. room \in Room /\ room # NoRoom /\ calls[c].msg \in Nat
      BY <1>0, <1>3 DEF SendCount, SendLast, ResetWrite, CallsBacked, CallState
    <2>2. room'.status = room.status
      BY <1>3, <2>1 DEF SendCount, SendLast, ResetWrite, Room
    <2>3. room' # NoRoom
      BY <2>1, StepRoom
    <2> QED
      BY <1>3, <2>1, <2>2, <2>3 DEF RoomStatus, SendCount, SendLast, ResetWrite
  <1>4. CASE SendRead(c) \/ SendAdd(c) \/ ResetRead(c) \/ MarkRead(c) \/ MarkWrite(c)
    BY <1>4 DEF SendRead, SendAdd, ResetRead, MarkRead, MarkWrite, RoomStatus
  <1>5. CASE SendCreate(c) \/ Accept(c) \/ Decline(c)
    BY <1>1, <1>2, <1>5 DEF SendCreate, Accept, Decline
  <1> QED
    BY <1>1, <1>2, <1>3, <1>4, <1>5 DEF Step

\* While there is no room there are as many messages as its one send has added.
LEMMA NoMessages ==
  ASSUME Inv, messages = << >> \/ Len(messages) = 0
  PROVE  messages = << >> /\ Len(messages) = 0 /\ room = NoRoom
  <1>1. messages = << >> /\ Len(messages) = 0
    BY EmptySeq DEF Inv, TypeOK
  <1>2. DOMAIN messages = {}
    BY <1>1
  <1> QED
    BY <1>1, <1>2 DEF Inv, RoomBacked

\* A request of a call keeps what a send may rely on.
LEMMA ServerFirst ==
  ASSUME PagesInv, PagesInv', NEW a, ProtocolInv(a), NEW c \in Call, ServerStep(c)
  PROVE  OpenedByAcceptance' /\ FirstAsks'
  <1>0. /\ Inv /\ Marked /\ calls \in [Call -> CallState] /\ opened \in BOOLEAN
        /\ OpenedByAcceptance /\ FirstAsks /\ opened' = (opened \/ RoomStatus' = "accepted")
    BY TapTypes DEF PagesInv, PagesTypeOK, ProtocolInv, ServerStep
  <1>1. CASE Abort(c)
    <2>1. UNCHANGED <<room, messages>> /\ RoomStatus' = RoomStatus
      BY <1>1 DEF Abort, RoomStatus
    <2>2. \A d \in Call : calls'[d] = calls[d] \/ calls'[d].pc = "idle"
      BY <1>0, <1>1 DEF Abort, Idle
    <2>3. opened' = opened
      BY <1>0, <2>1 DEF OpenedByAcceptance
    <2> QED
      BY <1>0, <2>1, <2>2, <2>3 DEF OpenedByAcceptance, FirstAsks, Sends
  <1>2. CASE Step(c)
    <2>1. /\ calls[c].pc # "idle"
          /\ \A b \in Call \ {c} : calls'[b] = calls[b]
          /\ Moved(c) \/ calls'[c].pc = "idle"
      BY <1>0, <1>2, Steps DEF Idle
    <2>2. /\ Len(messages) \in Nat /\ Len(messages') \in Nat
          /\ ~At(c, "sendAdd") => Len(messages') = Len(messages)
          /\ At(c, "sendAdd") => Len(messages') = Len(messages) + 1
      BY <1>0, <1>2, StepMessages
    <2>3. /\ room # NoRoom => room' # NoRoom
          /\ room = NoRoom /\ ~At(c, "sendCreate") => room' = NoRoom
          /\ At(c, "sendCreate") => room' # NoRoom
      BY <1>0, <1>2, StepRoom DEF SendCreate, Step, SendRead, SendAdd, SendCount,
         SendLast, ResetRead, ResetWrite, MarkRead, MarkWrite, Accept, Decline
    <2>4. room' = NoRoom => opened' = opened /\ ~opened
      BY <1>0, <2>3 DEF OpenedByAcceptance, RoomStatus
    <2>5. OpenedByAcceptance'
      BY <1>0, <2>4 DEF OpenedByAcceptance
    <2>6. Len(messages') = 0 => messages' = << >>
      BY NoMessages, EmptySeq DEF PagesInv, Inv, TypeOK
    <2>7. ASSUME NEW d \in Call, d # c
          PROVE  /\ calls'[d].pc \in {"sendRead", "sendAdd"} /\ ~opened' => messages' = << >>
                 /\ calls'[d].pc = "sendAdd" /\ opened' => calls'[d].snap # NoRoom
                 /\ calls'[d].pc = "sendCreate" => ~opened' /\ room' = NoRoom /\ Len(messages') = 1
                 /\ calls'[d].pc \in Sends => calls'[d].first = "pending"
      <3>1. calls'[d] = calls[d]
        BY <2>1, <2>7
      <3>2. room = NoRoom /\ calls[d].pc \in Sends => ~At(c, "sendAdd") /\ ~At(c, "sendCreate")
        BY <2>7, OneSend DEF ProtocolInv, Sends
      <3>3. calls[d].pc \in {"sendRead", "sendAdd"} /\ ~opened =>
              /\ messages' = << >> /\ ~opened'
        <4> SUFFICES ASSUME calls[d].pc \in {"sendRead", "sendAdd"}, ~opened
                     PROVE  messages' = << >> /\ ~opened'
          OBVIOUS
        <4>1. messages = << >> /\ Len(messages) = 0 /\ room = NoRoom
          BY <1>0, NoMessages DEF FirstAsks
        <4> QED
          BY <2>2, <2>3, <2>4, <2>6, <3>2, <4>1 DEF Sends
      <3>4. calls[d].pc = "sendCreate" => ~opened' /\ room' = NoRoom /\ Len(messages') = 1
        BY <1>0, <2>2, <2>3, <2>4, <3>2 DEF FirstAsks, Sends
      <3>5. opened => opened'
        BY <1>0
      <3> QED
        BY <1>0, <3>1, <3>3, <3>4, <3>5 DEF FirstAsks
    <2>8. /\ calls'[c].pc \in {"sendRead", "sendAdd"} /\ ~opened' => messages' = << >>
          /\ calls'[c].pc = "sendAdd" /\ opened' => calls'[c].snap # NoRoom
          /\ calls'[c].pc = "sendCreate" => ~opened' /\ room' = NoRoom /\ Len(messages') = 1
          /\ calls'[c].pc \in Sends => calls'[c].first = "pending"
      <3>1. CASE calls[c].pc = "sendRead" /\ calls'[c].pc = "sendAdd"
                 /\ calls'[c].snap = Snapshot /\ calls'[c].first = calls[c].first
        <4>1. RoomStatus' = RoomStatus /\ opened' = opened
          BY <1>0, <1>2, <3>1, StepStatus DEF OpenedByAcceptance
        <4>2. ~opened => messages' = << >>
          BY <1>0, <2>2, <2>6, <3>1, NoMessages DEF FirstAsks
        <4>3. opened => Snapshot # NoRoom
          BY <1>0, SnapshotType DEF OpenedByAcceptance, Inv
        <4> QED
          BY <1>0, <3>1, <4>1, <4>2, <4>3 DEF FirstAsks, Sends
      <3>2. CASE calls[c].pc = "sendAdd" /\ calls'[c].pc = "sendCreate"
                 /\ calls[c].snap = NoRoom /\ calls'[c].first = calls[c].first
        <4>1. ~opened /\ messages = << >>
          BY <1>0, <3>2 DEF FirstAsks
        <4>2. Len(messages) = 0 /\ room = NoRoom
          BY <1>0, <4>1, NoMessages
        <4> QED
          BY <1>0, <2>2, <2>3, <2>4, <3>2, <4>1, <4>2 DEF FirstAsks, Sends
      <3>3. CASE calls[c].pc \in Sends /\ calls'[c].pc \in {"sendCount", "sendLast"}
                 /\ calls'[c].first = calls[c].first
        BY <1>0, <3>3 DEF FirstAsks
      <3>4. CASE calls'[c].pc \notin Sends
        BY <3>4 DEF Sends
      <3> QED
        BY <2>1, <3>1, <3>2, <3>3, <3>4 DEF Moved, Sends
    <2> QED
      BY <2>5, <2>7, <2>8 DEF FirstAsks
  <1> QED
    BY <1>1, <1>2 DEF ServerStep

\* Each request the server carries out is one step of the protocol, or none.
LEMMA ServerMaps ==
  ASSUME PagesInv, PagesInv', NEW a, ProtocolInv(a), NEW c \in Call, ServerStep(c)
  PROVE  [Protocol!Next]_(Protocol!vars)
  <1>0. /\ Inv /\ Marked /\ calls \in [Call -> CallState] /\ opened \in BOOLEAN
        /\ OpenedByAcceptance /\ FirstAsks /\ opened' = (opened \/ RoomStatus' = "accepted")
    BY TapTypes DEF PagesInv, PagesTypeOK, ProtocolInv, ServerStep
  <1>1. CASE Abort(c)
    <2>1. UNCHANGED messages /\ RoomStatus' = RoomStatus
      BY <1>1 DEF Abort, RoomStatus
    <2>2. opened' = opened
      BY <1>0, <2>1 DEF OpenedByAcceptance
    <2> QED
      BY <2>1, <2>2 DEF Protocol!vars
  <1>2. CASE Step(c)
    <2>1. /\ At(c, "sendCreate") => RoomStatus' = calls[c].first
          /\ At(c, "accept") => RoomStatus' = IF room = NoRoom THEN "none" ELSE "accepted"
          /\ At(c, "decline") => RoomStatus' = IF room = NoRoom THEN "none" ELSE "declined"
          /\ calls[c].pc \notin {"sendCreate", "accept", "decline"} => RoomStatus' = RoomStatus
      BY <1>0, <1>2, StepStatus
    <2>2. /\ Len(messages) \in Nat
          /\ ~At(c, "sendAdd") => Len(messages') = Len(messages)
          /\ At(c, "sendAdd") => Len(messages') = Len(messages) + 1
      BY <1>0, <1>2, StepMessages
    <2>3. room = NoRoom <=> RoomStatus = "none"
      BY <1>0 DEF RoomStatus, Inv, TypeOK, Room, Status
    <2>4. RoomStatus' = RoomStatus => opened' = opened
      BY <1>0 DEF OpenedByAcceptance
    <2>5. CASE At(c, "sendAdd")
      <3>1. opened' = opened /\ RoomStatus' = RoomStatus
        BY <2>1, <2>4, <2>5
      <3>2. CASE opened
        BY <2>2, <2>5, <3>1, <3>2 DEF Protocol!Next, Protocol!Chat
      <3>3. CASE ~opened
        <4>1. Len(messages) = 0
          BY <1>0, <2>5, <3>3, NoMessages DEF FirstAsks
        <4> QED
          BY <2>2, <2>5, <3>1, <4>1 DEF Protocol!Next, Protocol!Ask
      <3> QED
        BY <3>2, <3>3
    <2>6. CASE At(c, "sendCreate")
      <3>1. ~opened /\ RoomStatus = "none" /\ Len(messages) = 1 /\ calls[c].first = "pending"
        BY <1>0, <2>3, <2>6 DEF FirstAsks, Sends
      <3>2. RoomStatus' = "pending" /\ opened' = opened /\ Len(messages') = 1
        BY <1>0, <2>1, <2>2, <2>6, <3>1
      <3> QED
        BY <3>1, <3>2 DEF Protocol!Next, Protocol!Register
    <2>7. CASE calls[c].pc \in {"accept", "decline"}
      <3>1. Len(messages') = Len(messages)
        BY <2>2, <2>7
      <3>2. CASE room = NoRoom
        <4>1. RoomStatus' = RoomStatus
          BY <2>1, <2>3, <2>7, <3>2
        <4> QED
          BY <2>4, <3>1, <4>1 DEF Protocol!vars
      <3>3. CASE room # NoRoom
        <4>1. RoomStatus # "none"
          BY <2>3, <3>3
        <4>2. \/ RoomStatus' = "accepted" /\ opened' = TRUE
              \/ RoomStatus' = "declined" /\ opened' = opened
          BY <1>0, <2>1, <2>7, <3>3
        <4> QED
          BY <3>1, <4>1, <4>2 DEF Protocol!Next, Protocol!Answer
      <3> QED
        BY <3>2, <3>3
    <2>8. CASE calls[c].pc \notin {"sendAdd", "sendCreate", "accept", "decline"}
      BY <2>1, <2>2, <2>4, <2>8 DEF Protocol!vars
    <2> QED
      BY <2>5, <2>6, <2>7, <2>8
  <1> QED
    BY <1>1, <1>2 DEF ServerStep

LEMMA NextProtocol ==
  ASSUME PagesInv, PagesInv', [PagesNext]_allVars,
         NEW a, Conversation(a), ProtocolInv(a)
  PROVE  ProtocolInv(a)' /\ [Protocol!Next]_(Protocol!vars)
  <1>0. /\ OneAsker(a) /\ SendWays = {"text"} /\ OneAtATime
        /\ OpenedByAcceptance /\ AskerAlone(a) /\ OneAtOnce /\ TextsOnly /\ FirstAsks
    BY DEF Conversation, ProtocolInv
  <1>1. OpenedByAcceptance' /\ FirstAsks' /\ [Protocol!Next]_(Protocol!vars)
    <2>1. CASE \E c \in Call : ServerStep(c)
      BY <2>1, ServerFirst, ServerMaps
    <2>2. CASE ~ \E c \in Call : ServerStep(c)
      <3>1. /\ UNCHANGED <<room, messages, opened>>
            /\ \A c \in Call : Quiet(c)
        BY <2>2, QuietSteps
      <3>2. RoomStatus' = RoomStatus
        BY <3>1 DEF RoomStatus
      <3>3. OpenedByAcceptance' /\ UNCHANGED Protocol!vars
        BY <1>0, <3>1, <3>2 DEF OpenedByAcceptance, Protocol!vars
      <3>4. FirstAsks'
        <4>1. \A c \in Call :
                \/ calls'[c] = calls[c]
                \/ calls'[c].pc \in {"idle", "accept", "decline"}
                \/ /\ calls'[c].pc = "sendRead" /\ calls'[c].first = "pending"
                   /\ RoomStatus = "accepted" \/ messages = << >>
          BY <1>0, <3>1 DEF Quiet, TextsOnly, Idle
        <4> QED
          BY <1>0, <3>1, <4>1 DEF FirstAsks, Sends, OpenedByAcceptance
      <3> QED
        BY <3>3, <3>4
    <2> QED
      BY <2>1, <2>2
  <1>2. AskerAlone(a)' /\ OneAtOnce' /\ TextsOnly'
    BY <1>0, AskerStays, OnceStays, TextsStay
  <1> QED
    BY <1>1, <1>2 DEF ProtocolInv

LEMMA InitProtocol == \A a : PagesInit => ProtocolInv(a) /\ Protocol!Init
  <1> SUFFICES ASSUME NEW a, PagesInit PROVE ProtocolInv(a) /\ Protocol!Init
    OBVIOUS
  <1>1. /\ room = NoRoom /\ messages = << >> /\ pushed = {} /\ opened = FALSE
        /\ \A c \in Call : calls[c].pc = "idle" /\ tap[c] = NoTap
        /\ \A u \in User : page[u] = Closed
    BY DEF PagesInit, Init, Idle
  <1>2. RoomStatus = "none" /\ Len(messages) = 0
    BY <1>1 DEF RoomStatus
  <1>3. ProtocolInv(a)
    BY <1>1, <1>2 DEF ProtocolInv, OpenedByAcceptance, AskerAlone, OneAtOnce, TextsOnly,
       FirstAsks, Writing, Sends
  <1> QED
    BY <1>1, <1>2, <1>3 DEF Protocol!Init

\* With one user who opens the chat before he is written to, texts sent one at a
\* time, and notifications only where no send fails, the two screens carry out the
\* request protocol: one message asks, the room is registered after it, and
\* writing goes on once the request has been accepted -- however the reads of the
\* gates in _sendMessage, the sends and the answers of both users interleave.
THEOREM PagesImplementProtocol ==
  ASSUME NEW a, Conversation(a)
  PROVE  PagesSpec => ImplementsProtocol
  <1>1. PagesInit => ProtocolInv(a) /\ Protocol!Init
    BY InitProtocol
  <1>2. PagesInv /\ PagesInv' /\ [PagesNext]_allVars /\ ProtocolInv(a)
          => ProtocolInv(a)' /\ [Protocol!Next]_(Protocol!vars)
    BY NextProtocol
  <1> QED
    BY <1>1, <1>2, PagesInvariant, PTL DEF PagesSpec, ImplementsProtocol, Protocol!Spec

-----------------------------------------------------------------------------
(* What the source says of the room, where it is kept                       *)

\* "Initialize chat data if it doesn't exist": where one user asks and
\* waits for his sends, set() only ever creates the document, whatever is sent and
\* whatever calls, reads and apps fail.
THEOREM RoomNeverReplaced ==
  ASSUME NEW a, OneAsker(a), OneAtATime
  PROVE  PagesSpec => InitializeOnlyIfMissing
  <1>1. PagesInit => CreatorInv(a)
    BY InitCreator
  <1>2. PagesInv /\ PagesInv' /\ [PagesNext]_allVars /\ CreatorInv(a) => CreatorInv(a)'
    BY CreatorStays
  <1>3. PagesInv /\ [PagesNext]_allVars /\ CreatorInv(a)
          => [creates' # creates => room = NoRoom]_allVars
    <2> SUFFICES ASSUME PagesInv, [PagesNext]_allVars, CreatorInv(a), creates' # creates
                 PROVE  room = NoRoom
      OBVIOUS
    <2>1. PICK c \in Call : ServerStep(c)
      BY QuietSteps
    <2>2. Step(c)
      BY <2>1 DEF ServerStep, Abort
    <2>3. At(c, "sendCreate")
      BY <2>2 DEF Step, SendRead, SendAdd, SendCreate, SendCount, SendLast, ResetRead,
         ResetWrite, MarkRead, MarkWrite, Accept, Decline, Decide
    <2> QED
      BY <2>3 DEF CreatorInv, SetsMissing
  <1> QED
    BY <1>1, <1>2, <1>3, PagesInvariant, PTL DEF PagesSpec, InitializeOnlyIfMissing

\* "Once the request is accepted, You can continue chatting.": where one user asks
\* and texts are sent one at a time, a second message is stored only after an
\* acceptance, whatever calls and reads of the gates fail meanwhile.
THEOREM ContinuesAfterAcceptance ==
  ASSUME NEW a, Conversation(a)
  PROVE  PagesSpec => []ContinueOnlyAfterAcceptance
  <1>1. PagesInit => ProtocolInv(a) /\ ContinueOnlyAfterAcceptance
    <2>1. PagesInit => Len(messages) = 0
      BY DEF PagesInit, Init
    <2> QED
      BY <2>1, InitProtocol DEF ContinueOnlyAfterAcceptance
  <1>2. PagesInv /\ PagesInv' /\ [PagesNext]_allVars
          /\ ProtocolInv(a) /\ ContinueOnlyAfterAcceptance
          => ProtocolInv(a)' /\ ContinueOnlyAfterAcceptance'
    <2> SUFFICES ASSUME PagesInv, PagesInv', [PagesNext]_allVars,
                        ProtocolInv(a), ContinueOnlyAfterAcceptance
                 PROVE  ProtocolInv(a)' /\ ContinueOnlyAfterAcceptance'
      OBVIOUS
    <2>1. ProtocolInv(a)' /\ [Protocol!Next]_(Protocol!vars)
      BY NextProtocol
    <2>2. Len(messages) \in Nat /\ opened \in BOOLEAN
      BY DEF PagesInv, PagesTypeOK, TypeOK
    <2>3. ContinueOnlyAfterAcceptance'
      <3>1. CASE Protocol!Ask
        BY <3>1 DEF Protocol!Ask, ContinueOnlyAfterAcceptance
      <3>2. CASE Protocol!Chat
        BY <3>2 DEF Protocol!Chat, ContinueOnlyAfterAcceptance
      <3>3. CASE Protocol!Register \/ Protocol!Answer \/ UNCHANGED Protocol!vars
        <4>1. Len(messages') = Len(messages) /\ (opened => opened')
          BY <2>2, <3>3 DEF Protocol!Register, Protocol!Answer, Protocol!vars
        <4> QED
          BY <4>1 DEF ContinueOnlyAfterAcceptance
      <3> QED
        BY <2>1, <3>1, <3>2, <3>3 DEF Protocol!Next
    <2> QED
      BY <2>1, <2>3
  <1> QED
    BY <1>1, <1>2, PagesInvariant, PTL DEF PagesSpec

\* A request page that shows a decline was told of one that reached the room.
LEMMA NextDeclineStored ==
  ASSUME PagesInv, [PagesNext]_allVars, MaxFaults = 0,
         NEW a, CreatorInv(a), DeclineStored
  PROVE  DeclineStored'
  <1> SUFFICES ASSUME NEW u \in User, request'[u] # Closed, request'[u].status = "declined",
                      RoomStatus' = "pending"
               PROVE  FALSE
    BY DEF DeclineStored
  <1>0. /\ Inv /\ Slots /\ RequestBacked /\ faults \in Nat
        /\ calls \in [Call -> CallState]
        /\ request \in [User -> Request \cup {Closed}]
    BY TapTypes DEF PagesInv, PagesTypeOK, Inv, TypeOK
  \* The page shows it already, and the request was pending before the step.
  <1>1. ~(request[u] # Closed /\ request[u].status = "declined" /\ RoomStatus = "pending")
    BY DEF DeclineStored
  <1>2. ASSUME NEW c \in Call, ServerStep(c) PROVE FALSE
    <2>1. Step(c)
      BY <1>0, <1>2 DEF ServerStep, Abort
    <2>2. ~At(c, "accept") /\ ~At(c, "decline")
      BY <1>0, <2>1, StepStatus
    <2>3. request' = request
      BY <1>2, <2>2 DEF ServerStep, RequestAfter
    <2>4. CASE At(c, "sendCreate")
      <3>1. room = NoRoom
        BY <2>4 DEF CreatorInv, SetsMissing
      <3> QED
        BY <1>0, <2>3, <3>1 DEF RequestBacked
    <2>5. CASE ~At(c, "sendCreate")
      <3>1. RoomStatus' = RoomStatus
        BY <1>0, <2>1, <2>2, <2>5, StepStatus
      <3> QED
        BY <1>1, <2>3, <3>1
    <2> QED
      BY <2>4, <2>5
  <1>3. ASSUME ~ \E c \in Call : ServerStep(c) PROVE FALSE
    <2>1. RoomStatus' = RoomStatus
      BY <1>3, QuietSteps DEF RoomStatus
    <2>2. ASSUME NEW v \in User, OpenRequest(v) PROVE FALSE
      <3>1. /\ request' = [request EXCEPT ![v] = [status |-> room.status, receiver |-> "unknown"]]
            /\ room.status = RoomStatus
        BY <2>2 DEF OpenRequest, RoomStatus
      <3>2. CASE u = v
        BY <1>0, <2>1, <3>1, <3>2
      <3>3. CASE u # v
        BY <1>0, <1>1, <2>1, <3>1, <3>3
      <3> QED
        BY <3>2, <3>3
    <2>3. ASSUME NEW v \in User, CloseRequest(v) \/ KillApp(v) PROVE FALSE
      BY <1>0, <1>1, <2>1, <2>3 DEF CloseRequest, KillApp
    <2>4. ASSUME NEW v \in User, LoadReceiver(v) PROVE FALSE
      <3>1. PICK b \in {"yes", "no"} : request' = [request EXCEPT ![v].receiver = b]
        BY <2>4 DEF LoadReceiver
      <3>2. CASE u = v
        <4>1. request[v] # Closed /\ request[v] \in Request
          BY <1>0, <2>4 DEF LoadReceiver
        <4>2. request'[v].status = request[v].status
          BY <1>0, <3>1, <4>1 DEF Request
        <4> QED
          BY <1>1, <2>1, <3>2, <4>1, <4>2
      <3>3. CASE u # v
        BY <1>0, <1>1, <2>1, <3>1, <3>3
      <3> QED
        BY <3>2, <3>3
    <2>5. ASSUME UNCHANGED request PROVE FALSE
      BY <1>1, <2>1, <2>5
    <2>6. ASSUME NEW v \in User, AppStep(v), ~LoadReceiver(v) PROVE FALSE
      BY <2>5, <2>6 DEF AppStep, Load
    <2>7. ASSUME NEW v \in User, UserStep(v), ~OpenRequest(v), ~CloseRequest(v) PROVE FALSE
      BY <2>5, <2>7 DEF UserStep, OpenPage, ClosePage, TapSend, TapImage, TapInput, TapAnswer
    <2>8. ASSUME NEW c \in Call, TapStep(c) PROVE FALSE
      BY <2>5, <2>8 DEF TapStep, GateStatus, GateFirst, GateFails, SendImage, CancelImage, CheckStatus
    <2>9. CASE UNCHANGED allVars
      BY <2>5, <2>9 DEF allVars, pageVars
    <2> QED
      BY <1>3, <2>2, <2>3, <2>4, <2>6, <2>7, <2>8, <2>9 DEF PagesNext
  <1> QED
    BY <1>2, <1>3

\* "Update the UI to show the declined status": where one user asks and waits for
\* his sends, and no call fails, a page that shows a decline stands before a request that has
\* been answered, whatever the other answers on their way make of it.
THEOREM DeclinesAreStored ==
  ASSUME NEW a, OneAsker(a), OneAtATime, MaxFaults = 0
  PROVE  PagesSpec => []DeclineStored
  <1>1. PagesInit => CreatorInv(a) /\ DeclineStored
    <2>1. PagesInit => DeclineStored
      BY DEF PagesInit, DeclineStored
    <2> QED
      BY <2>1, InitCreator
  <1>2. PagesInv /\ PagesInv' /\ [PagesNext]_allVars /\ CreatorInv(a) /\ DeclineStored
          => CreatorInv(a)' /\ DeclineStored'
    BY CreatorStays, NextDeclineStored
  <1> QED
    BY <1>1, <1>2, PagesInvariant, PTL DEF PagesSpec

=============================================================================
