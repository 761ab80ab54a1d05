-------------------------- MODULE ChatReadingProofs --------------------------
(***************************************************************************)
(* Proofs about ChatReading for any readers, call slots and bounds.  A     *)
(* page's builder starts the two calls that touch the reader's state, so   *)
(* every mark call in flight belongs to a user whose page has shown the    *)
(* chat, and the message it marks is addressed to him (Marked).            *)
(***************************************************************************)
EXTENDS ChatReading, ChatMessagesProofs

USE DEF At, Goto, Return, Start, hist, vars

MarksOfReaders ==
  \A c \in Call : calls[c].pc \in {"markRead", "markWrite"} => calls[c].user \in read

ReadInv == Inv /\ Marked /\ ReadingTypeOK /\ MarksOfReaders /\ SeenHasReader

\* Each step of the reading pages is a step of the room.
LEMMA RoomStep == [ReadingNext]_readVars => [Next]_vars
  <1> SUFFICES ASSUME ReadingNext PROVE [Next]_vars
    BY DEF readVars
  <1>1. ASSUME NEW u \in User, Open(u) \/ Close(u) \/ Rebuild(u)
        PROVE  UNCHANGED vars
    BY <1>1 DEF Open, Close, Rebuild
  <1>2. ASSUME NEW u \in User, KillApp(u) PROVE Next
    BY <1>2 DEF KillApp, Next
  <1>3. ASSUME NEW u \in User, NEW c \in Call, Send(u, c) PROVE Next
    BY <1>3 DEF Send, Next, Begin
  <1>4. ASSUME NEW u \in User, NEW c \in Call, NEW d \in Call, Render(u, c, d)
        PROVE  Next
    BY <1>4 DEF Render, Next, Begin
  <1>5. ASSUME NEW c \in Call, ServerStep(c) PROVE Next
    BY <1>5 DEF ServerStep, Next
  <1> QED
    BY <1>1, <1>2, <1>3, <1>4, <1>5 DEF ReadingNext

\* The pages start the calls of the room and no others: whatever holds of the
\* room with any calls at any time holds under the pages that read it.
THEOREM ReadingImplementsRoom == ReadingSpec => Spec
  <1>1. ReadingInit => Init
    BY DEF ReadingInit
  <1> QED
    BY <1>1, RoomStep, PTL DEF ReadingSpec, Spec

LEMMA NextReadInv == ReadInv /\ [ReadingNext]_readVars => ReadInv'
  <1> SUFFICES ASSUME ReadInv, [ReadingNext]_readVars PROVE ReadInv'
    OBVIOUS
  <1>0. /\ Inv /\ Marked /\ Inv' /\ Marked'
        /\ calls \in [Call -> CallState]
        /\ view \in [User -> {"closed", "fresh", "shown"}] /\ read \subseteq User
    BY RoomStep, NextInv, NextMarked DEF ReadInv, ReadingTypeOK, Inv, TypeOK
  \* Steps that mark nothing and start no mark call.
  <1>1. ASSUME UNCHANGED messages, read \subseteq read',
               \A c \in Call : \/ calls'[c] = calls[c]
                               \/ calls'[c].pc \notin {"markRead", "markWrite"}
        PROVE  MarksOfReaders' /\ SeenHasReader'
    BY <1>1 DEF ReadInv, MarksOfReaders, SeenHasReader
  <1>2. ASSUME view' \in [User -> {"closed", "fresh", "shown"}], read' \subseteq User,
               MarksOfReaders', SeenHasReader'
        PROVE  ReadInv'
    BY <1>0, <1>2 DEF ReadInv, ReadingTypeOK, Inv
  <1>3. ASSUME NEW u \in User, Open(u) \/ Close(u) \/ Rebuild(u) PROVE ReadInv'
    <2>1. view' \in [User -> {"closed", "fresh", "shown"}]
      BY <1>0, <1>3 DEF Open, Close, Rebuild
    <2> QED
      BY <1>0, <1>1, <1>2, <1>3, <2>1 DEF Open, Close, Rebuild
  <1>4. ASSUME NEW u \in User, KillApp(u) PROVE ReadInv'
    <2>1. view' \in [User -> {"closed", "fresh", "shown"}]
      BY <1>0, <1>4 DEF KillApp
    <2>2. UNCHANGED <<messages, read>>
          /\ \A c \in Call : calls'[c] = calls[c] \/ calls'[c].pc = "idle"
      BY <1>4 DEF KillApp, Kill, Idle
    <2> QED
      BY <1>0, <1>1, <1>2, <2>1, <2>2
  <1>5. ASSUME NEW u \in User, NEW c \in Call, Send(u, c) PROVE ReadInv'
    <2>1. PICK first \in FirstStatus : StartSend(c, u, first)
      BY <1>5 DEF Send
    <2>2. /\ UNCHANGED messages
          /\ \A b \in Call : calls'[b] = calls[b] \/ calls'[b].pc = "sendRead"
      BY <1>0, <2>1, Starts
    <2> QED
      BY <1>0, <1>1, <1>2, <1>5, <2>2 DEF Send
  <1>6. ASSUME NEW u \in User, NEW c \in Call, NEW d \in Call, Render(u, c, d)
        PROVE  ReadInv'
    <2>1. StartRefresh(c, d, u) /\ read' = read \cup {u}
          /\ view' = [view EXCEPT ![u] = "shown"]
      BY <1>6 DEF Render
    <2>2. /\ calls'[c].pc = "resetRead" /\ calls'[d].pc = "markRead"
          /\ calls'[d].user = u /\ UNCHANGED messages
          /\ \A b \in Call \ {c, d} : calls'[b] = calls[b]
      BY <1>0, <2>1, RefreshStarts
    <2>3. MarksOfReaders'
      BY <2>1, <2>2 DEF ReadInv, MarksOfReaders
    <2>4. SeenHasReader'
      BY <2>1, <2>2 DEF ReadInv, SeenHasReader
    <2> QED
      BY <1>0, <1>2, <2>1, <2>3, <2>4
  <1>7. ASSUME NEW c \in Call, ServerStep(c) PROVE ReadInv'
    <2>1. UNCHANGED read /\ view' \in [User -> {"closed", "fresh", "shown"}]
      BY <1>0, <1>7 DEF ServerStep, Listeners
    <2>2. CASE Step(c)
      <3>1. MarksOfReaders'
        <4> SUFFICES ASSUME NEW d \in Call, calls'[d].pc \in {"markRead", "markWrite"}
                     PROVE  calls'[d].user \in read
          BY <2>1 DEF MarksOfReaders
        <4>1. CASE calls'[d] = calls[d]
          BY <4>1 DEF ReadInv, MarksOfReaders
        <4>2. CASE calls'[d] # calls[d]
          <5>1. d = c /\ (Moved(c) \/ calls'[c] = Idle)
            BY <1>0, <2>2, <4>2, Steps
          <5>2. calls[c].pc = "markRead" /\ calls'[c].user = calls[c].user
            BY <5>1 DEF Moved, Idle
          <5> QED
            BY <5>1, <5>2 DEF ReadInv, MarksOfReaders
        <4> QED
          BY <4>1, <4>2
      <3>2. SeenHasReader'
        <4> SUFFICES ASSUME NEW i \in DOMAIN messages', messages'[i].seen
                     PROVE  messages'[i].to \in read
          BY <2>1 DEF SeenHasReader
        <4>1. i \in DOMAIN messages
          BY <1>0, <2>2, StepMessages
        <4>2. messages'[i].to = messages[i].to
          BY <1>0, <2>2, <4>1, StepMessages
        <4>3. CASE messages[i].seen
          BY <4>1, <4>2, <4>3 DEF ReadInv, SeenHasReader
        <4>4. CASE ~messages[i].seen
          <5>1. calls[c].pc = "markWrite" /\ calls[c].user = messages[i].to
            BY <1>0, <2>2, <4>1, <4>4, StepMessages
          <5> QED
            BY <4>2, <5>1 DEF ReadInv, MarksOfReaders
        <4> QED
          BY <4>3, <4>4
      <3> QED
        BY <1>0, <1>2, <2>1, <3>1, <3>2
    <2>3. CASE Abort(c)
      <3>1. UNCHANGED messages
            /\ \A b \in Call : calls'[b] = calls[b] \/ calls'[b].pc = "idle"
        BY <1>0, <2>3 DEF Abort, Idle
      <3> QED
        BY <1>0, <1>1, <1>2, <2>1, <3>1
    <2> QED
      BY <1>7, <2>2, <2>3 DEF ServerStep
  <1>8. CASE UNCHANGED readVars
    BY <1>0, <1>1, <1>2, <1>8 DEF readVars
  <1> QED
    BY <1>3, <1>4, <1>5, <1>6, <1>7, <1>8 DEF ReadingNext

LEMMA InitReadInv == ReadingInit => ReadInv
  <1> SUFFICES ASSUME ReadingInit PROVE ReadInv
    OBVIOUS
  <1>1. Init
    BY DEF ReadingInit
  <1>2. Inv /\ Marked
    BY <1>1, InitInv, InitMarked
  <1>3. MarksOfReaders /\ SeenHasReader
    BY <1>1 DEF Init, Idle, MarksOfReaders, SeenHasReader
  <1>4. view \in [User -> {"closed", "fresh", "shown"}] /\ read \subseteq User
    BY DEF ReadingInit
  <1> QED
    BY <1>2, <1>3, <1>4 DEF ReadInv, ReadingTypeOK, Inv

LEMMA ReadInvariant == ReadingSpec => []ReadInv
  BY InitReadInv, NextReadInv, PTL DEF ReadingSpec

\* The state of the pages and of the room they show, with any number of pages,
\* sends, kills and failures.
THEOREM ReadingTypeCorrect == ReadingSpec => []ReadingTypeOK
  <1>1. ReadInv => ReadingTypeOK
    BY DEF ReadInv
  <1> QED
    BY <1>1, ReadInvariant, PTL

\* "Seen" stands only under messages whose addressee has had the chat on screen,
\* although the page looks for the message to mark after the builder has run.
THEOREM SeenWasRead == ReadingSpec => []SeenHasReader
  <1>1. ReadInv => SeenHasReader
    BY DEF ReadInv
  <1> QED
    BY <1>1, ReadInvariant, PTL

\* The pages, too, mark messages only for their addressee and drop none.
THEOREM ReadingMarksOwn == ReadingSpec => SeenByAddressee
  <1>1. ReadInv /\ [ReadingNext]_readVars => [SeenStep]_vars
    BY NextSeen, RoomStep DEF ReadInv
  <1>2. [][SeenStep]_vars => SeenByAddressee
    BY PTL DEF SeenStep, SeenByAddressee
  <1> QED
    BY <1>1, <1>2, ReadInvariant, PTL DEF ReadingSpec

=============================================================================
