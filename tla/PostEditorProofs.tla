--------------------------- MODULE PostEditorProofs ---------------------------
(***************************************************************************)
(* Proofs about PostEditor for any editors, posts, pictures and bounds.    *)
(***************************************************************************)
EXTENDS PostEditor, SequenceTheorems, TLAPS

USE DEF Fault, Over, Is, Edits, Ends, Going, counts

\* Routes come onto the stack one at a time and leave it from the top.
LEMMA StackSteps ==
  ASSUME EditorTypeOK
  PROVE  /\ \A r \in Page \cup {Home} : Push(r) =>
              /\ stack' \in Seq(Page \cup {Home}) /\ stack' # <<>>
              /\ \A e \in Page : Mounted(e)' => Mounted(e) \/ e = r
         /\ SystemBack =>
              /\ stack' \in Seq(Page \cup {Home}) /\ stack' # <<>>
              /\ \A e \in Page : Mounted(e)' => Mounted(e)
         /\ stack' = <<Home>> =>
              /\ stack' \in Seq(Page \cup {Home}) /\ stack' # <<>>
              /\ \A e \in Page : ~Mounted(e)'
         /\ UNCHANGED stack =>
              /\ stack' \in Seq(Page \cup {Home}) /\ stack' # <<>>
              /\ \A e \in Page : Mounted(e)' <=> Mounted(e)
  <1>0. stack \in Seq(Page \cup {Home}) /\ stack # <<>> /\ Len(stack) \in Nat
    BY LenProperties DEF EditorTypeOK
  <1>1. ASSUME NEW r \in Page \cup {Home}, Push(r)
        PROVE  /\ stack' \in Seq(Page \cup {Home}) /\ stack' # <<>>
               /\ \A e \in Page : Mounted(e)' => Mounted(e) \/ e = r
    <2>1. stack' = Append(stack, r)
      BY <1>1 DEF Push
    <2>2. /\ stack' \in Seq(Page \cup {Home}) /\ Len(stack') = Len(stack) + 1
          /\ \A i \in 1..Len(stack) : stack'[i] = stack[i]
          /\ stack'[Len(stack) + 1] = r
      BY <1>0, <2>1, AppendProperties
    <2> QED
      BY <1>0, <2>2 DEF Mounted
  <1>2. ASSUME SystemBack
        PROVE  /\ stack' \in Seq(Page \cup {Home}) /\ stack' # <<>>
               /\ \A e \in Page : Mounted(e)' => Mounted(e)
    <2>1. stack' = SubSeq(stack, 1, Len(stack) - 1) /\ Len(stack) > 1
      BY <1>2 DEF SystemBack, Front
    <2>2. /\ stack' \in Seq(Page \cup {Home}) /\ Len(stack') = Len(stack) - 1
          /\ \A i \in 1..(Len(stack) - 1) : stack'[i] = stack[i]
      BY <1>0, <2>1, SubSeqProperties
    <2>3. DOMAIN stack' = 1..Len(stack') /\ DOMAIN stack = 1..Len(stack)
      BY <1>0, <2>2, LenProperties
    <2>4. stack' # <<>>
      <3>1. stack' = <<>> => Len(stack') = 0
        BY EmptySeq
      <3>2. Len(stack') > 0
        BY <1>0, <2>1, <2>2
      <3> QED
        BY <3>1, <3>2
    <2>5. ASSUME NEW e \in Page, Mounted(e)' PROVE Mounted(e)
      <3>1. PICK i \in DOMAIN stack' : stack'[i] = e
        BY <2>5 DEF Mounted
      <3>2. i \in DOMAIN stack /\ stack[i] = e
        BY <1>0, <2>2, <2>3, <3>1
      <3> QED
        BY <3>2 DEF Mounted
    <2> QED
      BY <2>2, <2>4, <2>5
  <1>3. ASSUME stack' = <<Home>>
        PROVE  /\ stack' \in Seq(Page \cup {Home}) /\ stack' # <<>>
               /\ \A e \in Page : ~Mounted(e)'
    BY <1>3, EditorSentinels DEF Mounted
  <1>4. UNCHANGED stack =>
          /\ stack' \in Seq(Page \cup {Home}) /\ stack' # <<>>
          /\ \A e \in Page : Mounted(e)' <=> Mounted(e)
    BY <1>0 DEF Mounted
  <1> QED
    BY <1>1, <1>2, <1>3, <1>4

LEMMA TopMounted == ASSUME EditorTypeOK PROVE \A e \in Page : Top = e => Mounted(e)
  <1>1. Len(stack) \in DOMAIN stack
    BY EmptySeq, LenProperties DEF EditorTypeOK
  <1> QED
    BY <1>1 DEF Top, Last, Mounted

\* What the handlers make of an editor is one.
LEMMA EditorUpdates ==
  ASSUME NEW s \in Editor
  PROVE  /\ \A d \in {"none", "going", "failed"} : [s EXCEPT !.download = d] \in Editor
         /\ [s EXCEPT !.download = "none", !.image = "profile_image.jpg",
                      !.isLoading = FALSE] \in Editor
         /\ \A pic \in Picture, h \in BOOLEAN :
              [s EXCEPT !.wants = pic, !.hasty = h] \in Editor
         /\ \A w \in Picture \cup {NoPicture} : [s EXCEPT !.wants = w] \in Editor
         /\ [s EXCEPT !.image = "temp.jpg"] \in Editor
         /\ \A b, h \in BOOLEAN : [s EXCEPT !.isLoading = b, !.hasty = h] \in Editor
         /\ \A b \in BOOLEAN : [s EXCEPT !.isLoading = b] \in Editor
         /\ s.hasty \in BOOLEAN /\ s.isLoading \in BOOLEAN
         /\ s.url \in Picture \cup {NoPicture}
         /\ s.wants \in Picture \cup {NoPicture} /\ s.image \in File \cup {NoFile}
         /\ s.post \in Post \cup {NoPost}
  BY DEF Editor, Maybe, File

\* Likewise for a request and a compression.
LEMMA RequestUpdates ==
  ASSUME NEW r \in Request
  PROVE  /\ \A p \in {"open", "sent", "done", "failed"} :
              [r EXCEPT !.phase = p] \in Request
         /\ r.from \in Page /\ r.image \in File \cup {NoFile}
         /\ r.got \in Picture \cup {NoPicture}
  BY DEF Request, Maybe

LEMMA ChoiceFields ==
  ASSUME NEW q \in Choice
  PROVE  q.from \in Page /\ q.pic \in Picture /\ q.before \in Picture \cup {NoPicture}
  BY DEF Choice, Maybe

\* A request and a compression take a free slot.
LEMMA FreeSlots ==
  ASSUME EditorTypeOK
  PROVE  /\ \A n \in Lowest(request, NoRequest) :
              n \in 1..MaxSends /\ request[n] = NoRequest
         /\ \A k \in Lowest(choice, NoChoice) :
              k \in 1..MaxCrops /\ choice[k] = NoChoice
  BY DEF EditorTypeOK, Lowest

LEMMA InitTyped == EditorInit => EditorTypeOK
  <1> SUFFICES ASSUME EditorInit PROVE EditorTypeOK
    OBVIOUS
  <1>1. stack \in Seq(Page \cup {Home}) /\ stack # <<>>
    BY DEF EditorInit
  <1>2. /\ page \in [Page -> Maybe(Editor, NoPage)]
        /\ file \in [File -> [pic : Maybe(Picture, NoPicture), by : Maybe(Page, NoPage)]]
        /\ media \in [Post -> Maybe(Picture, NoPicture)]
        /\ request \in [1..MaxSends -> Maybe(Request, NoRequest)]
        /\ choice \in [1..MaxCrops -> Maybe(Choice, NoChoice)]
    BY DEF EditorInit, Maybe
  <1>3. /\ \A n \in 1..MaxSends : request[n] = NoRequest
        /\ \A k \in 1..MaxCrops : choice[k] = NoChoice
    BY DEF EditorInit
  <1> QED
    BY <1>1, <1>2, <1>3 DEF EditorInit, EditorTypeOK

\* The steps of one editor, of one request, and of the stack alone.
EditorStep(e) ==
  \/ OpenWrite(e) \/ \E p \in Post : OpenEdit(e, p)
  \/ Downloaded(e) \/ DownloadFails(e)
  \/ \E k \in 1..MaxCrops : /\ Going(k) /\ choice[k].from = e
                            /\ Compressed(k) \/ CompressionFails(k)
  \/ \E pic \in Picture : Crop(e, pic)
  \/ TapSend(e)

RequestStep(n) ==
  Read(n) \/ Store(n) \/ Fails(n) \/ EditReturns(n) \/ WriteReturns(n)

\* An editor on the stack has been opened.
Opened == \A e \in Page : Mounted(e) => page[e] # NoPage

\* A step of an editor leaves the other editors alone, and does not bring back
\* one that has gone.
Moves(e) ==
  /\ EditorTypeOK' /\ Opened'
  /\ page'[e] \in Editor
  /\ \A a \in Page \ {e} : page'[a] = page[a]
  /\ \A a \in Page : Mounted(a)' => Mounted(a) \/ (a = e /\ page[e] = NoPage)

LEMMA EditorTyped ==
  ASSUME EditorTypeOK, Opened, NEW e \in Page, EditorStep(e)
  PROVE  Moves(e)
  <1> USE DEF EditorTypeOK, Maybe
  <1>0. /\ page[e] # NoPage => page[e] \in Editor
        /\ media \in [Post -> Picture \cup {NoPicture}]
    OBVIOUS
  \* It is enough to know the new state of e.
  <1>1. ASSUME NEW s \in Editor, page' = [page EXCEPT ![e] = s],
               stack' \in Seq(Page \cup {Home}), stack' # <<>>,
               file' \in [File -> [pic : Picture \cup {NoPicture}, by : Page \cup {NoPage}]],
               UNCHANGED media, sends' \in Nat, crops' \in Nat, faults' \in Nat,
               request' \in [1..MaxSends -> Request \cup {NoRequest}],
               \A n \in 1..MaxSends : request'[n] \in {request[n], NoRequest}
                                       \/ request'[n].from = e,
               choice' \in [1..MaxCrops -> Choice \cup {NoChoice}],
               \A k \in 1..MaxCrops : choice'[k] \in {choice[k], NoChoice}
                                       \/ choice'[k].from = e,
               \A a \in Page : Mounted(a)' => Mounted(a) \/ (a = e /\ page[e] = NoPage)
        PROVE  Moves(e)
    <2>1. \A a \in Page : page[a] # NoPage => page'[a] # NoPage
      BY <1>1, EditorNone
    <2>2. ASSUME NEW n \in 1..MaxSends, request'[n] # NoRequest
          PROVE  page'[request'[n].from] # NoPage
      <3>1. CASE request'[n] = request[n]
        BY <2>1, <2>2, <3>1, RequestUpdates
      <3>2. CASE request'[n].from = e
        BY <1>1, <3>2, EditorNone
      <3> QED
        BY <1>1, <2>2, <3>1, <3>2
    <2>3. Opened'
      BY <1>1, <2>1, EditorNone DEF Opened
    <2>4. ASSUME NEW k \in 1..MaxCrops, choice'[k] # NoChoice
          PROVE  page'[choice'[k].from] # NoPage
      <3>1. CASE choice'[k] = choice[k]
        BY <2>1, <2>4, <3>1, ChoiceFields
      <3>2. CASE choice'[k].from = e
        BY <1>1, <3>2, EditorNone
      <3> QED
        BY <1>1, <2>4, <3>1, <3>2
    <2>5. EditorTypeOK'
      BY <1>1, <2>2, <2>4
    <2> QED
      BY <1>1, <2>3, <2>5 DEF Moves
  <1>2. ASSUME Push(e), page[e] = NoPage, NEW s \in Editor,
               page' = [page EXCEPT ![e] = s],
               UNCHANGED <<file, media, request, choice, counts>>
        PROVE  Moves(e)
    <2>1. /\ stack' \in Seq(Page \cup {Home}) /\ stack' # <<>>
          /\ \A a \in Page : Mounted(a)' => Mounted(a) \/ (a = e /\ page[e] = NoPage)
      BY <1>2, StackSteps
    <2> QED
      BY <1>1, <1>2, <2>1
  <1>3. UNCHANGED stack =>
          /\ stack' \in Seq(Page \cup {Home}) /\ stack' # <<>>
          /\ \A a \in Page : Mounted(a)' => Mounted(a) \/ (a = e /\ page[e] = NoPage)
    BY StackSteps
  <1>4. ASSUME NEW pic \in Picture \cup {NoPicture}, NEW f \in File, Writes(e, f, pic)
        PROVE  file' \in [File -> [pic : Picture \cup {NoPicture}, by : Page \cup {NoPage}]]
    BY <1>4 DEF Writes
  <1>5. CASE OpenWrite(e)
    <2> DEFINE s == [post |-> NoPost, url |-> NoPicture, image |-> NoFile,
                     isLoading |-> FALSE, download |-> "none",
                     wants |-> NoPicture, hasty |-> FALSE]
    <2>1. s \in Editor
      BY DEF Editor
    <2>2. /\ Push(e) /\ page[e] = NoPage /\ page' = [page EXCEPT ![e] = s]
          /\ UNCHANGED <<file, media, request, choice, counts>>
      BY <1>5 DEF OpenWrite
    <2> HIDE DEF s
    <2> QED
      BY <1>2, <2>1, <2>2
  <1>6. ASSUME NEW p \in Post, OpenEdit(e, p)
        PROVE  Moves(e)
    <2> DEFINE s == [post |-> p, url |-> media[p], image |-> NoFile,
                     isLoading |-> media[p] # NoPicture,
                     download |-> IF media[p] = NoPicture THEN "none" ELSE "going",
                     wants |-> media[p], hasty |-> FALSE]
    <2>1. s \in Editor
      BY <1>0 DEF Editor
    <2>2. /\ Push(e) /\ page[e] = NoPage /\ page' = [page EXCEPT ![e] = s]
          /\ UNCHANGED <<file, media, request, choice, counts>>
      BY <1>6 DEF OpenEdit
    <2> HIDE DEF s
    <2> QED
      BY <1>2, <2>1, <2>2
  <1>7. CASE Downloaded(e)
    <2>1. page[e] \in Editor
      BY <1>0, <1>7 DEF Downloaded
    <2>2. PICK s \in Editor : page' = [page EXCEPT ![e] = s]
      BY <1>7, <2>1, EditorUpdates DEF Downloaded
    <2>3. file' \in [File -> [pic : Picture \cup {NoPicture}, by : Page \cup {NoPage}]]
      BY <1>4, <1>7, <2>1, EditorUpdates DEF Downloaded, File
    <2> QED
      BY <1>1, <1>3, <1>7, <2>2, <2>3 DEF Downloaded
  <1>8. CASE DownloadFails(e)
    <2>1. page[e] \in Editor
      BY <1>0, <1>8 DEF DownloadFails
    <2>2. PICK s \in Editor : page' = [page EXCEPT ![e] = s]
      BY <1>8, <2>1, EditorUpdates DEF DownloadFails
    <2>3. faults' \in Nat /\ UNCHANGED <<stack, file, media, request, choice, sends, crops>>
      BY <1>8 DEF DownloadFails
    <2> QED
      BY <1>1, <1>3, <2>2, <2>3
  <1>9. ASSUME NEW k \in 1..MaxCrops, Going(k), choice[k].from = e,
               Compressed(k) \/ CompressionFails(k)
        PROVE  Moves(e)
    <2>1. page[e] \in Editor /\ choice[k] \in Choice
      BY <1>0, <1>9
    <2>2. PICK s \in Editor : page' = [page EXCEPT ![e] = s]
      <3>1. CASE Compressed(k)
        <4>1. page' = [page EXCEPT ![e].image = "temp.jpg"] \/ page' = [page EXCEPT ![e] = @]
          BY <1>9, <3>1 DEF Compressed
        <4> QED
          BY <2>1, <4>1, EditorUpdates
      <3>2. CASE CompressionFails(k)
        <4>1. page' = [page EXCEPT ![e].wants = choice[k].before]
          BY <1>9, <3>2 DEF CompressionFails
        <4> QED
          BY <2>1, <4>1, EditorUpdates, ChoiceFields
      <3> QED
        BY <1>9, <3>1, <3>2
    <2>3. file' \in [File -> [pic : Picture \cup {NoPicture}, by : Page \cup {NoPage}]]
      <3>1. Compressed(k) => Writes(e, "temp.jpg", choice[k].pic)
        BY <1>9 DEF Compressed
      <3> QED
        BY <1>4, <1>9, <2>1, <3>1, ChoiceFields DEF CompressionFails, File
    <2>4. /\ choice' = [choice EXCEPT ![k] = NoChoice]
          /\ sends' \in Nat /\ crops' \in Nat /\ faults' \in Nat
          /\ UNCHANGED <<stack, media, request>>
      BY <1>9 DEF Compressed, CompressionFails
    <2> QED
      BY <1>1, <1>3, <2>2, <2>3, <2>4
  \* A page on top has been opened.
  <1>10. ASSUME NEW pic \in Picture, Crop(e, pic)
         PROVE  Moves(e)
    <2>1. page[e] \in Editor
      BY <1>0, <1>10, TopMounted DEF Crop, Opened
    <2>2. PICK s \in Editor : page' = [page EXCEPT ![e] = s]
      <3>1. (page[e].hasty \/ Compressing(e)) \in BOOLEAN
        BY <2>1, EditorUpdates DEF Compressing
      <3>2. page' = [page EXCEPT ![e] = [page[e] EXCEPT !.wants = pic,
                                 !.hasty = page[e].hasty \/ Compressing(e)]]
        BY <1>10 DEF Crop
      <3> QED
        BY <2>1, <3>1, <3>2, EditorUpdates
    <2>3. /\ choice' \in [1..MaxCrops -> Choice \cup {NoChoice}]
          /\ \A k \in 1..MaxCrops : choice'[k] = choice[k] \/ choice'[k].from = e
      <3> DEFINE q == [from |-> e, pic |-> pic, before |-> page[e].wants]
      <3>1. PICK k \in 1..MaxCrops : choice' = [choice EXCEPT ![k] = q]
        BY <1>10, FreeSlots DEF Crop
      <3>2. q \in Choice /\ q.from = e
        BY <2>1, EditorUpdates DEF Choice
      <3> HIDE DEF q
      <3> QED
        BY <3>1, <3>2
    <2>4. crops' \in Nat /\ UNCHANGED <<stack, file, media, request, sends, faults>>
      BY <1>10 DEF Crop
    <2> QED
      BY <1>1, <1>3, <2>2, <2>3, <2>4
  <1>11. CASE TapSend(e)
    <2>1. page[e] \in Editor
      BY <1>0, <1>11, TopMounted DEF TapSend, Opened
    <2>2. PICK s \in Editor : page' = [page EXCEPT ![e] = s]
      <3>1. (page[e].hasty \/ Busy(e)) \in BOOLEAN
        BY <2>1, EditorUpdates DEF Busy, Compressing
      <3>2. \/ page' = [page EXCEPT ![e] = [page[e] EXCEPT !.isLoading = FALSE,
                                                          !.hasty = TRUE]]
            \/ page' = [page EXCEPT ![e] = [page[e] EXCEPT !.isLoading = TRUE,
                                       !.hasty = page[e].hasty \/ Busy(e)]]
        BY <1>11 DEF TapSend
      <3> QED
        BY <2>1, <3>1, <3>2, EditorUpdates
    <2>3. /\ request' \in [1..MaxSends -> Request \cup {NoRequest}]
          /\ \A n \in 1..MaxSends : request'[n] = request[n] \/ request'[n].from = e
      <3>1. CASE UNCHANGED request
        BY <3>1
      <3>2. CASE ~UNCHANGED request
        <4> DEFINE r == [from |-> e, image |-> page[e].image, phase |-> "open",
                         got |-> NoPicture, by |-> NoPage, wanted |-> page[e].wants]
        <4>1. PICK n \in 1..MaxSends : request' = [request EXCEPT ![n] = r]
          BY <1>11, <3>2, FreeSlots DEF TapSend, Ask
        <4>2. r \in Request /\ r.from = e
          BY <2>1, EditorUpdates DEF Request
        <4> HIDE DEF r
        <4> QED
          BY <4>1, <4>2
      <3> QED
        BY <3>1, <3>2
    <2>4. sends' \in Nat /\ UNCHANGED <<stack, file, media, choice, crops, faults>>
      BY <1>11 DEF TapSend, Ask
    <2> QED
      BY <1>1, <1>3, <2>2, <2>3, <2>4
  <1> QED
    BY <1>5, <1>6, <1>7, <1>8, <1>9, <1>10, <1>11 DEF EditorStep

\* A step of a request changes only that request, the media of posts, the stack
\* and the spinner of its page.
LEMMA RequestTyped ==
  ASSUME EditorTypeOK, Opened, NEW n \in 1..MaxSends, RequestStep(n)
  PROVE  /\ EditorTypeOK' /\ Opened'
         /\ request[n] \in Request
         /\ \/ EditReturns(n) \/ WriteReturns(n)
            \/ request'[n] \in Request
         /\ \/ request'[n] = NoRequest
            \/ request'[n] \in Request /\ request'[n].from = request[n].from
         /\ \A m \in (1..MaxSends) \ {n} : request'[m] = request[m]
         /\ UNCHANGED <<file, choice>>
         /\ \/ UNCHANGED page
            \/ page' = [page EXCEPT ![request[n].from].isLoading = FALSE]
         /\ \A a \in Page : Mounted(a)' => Mounted(a)
  <1> USE DEF EditorTypeOK, Maybe
  <1> DEFINE r == request[n]
             e == r.from
  <1>0. r \in Request /\ e \in Page /\ page[e] \in Editor
    <2>1. r # NoRequest
      BY DEF RequestStep, Read, Store, Fails, EditReturns, WriteReturns
    <2> QED
      BY <2>1, RequestUpdates
  <1>1. PICK q \in Request \cup {NoRequest} :
          /\ request' = [request EXCEPT ![n] = q]
          /\ q # NoRequest => q.from = e
          /\ EditReturns(n) \/ WriteReturns(n) \/ q \in Request
    <2>1. CASE Read(n)
      <3> DEFINE read == IF r.image = NoFile THEN [pic |-> NoPicture, by |-> r.from]
                                             ELSE file[r.image]
                 q == [r EXCEPT !.phase = "sent", !.got = read.pic, !.by = read.by]
      <3>1. read.pic \in Picture \cup {NoPicture} /\ read.by \in Page \cup {NoPage}
        BY <1>0, RequestUpdates
      <3> HIDE DEF read
      <3>2. q \in Request /\ q.from = e
        BY <1>0, <3>1 DEF Request
      <3>3. request' = [request EXCEPT ![n] = q]
        BY <2>1 DEF Read, read
      <3> HIDE DEF q
      <3> QED
        BY <3>2, <3>3
    <2>2. CASE Store(n) \/ Fails(n)
      <3>1. PICK p \in {"done", "failed"} :
              request' = [request EXCEPT ![n] = [r EXCEPT !.phase = p]]
        BY <2>2 DEF Store, Fails
      <3>2. [r EXCEPT !.phase = p] \in Request /\ [r EXCEPT !.phase = p].from = e
        BY <1>0 DEF Request
      <3> QED
        BY <3>1, <3>2
    <2>3. CASE EditReturns(n) \/ WriteReturns(n)
      BY <2>3 DEF EditReturns, WriteReturns
    <2> QED
      BY <2>1, <2>2, <2>3 DEF RequestStep
  <1>2. \/ UNCHANGED page
        \/ page' = [page EXCEPT ![e].isLoading = FALSE]
    BY DEF RequestStep, Read, Store, Fails, EditReturns, WriteReturns
  <1>3. /\ page' \in [Page -> Editor \cup {NoPage}]
        /\ \A a \in Page : page[a] # NoPage => page'[a] # NoPage
    <2>1. [page[e] EXCEPT !.isLoading = FALSE] \in Editor
      BY <1>0, EditorUpdates
    <2> QED
      BY <1>2, <2>1, EditorNone
  <1>4. /\ stack' \in Seq(Page \cup {Home}) /\ stack' # <<>>
        /\ \A a \in Page : Mounted(a)' => Mounted(a)
    <2>1. UNCHANGED stack \/ stack' = <<Home>>
      BY DEF RequestStep, Read, Store, Fails, EditReturns, WriteReturns
    <2> QED
      BY <2>1, StackSteps
  <1>5. media' \in [Post -> Picture \cup {NoPicture}]
    <2>1. CASE Store(n)
      <3>1. r.got \in Picture \cup {NoPicture} /\ page[e].post \in Post \cup {NoPost}
        BY <1>0, RequestUpdates, EditorUpdates
      <3> QED
        BY <2>1, <3>1 DEF Store
    <2>2. CASE ~Store(n)
      BY <2>2 DEF RequestStep, Read, Fails, EditReturns, WriteReturns
    <2> QED
      BY <2>1, <2>2
  <1>6. UNCHANGED <<file, choice, sends, crops>> /\ faults' \in Nat
    BY DEF RequestStep, Read, Store, Fails, EditReturns, WriteReturns
  <1>7. \A m \in 1..MaxSends : request'[m] # NoRequest => page'[request'[m].from] # NoPage
    <2> SUFFICES ASSUME NEW m \in 1..MaxSends, request'[m] # NoRequest
                 PROVE  page'[request'[m].from] # NoPage
      OBVIOUS
    <2>1. CASE m = n
      BY <1>0, <1>1, <1>3, <2>1, EditorNone
    <2>2. CASE m # n
      <3>1. request'[m] = request[m] /\ request[m] # NoRequest
        BY <1>1, <2>2
      <3> QED
        BY <1>3, <3>1, RequestUpdates
    <2> QED
      BY <2>1, <2>2
  <1>8. Opened'
    BY <1>3, <1>4 DEF Opened
  <1>9. EditorTypeOK'
    <2>1. \A k \in 1..MaxCrops : choice'[k] # NoChoice => page'[choice'[k].from] # NoPage
      BY <1>3, <1>6, ChoiceFields
    <2> QED
      BY <1>1, <1>3, <1>4, <1>5, <1>6, <1>7, <2>1
  <1> QED
    BY <1>0, <1>1, <1>2, <1>4, <1>6, <1>8, <1>9

\* A compression belongs to the editor it was begun in.
LEMMA NextSteps ==
  ASSUME EditorTypeOK, [EditorNext]_eVars
  PROVE  \/ \E e \in Page : EditorStep(e)
         \/ \E n \in 1..MaxSends : RequestStep(n)
         \/ BackArrow \/ SystemBack \/ UNCHANGED eVars
  <1>1. ASSUME NEW k \in 1..MaxCrops, Compressed(k) \/ CompressionFails(k)
        PROVE  \E e \in Page : EditorStep(e)
    <2>1. Going(k) /\ choice[k] \in Choice
      BY <1>1 DEF Compressed, CompressionFails, EditorTypeOK, Maybe
    <2> QED
      BY <1>1, <2>1, ChoiceFields DEF EditorStep
  <1> QED
    BY <1>1 DEF EditorNext, EditorStep, RequestStep

LEMMA NextTyped ==
  EditorTypeOK /\ Opened /\ [EditorNext]_eVars => EditorTypeOK' /\ Opened'
  <1> SUFFICES ASSUME EditorTypeOK, Opened, [EditorNext]_eVars
               PROVE  EditorTypeOK' /\ Opened'
    OBVIOUS
  <1>1. ASSUME NEW e \in Page, EditorStep(e) PROVE EditorTypeOK' /\ Opened'
    BY <1>1, EditorTyped DEF Moves
  <1>2. ASSUME NEW n \in 1..MaxSends, RequestStep(n) PROVE EditorTypeOK' /\ Opened'
    BY <1>2, RequestTyped
  <1>3. CASE BackArrow \/ SystemBack \/ UNCHANGED eVars
    <2>1. UNCHANGED <<page, file, media, request, choice, counts>>
      BY <1>3 DEF BackArrow, SystemBack, eVars
    <2>2. /\ stack' \in Seq(Page \cup {Home}) /\ stack' # <<>>
          /\ \A a \in Page : Mounted(a)' => Mounted(a)
      BY <1>3, StackSteps, EditorSentinels DEF BackArrow, eVars
    <2> QED
      BY <2>1, <2>2 DEF EditorTypeOK, Opened
  <1> QED
    BY <1>1, <1>2, <1>3, NextSteps

LEMMA InitOpened == EditorInit => Opened
  BY EditorSentinels DEF EditorInit, Opened, Mounted

\* The stack, the editors, their files and requests keep their types, in
\* whatever order pages, downloads, crops and answers come and go.
THEOREM EditorTypeCorrect == EditorSpec => [](EditorTypeOK /\ Opened)
  BY InitTyped, InitOpened, NextTyped, PTL DEF EditorSpec

-----------------------------------------------------------------------------
\* The requests an editor step leaves alone, and the one a tap sends.
LEMMA EditorRequests ==
  ASSUME EditorTypeOK, Opened, NEW e \in Page, EditorStep(e)
  PROVE  \A n \in 1..MaxSends :
           \/ request'[n] = request[n]
           \/ /\ request[n] = NoRequest /\ TapSend(e)
              /\ request'[n] # NoRequest /\ request'[n].phase = "open"
              /\ request'[n].from = e /\ request'[n].image = page[e].image
              /\ request'[n].wanted = page[e].wants
              /\ \A m \in (1..MaxSends) \ {n} : request'[m] = request[m]
  <1>1. CASE UNCHANGED request
    BY <1>1
  <1>2. CASE ~UNCHANGED request
    <2> DEFINE r == [from |-> e, image |-> page[e].image, phase |-> "open",
                     got |-> NoPicture, by |-> NoPage, wanted |-> page[e].wants]
    <2>1. TapSend(e)
      BY <1>2 DEF EditorStep, OpenWrite, OpenEdit, Downloaded, DownloadFails,
         Compressed, CompressionFails, Crop
    <2>2. PICK n \in 1..MaxSends : request[n] = NoRequest
                                   /\ request' = [request EXCEPT ![n] = r]
      BY <1>2, <2>1, FreeSlots DEF TapSend, Ask
    <2>3. page[e] \in Editor
      BY <2>1, TopMounted DEF TapSend, Opened, EditorTypeOK, Maybe
    <2>4. /\ r \in Request /\ r.from = e /\ r.phase = "open"
          /\ r.image = page[e].image /\ r.wanted = page[e].wants
      BY <2>3, EditorUpdates DEF Request, Maybe
    <2> HIDE DEF r
    <2>5. r # NoRequest
      BY <2>4, EditorNone
    <2>6. request'[n] = r /\ \A m \in (1..MaxSends) \ {n} : request'[m] = request[m]
      BY <2>2 DEF EditorTypeOK
    <2> QED
      BY <2>1, <2>2, <2>4, <2>5, <2>6
  <1> QED
    BY <1>1, <1>2

LEMMA NextSpinner ==
  EditorTypeOK /\ Opened /\ SpinnerHasCause /\ [EditorNext]_eVars => SpinnerHasCause'
  <1> SUFFICES ASSUME EditorTypeOK, Opened, SpinnerHasCause, [EditorNext]_eVars
               PROVE  SpinnerHasCause'
    OBVIOUS
  <1> DEFINE Waits(a) == \/ page[a].download \in {"going", "failed"}
                         \/ \E n \in 1..MaxSends : /\ request[n] # NoRequest
                                                   /\ request[n].from = a
  <1>0. \A a \in Page : page[a] # NoPage /\ Mounted(a) /\ page[a].isLoading => Waits(a)
    BY DEF SpinnerHasCause
  <1>1. ASSUME NEW e \in Page, EditorStep(e),
               NEW a \in Page, page'[a] # NoPage, Mounted(a)', page'[a].isLoading
        PROVE  Waits(a)'
    <2>1. Moves(e)
      BY <1>1, EditorTyped
    <2>2. \A n \in 1..MaxSends : request[n] # NoRequest => request'[n] = request[n]
      BY <1>1, EditorRequests
    \* Nothing has been taken from a.
    <2>3. ASSUME page[a] # NoPage, Mounted(a), page[a].isLoading,
                 page'[a].download = page[a].download
          PROVE  Waits(a)'
      BY <1>0, <2>2, <2>3
    <2>4. CASE a # e
      BY <1>1, <2>1, <2>3, <2>4 DEF Moves
    <2>5. CASE a = e
      <3>0. page[e] # NoPage => page[e] \in Editor /\ Mounted(e)
        BY <1>1, <2>1, <2>5 DEF Moves, EditorTypeOK, Maybe
      <3>1. CASE OpenWrite(e)
        BY <1>1, <2>5, <3>1 DEF OpenWrite, EditorTypeOK
      <3>2. CASE \E p \in Post : OpenEdit(e, p)
        <4>1. PICK p \in Post : OpenEdit(e, p)
          BY <3>2
        <4>2. page'[e] = [post |-> p, url |-> media[p], image |-> NoFile,
                isLoading |-> media[p] # NoPicture,
                download |-> IF media[p] = NoPicture THEN "none" ELSE "going",
                wants |-> media[p], hasty |-> FALSE]
          BY <4>1 DEF OpenEdit, EditorTypeOK
        <4>3. media[p] # NoPicture
          <5>1. page'[e].isLoading = (media[p] # NoPicture)
            BY <4>2
          <5>2. media[p] = NoPicture => page'[e].isLoading = FALSE
            BY <5>1
          <5> QED
            BY <1>1, <2>5, <5>2
        <4>4. page'[e].download = "going"
          BY <4>2, <4>3
        <4> QED
          BY <2>5, <4>4
      <3>3. CASE Downloaded(e)
        <4>1. page'[e].isLoading = FALSE
          BY <3>0, <3>3 DEF Downloaded, EditorTypeOK, Editor
        <4> QED
          BY <1>1, <2>5, <4>1
      <3>4. CASE DownloadFails(e)
        <4>1. page'[e].download = "failed"
          BY <3>0, <3>4 DEF DownloadFails, EditorTypeOK, Editor
        <4> QED
          BY <2>5, <4>1
      <3>5. CASE \/ \E pic \in Picture : Crop(e, pic)
                 \/ \E k \in 1..MaxCrops : /\ Going(k) /\ choice[k].from = e
                                           /\ Compressed(k) \/ CompressionFails(k)
        <4> DEFINE Same == /\ page'[e].isLoading = page[e].isLoading
                           /\ page'[e].download = page[e].download
        <4>1. page[e] # NoPage
          <5>1. ASSUME NEW pic \in Picture, Crop(e, pic) PROVE page[e] # NoPage
            BY <5>1, TopMounted DEF Crop, Opened
          <5>2. ASSUME NEW k \in 1..MaxCrops, Going(k), choice[k].from = e
                PROVE  page[e] # NoPage
            BY <5>2 DEF EditorTypeOK
          <5> QED
            BY <3>5, <5>1, <5>2
        <4>2. Same
          <5>1. page[e] \in Editor
            BY <3>0, <4>1
          <5>2. ASSUME NEW k \in 1..MaxCrops, choice[k].from = e, Compressed(k)
                PROVE  Same
            BY <5>1, <5>2 DEF Compressed, EditorTypeOK, Editor
          <5>3. ASSUME NEW k \in 1..MaxCrops, choice[k].from = e, CompressionFails(k)
                PROVE  Same
            BY <5>1, <5>3 DEF CompressionFails, EditorTypeOK, Editor
          <5>4. ASSUME NEW pic \in Picture, Crop(e, pic)
                PROVE  Same
            BY <5>1, <5>4 DEF Crop, EditorTypeOK, Editor
          <5> QED
            BY <3>5, <5>2, <5>3, <5>4
        <4> QED
          BY <1>1, <2>3, <2>5, <3>0, <4>1, <4>2
      <3>6. CASE TapSend(e)
        <4>1. page[e] \in Editor
          BY <3>6, TopMounted DEF TapSend, Opened, EditorTypeOK, Maybe
        <4>2. CASE page[e].url # NoPicture /\ page[e].image = NoFile
          <5>1. page'[e].isLoading = FALSE
            BY <3>6, <4>1, <4>2 DEF TapSend, EditorTypeOK, Editor
          <5> QED
            BY <1>1, <2>5, <5>1
        <4>3. CASE ~(page[e].url # NoPicture /\ page[e].image = NoFile)
          <5>1. PICK n \in 1..MaxSends :
                  request[n] = NoRequest /\
                  request' = [request EXCEPT ![n] =
                    [from |-> e, image |-> page[e].image, phase |-> "open",
                     got |-> NoPicture, by |-> NoPage, wanted |-> page[e].wants]]
            BY <3>6, <4>3, FreeSlots DEF TapSend, Ask
          <5>2. [from |-> e, image |-> page[e].image, phase |-> "open",
                 got |-> NoPicture, by |-> NoPage, wanted |-> page[e].wants] \in Request
            BY <4>1, EditorUpdates DEF Request, Maybe
          <5>3. request'[n] # NoRequest /\ request'[n].from = e
            BY <5>1, <5>2, EditorNone DEF EditorTypeOK
          <5> QED
            BY <2>5, <5>3
        <4> QED
          BY <4>2, <4>3
      <3> QED
        BY <1>1, <3>1, <3>2, <3>3, <3>4, <3>5, <3>6 DEF EditorStep
    <2> QED
      BY <2>4, <2>5
  <1>2. ASSUME NEW n \in 1..MaxSends, RequestStep(n),
               NEW a \in Page, page'[a] # NoPage, Mounted(a)', page'[a].isLoading
        PROVE  Waits(a)'
    <2> DEFINE e == request[n].from
    <2>1. /\ request[n] \in Request /\ e \in Page /\ page[e] \in Editor
          /\ request'[n] # NoRequest => request'[n].from = e
          /\ \A m \in (1..MaxSends) \ {n} : request'[m] = request[m]
          /\ UNCHANGED page \/ page' = [page EXCEPT ![e].isLoading = FALSE]
          /\ Mounted(a)
      <3>1. request[n] \in Request /\ e \in Page
        BY <1>2, RequestTyped, RequestUpdates
      <3>2. page[e] \in Editor
        BY <3>1, EditorNone DEF EditorTypeOK, Maybe
      <3> QED
        BY <1>2, <3>1, <3>2, RequestTyped
    <2>2. UNCHANGED page \/ a # e
      BY <1>2, <2>1 DEF EditorTypeOK, Editor
    <2>3. page'[a] = page[a]
      BY <2>1, <2>2 DEF EditorTypeOK
    <2>4. page[a] # NoPage /\ page[a].isLoading
      BY <1>2, <2>3
    <2>5. CASE page[a].download \in {"going", "failed"}
      BY <2>3, <2>5
    <2>6. CASE page[a].download \notin {"going", "failed"}
      <3>1. PICK m \in 1..MaxSends : request[m] # NoRequest /\ request[m].from = a
        BY <1>0, <2>1, <2>4, <2>6
      <3>2. CASE m # n
        BY <2>1, <3>1, <3>2
      <3>3. CASE m = n
        <4>1. ~EditReturns(n) /\ ~WriteReturns(n)
          <5>1. stack' # <<Home>>
            BY <1>2, StackSteps
          <5>2. ~WriteReturns(n)
            BY <2>1, <3>1, <3>3, <5>1 DEF WriteReturns
          <5>3. ~EditReturns(n)
            <6>1. EditReturns(n) => page' = [page EXCEPT ![e].isLoading = FALSE]
              BY <2>1, <3>1, <3>3, <5>1 DEF EditReturns
            <6>2. page' = [page EXCEPT ![e].isLoading = FALSE] => page'[a].isLoading = FALSE
              BY <2>1, <3>1, <3>3 DEF EditorTypeOK, Editor
            <6> QED
              BY <1>2, <6>1, <6>2
          <5> QED
            BY <5>2, <5>3
        <4>2. request'[n] # NoRequest
          BY <1>2, <4>1, RequestTyped, EditorNone
        <4> QED
          BY <2>1, <3>1, <3>3, <4>2
      <3> QED
        BY <3>2, <3>3
    <2> QED
      BY <2>5, <2>6
  <1>3. CASE BackArrow \/ SystemBack \/ UNCHANGED eVars
    <2>1. UNCHANGED <<page, request>>
      BY <1>3 DEF BackArrow, SystemBack, eVars
    <2>2. \A a \in Page : Mounted(a)' => Mounted(a)
      BY <1>3, StackSteps, EditorSentinels DEF BackArrow, eVars
    <2> QED
      BY <2>1, <2>2 DEF SpinnerHasCause
  <1>4. ASSUME NEW a \in Page, page'[a] # NoPage, Mounted(a)', page'[a].isLoading
        PROVE  Waits(a)'
    <2>1. CASE \E e \in Page : EditorStep(e)
      BY <1>1, <1>4, <2>1
    <2>2. CASE \E n \in 1..MaxSends : RequestStep(n)
      BY <1>2, <1>4, <2>2
    <2>3. CASE BackArrow \/ SystemBack \/ UNCHANGED eVars
      BY <1>3, <1>4, <2>3 DEF SpinnerHasCause
    <2> QED
      BY <2>1, <2>2, <2>3, NextSteps
  <1> QED
    BY <1>4 DEF SpinnerHasCause

\* A page that spins waits for its download or for an answer of its own, in
\* whatever order both come, or its download has failed.
THEOREM SpinsForACause == EditorSpec => []SpinnerHasCause
  <1>1. EditorInit => SpinnerHasCause
    BY DEF EditorInit, SpinnerHasCause
  <1> QED
    BY <1>1, NextSpinner, EditorTypeCorrect, PTL DEF EditorSpec

-----------------------------------------------------------------------------
(***************************************************************************)
(* Why a page that nobody tapped while it was busy sends what its user     *)
(* wants: it has at most one request out, and while it has one, or waits   *)
(* for its download, nothing else of it can touch a file.                  *)
(***************************************************************************)
Calm(e) == page[e] # NoPage /\ ~page[e].hasty

Out(n, e) == request[n] # NoRequest /\ request[n].from = e

Choosing(k, e) == Going(k) /\ choice[k].from = e

\* The file a page holds is the picture w, unless another editor has written it.
Good(e, f, w) ==
  IF f = NoFile THEN w = NoPicture
                ELSE file[f].by = e => file[f].pic = w

\* An edit of a post with a picture has a file to send.
HasFile(e) == Mounted(e) /\ (page[e].url = NoPicture \/ page[e].image # NoFile)

Downloading ==
  \A e \in Page : Calm(e) /\ page[e].download = "going" =>
    /\ page[e].isLoading /\ ~Compressing(e)
    /\ page[e].image = NoFile /\ page[e].wants = page[e].url

Waiting ==
  \A n \in 1..MaxSends, e \in Page : Calm(e) /\ Out(n, e) =>
    /\ page[e].isLoading /\ ~Compressing(e) /\ page[e].download # "going"
    /\ \A m \in 1..MaxSends : Out(m, e) => m = n

\* While the picture the user chose is compressed, the page still has the one it
\* goes back to if that fails.
Chosen ==
  \A k \in 1..MaxCrops, e \in Page : Calm(e) /\ Choosing(k, e) =>
    /\ page[e].wants = choice[k].pic /\ page[e].download # "going"
    /\ \A j \in 1..MaxCrops : Choosing(j, e) => j = k
    /\ HasFile(e) => Good(e, page[e].image, choice[k].before)

Holds(e) ==
  /\ Calm(e) /\ ~Compressing(e) /\ page[e].download # "going"
  /\ HasFile(e)

Holding == \A e \in Page : Holds(e) => Good(e, page[e].image, page[e].wants)

Reading ==
  \A n \in 1..MaxSends :
    Is(n, {"open"}) /\ ~page[request[n].from].hasty =>
      Good(request[n].from, request[n].image, request[n].wanted)

SendInv ==
  /\ EditorTypeOK /\ Downloading /\ Waiting /\ Chosen /\ Holding /\ Reading
  /\ SendsWhatIsWanted

\* The compressions an editor step touches are its own.
LEMMA EditorChoices ==
  ASSUME EditorTypeOK, Opened, NEW e \in Page, EditorStep(e)
  PROVE  \A k \in 1..MaxCrops, a \in Page \ {e} :
           /\ Choosing(k, a)' <=> Choosing(k, a)
           /\ Choosing(k, a) => choice'[k] = choice[k]
  <1>1. CASE UNCHANGED choice
    BY <1>1 DEF Choosing
  <1>2. ASSUME NEW j \in 1..MaxCrops, Going(j), choice[j].from = e,
               choice' = [choice EXCEPT ![j] = NoChoice]
        PROVE  \A k \in 1..MaxCrops, a \in Page \ {e} :
                 /\ Choosing(k, a)' <=> Choosing(k, a)
                 /\ Choosing(k, a) => choice'[k] = choice[k]
    BY <1>2 DEF Choosing, EditorTypeOK
  <1>3. ASSUME NEW pic \in Picture, Crop(e, pic)
        PROVE  \A k \in 1..MaxCrops, a \in Page \ {e} :
                 /\ Choosing(k, a)' <=> Choosing(k, a)
                 /\ Choosing(k, a) => choice'[k] = choice[k]
    <2>1. PICK j \in 1..MaxCrops :
            /\ choice[j] = NoChoice
            /\ choice' = [choice EXCEPT ![j] =
                 [from |-> e, pic |-> pic, before |-> page[e].wants]]
      BY <1>3, FreeSlots DEF Crop
    <2>2. choice'[j].from = e /\ \A k \in (1..MaxCrops) \ {j} : choice'[k] = choice[k]
      BY <2>1 DEF EditorTypeOK
    <2> QED
      BY <2>1, <2>2 DEF Choosing
  <1> QED
    BY <1>1, <1>2, <1>3 DEF EditorStep, OpenWrite, OpenEdit, Downloaded,
       DownloadFails, TapSend, Compressed, CompressionFails

\* What the step of an editor leaves behind for that editor.
Left(e) ==
  /\ \A f \in File : file'[f] = file[f] \/ file'[f].by = e
  /\ ~page'[e].hasty => \A n \in 1..MaxSends : ~Out(n, e)
  /\ ~page'[e].hasty /\ page'[e].download = "going" =>
       /\ page'[e].isLoading /\ ~Compressing(e)'
       /\ page'[e].image = NoFile /\ page'[e].wants = page'[e].url
  /\ \A k \in 1..MaxCrops : ~page'[e].hasty /\ Choosing(k, e)' =>
       /\ page'[e].wants = choice'[k].pic /\ page'[e].download # "going"
       /\ \A j \in 1..MaxCrops : Choosing(j, e)' => j = k
       /\ HasFile(e)' => Good(e, page[e].image, choice[k].before)'
  /\ Holds(e)' => Good(e, page[e].image, page[e].wants)'
  /\ ~page'[e].hasty /\ TapSend(e) =>
       /\ page'[e].isLoading /\ ~Compressing(e)' /\ page'[e].download # "going"
       /\ UNCHANGED file
       /\ UNCHANGED request \/ Good(e, page[e].image, page[e].wants)

\* The steps of an editor other than a tap on Edit or Post.
LEMMA OtherSteps ==
  ASSUME EditorTypeOK, NEW e \in Page, TapSend(e)
  PROVE  UNCHANGED <<stack, file, media, choice, crops, faults>>
  BY DEF TapSend

LEMMA EditorSend ==
  ASSUME SendInv, Opened, NEW e \in Page, EditorStep(e)
  PROVE  Left(e)
  <1>0. EditorTypeOK /\ Moves(e) /\ page'[e] \in Editor
    BY EditorTyped DEF SendInv, Moves
  <1>1. page[e] # NoPage => page[e] \in Editor
    BY <1>0 DEF EditorTypeOK, Maybe
  <1>2. page[e] = NoPage => /\ \A n \in 1..MaxSends : ~Out(n, e)
                            /\ \A k \in 1..MaxCrops : ~Choosing(k, e)
    BY <1>0 DEF EditorTypeOK, Out, Choosing
  <1>3. page[e] # NoPage /\ ~page[e].hasty =>
          /\ page[e].download = "going" =>
               /\ page[e].isLoading /\ ~Compressing(e)
               /\ page[e].image = NoFile /\ page[e].wants = page[e].url
          /\ \A n \in 1..MaxSends : Out(n, e) =>
               page[e].isLoading /\ ~Compressing(e) /\ page[e].download # "going"
    BY DEF SendInv, Downloading, Waiting, Calm
  <1>4. Compressing(e) <=> \E k \in 1..MaxCrops : Choosing(k, e)
    BY DEF Compressing, Choosing
  <1>5. Compressing(e)' <=> \E k \in 1..MaxCrops : Choosing(k, e)'
    BY DEF Compressing, Choosing
  <1>6. UNCHANGED choice => /\ \A k \in 1..MaxCrops : Choosing(k, e)' <=> Choosing(k, e)
                            /\ Compressing(e)' <=> Compressing(e)
    BY DEF Compressing, Choosing
  <1>7. CASE OpenWrite(e)
    <2>1. page'[e] = [post |-> NoPost, url |-> NoPicture, image |-> NoFile,
                      isLoading |-> FALSE, download |-> "none",
                      wants |-> NoPicture, hasty |-> FALSE]
      BY <1>0, <1>7 DEF OpenWrite, EditorTypeOK
    <2>2. page[e] = NoPage /\ UNCHANGED <<file, choice>>
      BY <1>7 DEF OpenWrite
    <2>3. ~TapSend(e)
      BY <1>0, <2>2, TopMounted DEF TapSend, Opened
    <2>4. \A k \in 1..MaxCrops : ~Choosing(k, e)'
      BY <1>2, <1>6, <2>2
    <2> QED
      BY <1>2, <2>1, <2>2, <2>3, <2>4 DEF Left, Good
  <1>8. CASE \E p \in Post : OpenEdit(e, p)
    <2>0. PICK p \in Post : OpenEdit(e, p)
      BY <1>8
    <2>1. page'[e] = [post |-> p, url |-> media[p], image |-> NoFile,
            isLoading |-> media[p] # NoPicture,
            download |-> IF media[p] = NoPicture THEN "none" ELSE "going",
            wants |-> media[p], hasty |-> FALSE]
      BY <1>0, <2>0 DEF OpenEdit, EditorTypeOK
    <2>2. page[e] = NoPage /\ UNCHANGED <<file, choice>>
      BY <2>0 DEF OpenEdit
    <2>3. ~TapSend(e)
      BY <1>0, <2>2, TopMounted DEF TapSend, Opened
    <2>4. /\ page'[e].image = NoFile /\ page'[e].wants = page'[e].url
          /\ page'[e].download = "going" => media[p] # NoPicture
      BY <2>1
    <2>5. page'[e].download = "going" => page'[e].isLoading
      <3>1. CASE media[p] # NoPicture
        <4>0. page'[e].isLoading = (media[p] # NoPicture)
          BY <2>1
        <4>1. page'[e].isLoading = TRUE
          BY <3>1, <4>0
        <4> QED
          BY <4>1
      <3> QED
        BY <2>4, <3>1
    <2>6. \A k \in 1..MaxCrops : ~Choosing(k, e)'
      BY <1>2, <1>6, <2>2
    <2>7. ~Compressing(e)'
      BY <1>5, <2>6
    <2>8. Holds(e)' => Good(e, page[e].image, page[e].wants)'
      BY <2>4 DEF Holds, HasFile, Good
    <2> QED
      BY <1>2, <2>2, <2>3, <2>4, <2>5, <2>6, <2>7, <2>8 DEF Left
  <1>9. CASE Downloaded(e)
    <2>1. page[e] \in Editor /\ page[e].download = "going" /\ page[e] # NoPage
      BY <1>1, <1>9 DEF Downloaded
    <2>2. /\ page'[e].wants = page[e].wants
          /\ page'[e].hasty = page[e].hasty /\ page'[e].download = "none"
      BY <1>0, <1>9, <2>1 DEF Downloaded, EditorTypeOK, Editor
    <2>3. Mounted(e)' => page'[e].image = "profile_image.jpg"
      <3>1. UNCHANGED stack
        BY <1>9 DEF Downloaded
      <3>2. Mounted(e) => page'[e].image = "profile_image.jpg"
        BY <1>0, <1>9, <2>1 DEF Downloaded, EditorTypeOK, Editor
      <3> QED
        BY <3>1, <3>2 DEF Mounted
    <2>4. /\ file'["profile_image.jpg"] = [pic |-> page[e].url, by |-> e]
          /\ \A f \in File \ {"profile_image.jpg"} : file'[f] = file[f]
      BY <1>0, <1>9 DEF Downloaded, Writes, EditorTypeOK, File
    <2>5. ~page[e].hasty => /\ page[e].wants = page[e].url /\ ~Compressing(e)
                            /\ \A n \in 1..MaxSends : ~Out(n, e)
      BY <1>3, <2>1
    <2>6. \A f \in File : file'[f] = file[f] \/ file'[f].by = e
      BY <2>4
    <2>7. Holds(e)' => Good(e, page[e].image, page[e].wants)'
      BY <2>2, <2>3, <2>4, <2>5, EditorSentinels DEF Holds, HasFile, Good, Calm, File
    <2>8. UNCHANGED choice
      BY <1>9 DEF Downloaded
    <2>9. ~TapSend(e)
      <3>1. TapSend(e) => page'[e].download = page[e].download
        BY <1>0, <2>1 DEF TapSend, EditorTypeOK, Editor
      <3> QED
        BY <2>1, <2>2, <3>1
    <2>10. ~page'[e].hasty => \A k \in 1..MaxCrops : ~Choosing(k, e)'
      BY <1>4, <1>6, <2>2, <2>5, <2>8
    <2> QED
      BY <2>2, <2>5, <2>6, <2>7, <2>9, <2>10 DEF Left
  <1>10. CASE DownloadFails(e)
    <2>1. page[e] \in Editor /\ page[e].download = "going" /\ page[e] # NoPage
      BY <1>1, <1>10 DEF DownloadFails
    <2>2. /\ page'[e].wants = page[e].wants
          /\ page'[e].hasty = page[e].hasty /\ page'[e].download = "failed"
          /\ page'[e].image = page[e].image /\ page'[e].url = page[e].url
      BY <1>0, <1>10, <2>1 DEF DownloadFails, EditorTypeOK, Editor
    <2>3. UNCHANGED <<file, choice>>
      BY <1>10 DEF DownloadFails
    <2>4. Holds(e)' => Good(e, page[e].image, page[e].wants)'
      BY <1>3, <2>1, <2>2 DEF Holds, HasFile, Good, Calm
    <2>5. ~TapSend(e)
      BY <1>0, <2>1, <2>2 DEF TapSend, EditorTypeOK, Editor
    <2>6. ~page[e].hasty => ~Compressing(e) /\ \A n \in 1..MaxSends : ~Out(n, e)
      BY <1>3, <2>1
    <2>7. ~page'[e].hasty => \A k \in 1..MaxCrops : ~Choosing(k, e)'
      BY <1>4, <1>6, <2>2, <2>3, <2>6
    <2> QED
      BY <2>1, <2>2, <2>3, <2>4, <2>5, <2>6, <2>7 DEF Left
  <1>11. ASSUME NEW k \in 1..MaxCrops, Choosing(k, e),
                Compressed(k) \/ CompressionFails(k)
         PROVE  Left(e)
    <2>1. page[e] # NoPage /\ page[e] \in Editor /\ choice[k].from = e
      BY <1>1, <1>2, <1>11 DEF Choosing
    <2>2. choice' = [choice EXCEPT ![k] = NoChoice] /\ UNCHANGED <<stack, request>>
      BY <1>11 DEF Compressed, CompressionFails
    <2>3. /\ page'[e].hasty = page[e].hasty /\ page'[e].download = page[e].download
          /\ page'[e].isLoading = page[e].isLoading /\ page'[e].url = page[e].url
      <3>1. CASE Compressed(k)
        BY <1>0, <2>1, <3>1 DEF Compressed, EditorTypeOK, Editor
      <3>2. CASE CompressionFails(k)
        BY <1>0, <2>1, <3>2 DEF CompressionFails, EditorTypeOK, Editor
      <3> QED
        BY <1>11, <3>1, <3>2
    \* For a user who waited this was the only compression of the page.
    <2>4. ~page[e].hasty =>
            /\ page[e].wants = choice[k].pic /\ page[e].download # "going"
            /\ \A j \in 1..MaxCrops : Choosing(j, e) => j = k
            /\ HasFile(e) => Good(e, page[e].image, choice[k].before)
            /\ \A n \in 1..MaxSends : ~Out(n, e)
      <3>1. Compressing(e)
        BY <1>4, <1>11
      <3> QED
        BY <1>3, <1>11, <2>1, <3>1 DEF SendInv, Chosen, Calm
    <2>5. ~page'[e].hasty => \A j \in 1..MaxCrops : ~Choosing(j, e)'
      <3>1. choice'[k] = NoChoice /\ \A j \in (1..MaxCrops) \ {k} : choice'[j] = choice[j]
        BY <1>0, <2>2 DEF EditorTypeOK
      <3> QED
        BY <2>3, <2>4, <3>1 DEF Choosing
    <2>6. ~TapSend(e)
      <3>1. TapSend(e) => UNCHANGED choice
        BY <1>0, OtherSteps
      <3>2. choice'[k] = NoChoice /\ choice[k] # NoChoice
        BY <1>0, <1>11, <2>2 DEF EditorTypeOK, Choosing
      <3> QED
        BY <3>1, <3>2
    <2>7. \A f \in File : file'[f] = file[f] \/ file'[f].by = e
      <3>1. CASE Compressed(k)
        BY <1>0, <2>1, <3>1 DEF Compressed, Writes, EditorTypeOK, File
      <3>2. CASE CompressionFails(k)
        BY <3>2 DEF CompressionFails
      <3> QED
        BY <1>11, <3>1, <3>2
    <2>8. Holds(e)' => Good(e, page[e].image, page[e].wants)'
      <3>1. CASE Compressed(k)
        <4>1. file'["temp.jpg"] = [pic |-> choice[k].pic, by |-> e]
          BY <1>0, <2>1, <3>1 DEF Compressed, Writes, EditorTypeOK, File
        <4>2. page'[e].wants = page[e].wants
          BY <1>0, <2>1, <3>1 DEF Compressed, EditorTypeOK, Editor
        <4>3. Mounted(e)' => page'[e].image = "temp.jpg"
          <5>1. Mounted(e) => page'[e].image = "temp.jpg"
            BY <1>0, <2>1, <3>1 DEF Compressed, EditorTypeOK, Editor
          <5> QED
            BY <2>2, <5>1 DEF Mounted
        <4> QED
          BY <2>3, <2>4, <4>1, <4>2, <4>3, EditorSentinels
          DEF Holds, HasFile, Good, Calm, File
      <3>2. CASE CompressionFails(k)
        <4>1. page'[e].wants = choice[k].before /\ page'[e].image = page[e].image
          BY <1>0, <2>1, <3>2 DEF CompressionFails, EditorTypeOK, Editor
        <4>2. UNCHANGED file
          BY <3>2 DEF CompressionFails
        <4>3. HasFile(e)' => HasFile(e)
          BY <2>2, <2>3, <4>1 DEF HasFile, Mounted
        <4> QED
          BY <2>3, <2>4, <4>1, <4>2, <4>3 DEF Holds, Good, Calm
      <3> QED
        BY <1>11, <3>1, <3>2
    <2> QED
      BY <2>3, <2>4, <2>5, <2>6, <2>7, <2>8 DEF Left
  <1>12. CASE \E pic \in Picture : Crop(e, pic)
    <2>0. PICK pic \in Picture : Crop(e, pic)
      BY <1>12
    <2>1. page[e] \in Editor /\ page[e] # NoPage /\ ~page[e].isLoading
      BY <1>0, <1>1, <2>0, TopMounted DEF Crop, Opened
    <2>2. /\ page'[e].wants = pic /\ page'[e].download = page[e].download
          /\ page'[e].image = page[e].image /\ page'[e].url = page[e].url
          /\ page'[e].hasty = (page[e].hasty \/ Compressing(e))
      BY <1>0, <2>0, <2>1 DEF Crop, EditorTypeOK, Editor
    <2>3. UNCHANGED <<stack, file>>
      BY <2>0 DEF Crop
    <2>4. PICK k \in 1..MaxCrops :
            /\ choice'[k] = [from |-> e, pic |-> pic, before |-> page[e].wants]
            /\ choice[k] = NoChoice
            /\ \A j \in (1..MaxCrops) \ {k} : choice'[j] = choice[j]
      BY <1>0, <2>0, FreeSlots DEF Crop, EditorTypeOK
    <2>5. choice'[k] # NoChoice
      <3>1. page[e].wants \in Picture \cup {NoPicture}
        BY <2>1, EditorUpdates
      <3>2. choice'[k] \in Choice
        BY <2>4, <3>1 DEF Choice, Maybe
      <3> QED
        BY <3>2, EditorNone
    <2>6. ~TapSend(e)
      BY <1>0, <2>4, <2>5, OtherSteps
    <2>7. CASE page[e].hasty \/ Compressing(e)
      <3>1. page'[e].hasty = TRUE
        BY <2>2, <2>7
      <3> QED
        BY <2>3, <2>6, <3>1 DEF Left, Holds, Calm
    <2>8. CASE ~(page[e].hasty \/ Compressing(e))
      <3>1. page[e].download # "going" /\ \A n \in 1..MaxSends : ~Out(n, e)
        BY <1>3, <2>1, <2>8
      <3>2. \A j \in 1..MaxCrops : Choosing(j, e)' => j = k
        BY <1>4, <2>4, <2>8 DEF Choosing
      <3>3. Choosing(k, e)' /\ choice'[k].pic = pic /\ choice'[k].before = page[e].wants
        BY <2>4, <2>5 DEF Choosing
      <3>4. HasFile(e)' => Good(e, page[e].image, page[e].wants)
        <4>1. HasFile(e)' => HasFile(e)
          BY <2>2, <2>3 DEF HasFile, Mounted
        <4> QED
          BY <2>1, <2>8, <3>1, <4>1 DEF SendInv, Holding, Holds, Calm
      <3>5. ~Holds(e)'
        BY <1>5, <3>3 DEF Holds
      <3> QED
        BY <2>2, <2>3, <2>6, <3>1, <3>2, <3>3, <3>4, <3>5 DEF Left, Good
    <2> QED
      BY <2>7, <2>8
  <1>13. CASE TapSend(e)
    <2>1. /\ page[e] \in Editor /\ page[e] # NoPage /\ Mounted(e)
          /\ UNCHANGED <<stack, file, choice>>
      BY <1>0, <1>1, <1>13, TopMounted DEF TapSend, Opened
    <2>2. /\ page'[e].wants = page[e].wants
          /\ page'[e].download = page[e].download
          /\ page'[e].image = page[e].image /\ page'[e].url = page[e].url
      BY <1>0, <1>13, <2>1 DEF TapSend, EditorTypeOK, Editor
    <2>3. CASE page[e].url # NoPicture /\ page[e].image = NoFile
      <3>1. page'[e].hasty = TRUE
        BY <1>0, <1>13, <2>1, <2>3 DEF TapSend, EditorTypeOK, Editor
      <3> QED
        BY <2>1, <3>1 DEF Left, Holds, Calm
    <2>4. CASE ~(page[e].url # NoPicture /\ page[e].image = NoFile)
      <3>1. page'[e].isLoading = TRUE
        BY <1>0, <1>13, <2>1, <2>4 DEF TapSend, EditorTypeOK, Editor
      <3>2. page'[e].hasty = (page[e].hasty \/ Busy(e))
        BY <1>0, <1>13, <2>1, <2>4 DEF TapSend, EditorTypeOK, Editor
      <3>3. CASE page[e].hasty \/ Busy(e)
        <4>1. page'[e].hasty = TRUE
          BY <3>2, <3>3
        <4> QED
          BY <2>1, <4>1 DEF Left, Holds, Calm
      <3>4. CASE ~(page[e].hasty \/ Busy(e))
        <4>1. ~page[e].isLoading /\ ~Compressing(e) /\ ~page[e].hasty
          BY <3>4 DEF Busy
        <4>2. page[e].download # "going" /\ \A n \in 1..MaxSends : ~Out(n, e)
          BY <1>3, <2>1, <4>1
        <4>3. Good(e, page[e].image, page[e].wants)
          BY <2>1, <2>4, <4>1, <4>2 DEF SendInv, Holding, Holds, HasFile, Calm
        <4>4. Good(e, page[e].image, page[e].wants)'
          BY <2>1, <2>2, <4>3 DEF Good
        <4>5. ~Compressing(e)' /\ \A k \in 1..MaxCrops : ~Choosing(k, e)'
          BY <1>4, <1>6, <2>1, <4>1
        <4> QED
          BY <2>1, <2>2, <3>1, <4>2, <4>3, <4>4, <4>5 DEF Left
      <3> QED
        BY <3>3, <3>4
    <2> QED
      BY <2>3, <2>4
  <1> QED
    BY <1>7, <1>8, <1>9, <1>10, <1>11, <1>12, <1>13 DEF EditorStep, Choosing

LEMMA NextSend ==
  Opened /\ SendInv /\ [EditorNext]_eVars => SendInv'
  <1> SUFFICES ASSUME Opened, SendInv, [EditorNext]_eVars
               PROVE  SendInv'
    OBVIOUS
  <1>0. EditorTypeOK /\ EditorTypeOK' /\ Opened'
    BY NextTyped DEF SendInv
  <1>a. /\ \A n \in 1..MaxSends : request[n] # NoRequest => request[n].from \in Page
        /\ \A a \in Page : page[a] # NoPage => page[a].image \in File \cup {NoFile}
    <2>1. /\ \A n \in 1..MaxSends : request[n] # NoRequest => request[n] \in Request
          /\ \A a \in Page : page[a] # NoPage => page[a] \in Editor
      BY <1>0 DEF EditorTypeOK, Maybe
    <2> QED
      BY <2>1, RequestUpdates, EditorUpdates
  <1>c. \A n \in 1..MaxSends : request'[n] # NoRequest =>
          /\ request'[n].from \in Page /\ page'[request'[n].from] # NoPage
          /\ request'[n].image \in File \cup {NoFile}
    <2>1. \A n \in 1..MaxSends : request'[n] # NoRequest => request'[n] \in Request
      BY <1>0 DEF EditorTypeOK, Maybe
    <2> QED
      BY <1>0, <2>1, RequestUpdates DEF EditorTypeOK
  <1>b. \A a \in Page : /\ Compressing(a) <=> \E k \in 1..MaxCrops : Choosing(k, a)
                        /\ Compressing(a)' <=> \E k \in 1..MaxCrops : Choosing(k, a)'
    BY DEF Compressing, Choosing
  <1>1. ASSUME NEW e \in Page, EditorStep(e)
        PROVE  SendInv'
    <2>1. Left(e) /\ Moves(e)
      BY <1>1, EditorSend, EditorTyped DEF SendInv
    <2>2. \A a \in Page \ {e} : page'[a] = page[a] /\ (Mounted(a)' => Mounted(a))
      BY <2>1 DEF Moves
    <2>3. \A n \in 1..MaxSends :
            \/ request'[n] = request[n]
            \/ /\ TapSend(e) /\ ~UNCHANGED request
               /\ request'[n].phase = "open" /\ request'[n].from = e
               /\ request'[n].image = page[e].image
               /\ request'[n].wanted = page[e].wants
               /\ \A m \in (1..MaxSends) \ {n} : request'[m] = request[m]
      BY <1>0, <1>1, EditorRequests
    <2>4. \A n \in 1..MaxSends, a \in Page \ {e} : Out(n, a)' => Out(n, a)
      BY <2>3 DEF Out
    <2>5. \A a \in Page \ {e}, f \in File \cup {NoFile} :
            \A w : Good(a, f, w) => Good(a, f, w)'
      BY <2>1 DEF Left, Good
    <2>6. \A k \in 1..MaxCrops, a \in Page \ {e} :
            /\ Choosing(k, a)' <=> Choosing(k, a)
            /\ Choosing(k, a) => choice'[k] = choice[k]
      BY <1>0, <1>1, EditorChoices
    <2>7. \A a \in Page \ {e} : Compressing(a)' <=> Compressing(a)
      BY <1>b, <2>6
    <2>8. \A a \in Page \ {e} : HasFile(a)' => HasFile(a)
      BY <2>2 DEF HasFile
    <2>9. Downloading'
      <3> SUFFICES ASSUME NEW a \in Page, Calm(a)', page'[a].download = "going"
                   PROVE  /\ page'[a].isLoading /\ ~Compressing(a)'
                          /\ page'[a].image = NoFile /\ page'[a].wants = page'[a].url
        BY DEF Downloading
      <3>1. CASE a # e
        BY <2>2, <2>7, <3>1 DEF SendInv, Downloading, Calm
      <3>2. CASE a = e
        BY <2>1, <3>2 DEF Left, Calm
      <3> QED
        BY <3>1, <3>2
    <2>10. Waiting'
      <3> SUFFICES ASSUME NEW n \in 1..MaxSends, NEW a \in Page,
                          Calm(a)', Out(n, a)'
                   PROVE  /\ page'[a].isLoading /\ ~Compressing(a)'
                          /\ page'[a].download # "going"
                          /\ \A m \in 1..MaxSends : Out(m, a)' => m = n
        BY DEF Waiting
      <3>1. CASE a # e
        <4>1. Calm(a) /\ Out(n, a)
          BY <2>2, <2>4, <3>1 DEF Calm
        <4> QED
          BY <2>2, <2>4, <2>7, <3>1, <4>1 DEF SendInv, Waiting
      <3>2. CASE a = e
        <4>1. \A m \in 1..MaxSends : ~Out(m, e)
          BY <2>1, <3>2 DEF Left, Calm
        <4>2. TapSend(e) /\ \A m \in (1..MaxSends) \ {n} : request'[m] = request[m]
          BY <2>3, <3>2, <4>1 DEF Out
        <4>3. \A m \in 1..MaxSends : Out(m, a)' => m = n
          BY <3>2, <4>1, <4>2 DEF Out
        <4> QED
          BY <2>1, <3>2, <4>2, <4>3 DEF Left, Calm
      <3> QED
        BY <3>1, <3>2
    <2>11. Chosen'
      <3> SUFFICES ASSUME NEW k \in 1..MaxCrops, NEW a \in Page,
                          Calm(a)', Choosing(k, a)'
                   PROVE  /\ page'[a].wants = choice'[k].pic
                          /\ page'[a].download # "going"
                          /\ \A j \in 1..MaxCrops : Choosing(j, a)' => j = k
                          /\ HasFile(a)' => Good(a, page[a].image, choice[k].before)'
        BY DEF Chosen
      <3>1. CASE a # e
        <4>1. Calm(a) /\ Choosing(k, a) /\ page'[a] = page[a] /\ choice'[k] = choice[k]
          BY <2>2, <2>6, <3>1 DEF Calm
        <4>2. /\ page[a].wants = choice[k].pic /\ page[a].download # "going"
              /\ \A j \in 1..MaxCrops : Choosing(j, a) => j = k
              /\ HasFile(a) => Good(a, page[a].image, choice[k].before)
          BY <4>1 DEF SendInv, Chosen
        <4>3. page[a].image \in File \cup {NoFile}
          BY <1>a, <4>1 DEF Calm
        <4>4. HasFile(a)' => Good(a, page[a].image, choice[k].before)'
          BY <2>5, <2>8, <3>1, <4>1, <4>2, <4>3 DEF Good
        <4> QED
          BY <2>6, <3>1, <4>1, <4>2, <4>4
      <3>2. CASE a = e
        BY <2>1, <3>2 DEF Left, Calm
      <3> QED
        BY <3>1, <3>2
    <2>12. Holding'
      <3> SUFFICES ASSUME NEW a \in Page, Holds(a)'
                   PROVE  Good(a, page[a].image, page[a].wants)'
        BY DEF Holding
      <3>1. CASE a # e
        <4>1. Holds(a) /\ page'[a] = page[a]
          BY <2>2, <2>7, <2>8, <3>1 DEF Holds, Calm
        <4>2. Good(a, page[a].image, page[a].wants)
          BY <4>1 DEF SendInv, Holding
        <4>3. page[a].image \in File \cup {NoFile}
          BY <1>a, <4>1 DEF Holds, Calm
        <4> QED
          BY <2>5, <3>1, <4>1, <4>2, <4>3 DEF Good
      <3>2. CASE a = e
        BY <2>1, <3>2 DEF Left
      <3> QED
        BY <3>1, <3>2
    <2>13. Reading'
      <3>1. ASSUME NEW n \in 1..MaxSends, NEW a \in Page, Out(n, a)',
                   request'[n].phase = "open", ~page'[a].hasty
            PROVE  Good(a, request[n].image, request[n].wanted)'
        <4>0. request'[n].image \in File \cup {NoFile}
          BY <1>c, <3>1 DEF Out
        <4>1. CASE a # e
          <5>1. request'[n] = request[n] /\ page'[a] = page[a]
            BY <2>2, <2>3, <3>1, <4>1 DEF Out
          <5>2. Good(a, request[n].image, request[n].wanted)
            BY <3>1, <5>1 DEF SendInv, Reading, Is, Out
          <5> QED
            BY <2>5, <4>0, <4>1, <5>1, <5>2 DEF Good
        <4>2. CASE a = e
          <5>1. \A m \in 1..MaxSends : ~Out(m, e)
            BY <2>1, <3>1, <4>2 DEF Left
          <5>2. /\ TapSend(e) /\ ~UNCHANGED request
                /\ request'[n].image = page[e].image
                /\ request'[n].wanted = page[e].wants
            BY <2>3, <3>1, <4>2, <5>1 DEF Out
          <5>3. Good(e, page[e].image, page[e].wants) /\ UNCHANGED file
            BY <2>1, <3>1, <4>2, <5>2 DEF Left
          <5> QED
            BY <4>2, <5>2, <5>3 DEF Good
        <4> QED
          BY <4>1, <4>2
      <3> QED
        BY <1>c, <3>1 DEF Reading, Is, Out
    <2>14. SendsWhatIsWanted'
      <3> SUFFICES ASSUME NEW n \in 1..MaxSends, request'[n] # NoRequest,
                          request'[n].phase \in {"sent", "done"},
                          ~page'[request'[n].from].hasty,
                          request'[n].by = request'[n].from
                   PROVE  request'[n].got = request'[n].wanted
        BY DEF SendsWhatIsWanted, Is
      <3>1. request'[n] = request[n]
        BY <2>3
      <3>2. CASE request[n].from = e
        BY <2>1, <3>1, <3>2 DEF Left, Out
      <3>3. CASE request[n].from # e
        <4>1. request[n].from \in Page /\ page'[request[n].from] = page[request[n].from]
          BY <1>a, <2>2, <3>1, <3>3
        <4> QED
          BY <3>1, <4>1 DEF SendInv, SendsWhatIsWanted, Is
      <3> QED
        BY <3>2, <3>3
    <2> QED
      BY <1>0, <2>9, <2>10, <2>11, <2>12, <2>13, <2>14 DEF SendInv
  <1>2. ASSUME NEW n \in 1..MaxSends, RequestStep(n)
        PROVE  SendInv'
    <2> DEFINE r == request[n]
               e == r.from
    <2>1. /\ r \in Request
          /\ \/ EditReturns(n) \/ WriteReturns(n)
             \/ request'[n] \in Request
          /\ \/ request'[n] = NoRequest
             \/ request'[n] \in Request /\ request'[n].from = e
          /\ \A m \in (1..MaxSends) \ {n} : request'[m] = request[m]
          /\ UNCHANGED <<file, choice>>
          /\ UNCHANGED page \/ page' = [page EXCEPT ![e].isLoading = FALSE]
          /\ \A a \in Page : Mounted(a)' => Mounted(a)
      BY <1>0, <1>2, RequestTyped
    <2>2. /\ r # NoRequest /\ e \in Page /\ page[e] # NoPage /\ page[e] \in Editor
          /\ r.image \in File \cup {NoFile}
      BY <1>0, <2>1, RequestUpdates, EditorNone DEF EditorTypeOK, Maybe
    <2>4. Out(n, e)
      BY <2>2 DEF Out
    <2>5. \A m \in 1..MaxSends, a \in Page : Out(m, a)' => Out(m, a)
      BY <2>1, <2>2, <2>4 DEF Out
    \* Only the spinner of e changes, and only when n is over.
    <2>6. \A a \in Page :
            /\ page'[a] # NoPage => page[a] # NoPage
            /\ page'[a] = page[a] \/
                 /\ a = e /\ request'[n] = NoRequest
                 /\ page'[a].wants = page[a].wants
                 /\ page'[a].url = page[a].url /\ page'[a].image = page[a].image
                 /\ page'[a].hasty = page[a].hasty
                 /\ page'[a].download = page[a].download
      <3>1. CASE UNCHANGED page
        BY <3>1
      <3>2. CASE ~UNCHANGED page
        <4>1. EditReturns(n)
          BY <1>2, <3>2 DEF RequestStep, Read, Store, Fails, WriteReturns
        <4>2. request'[n] = NoRequest
          BY <1>0, <4>1 DEF EditReturns, Over, EditorTypeOK
        <4>3. page' = [page EXCEPT ![e].isLoading = FALSE]
          BY <2>1, <3>2
        <4>4. \A a \in Page \ {e} : page'[a] = page[a]
          BY <1>0, <4>3 DEF EditorTypeOK
        <4>5. page'[e] = [page[e] EXCEPT !.isLoading = FALSE]
          BY <1>0, <2>2, <4>3 DEF EditorTypeOK
        <4>6. /\ page'[e].wants = page[e].wants
              /\ page'[e].url = page[e].url /\ page'[e].image = page[e].image
              /\ page'[e].hasty = page[e].hasty /\ page'[e].download = page[e].download
          BY <2>2, <4>5 DEF Editor
        <4> QED
          BY <2>2, <4>2, <4>4, <4>6
      <3> QED
        BY <3>1, <3>2
    <2>7. \A a \in Page : Calm(a)' => Calm(a)
      BY <2>6 DEF Calm
    <2>8. /\ \A k \in 1..MaxCrops, a \in Page : Choosing(k, a)' <=> Choosing(k, a)
          /\ \A a \in Page : Compressing(a)' <=> Compressing(a)
      BY <2>1 DEF Choosing, Compressing, Going
    <2>a. \A a \in Page : \A f, w : Good(a, f, w) => Good(a, f, w)'
      BY <2>1 DEF Good
    <2>b. \A a \in Page : Calm(a)' /\ HasFile(a)' => HasFile(a)
      BY <2>1, <2>6 DEF HasFile, Calm
    <2>9. Downloading'
      <3> SUFFICES ASSUME NEW a \in Page, Calm(a)', page'[a].download = "going"
                   PROVE  /\ page'[a].isLoading /\ ~Compressing(a)'
                          /\ page'[a].image = NoFile /\ page'[a].wants = page'[a].url
        BY DEF Downloading
      <3>1. Calm(a) /\ page[a].download = "going"
        BY <2>6, <2>7
      <3>2. a # e
        BY <2>4, <3>1 DEF SendInv, Waiting
      <3>3. page'[a] = page[a]
        BY <2>6, <3>2
      <3> QED
        BY <2>8, <3>1, <3>3 DEF SendInv, Downloading
    <2>10. Waiting'
      <3> SUFFICES ASSUME NEW m \in 1..MaxSends, NEW a \in Page,
                          Calm(a)', Out(m, a)'
                   PROVE  /\ page'[a].isLoading /\ ~Compressing(a)'
                          /\ page'[a].download # "going"
                          /\ \A k \in 1..MaxSends : Out(k, a)' => k = m
        BY DEF Waiting
      <3>1. Calm(a) /\ Out(m, a)
        BY <2>5, <2>7
      <3>2. /\ page[a].isLoading /\ ~Compressing(a)
            /\ page[a].download # "going"
            /\ \A k \in 1..MaxSends : Out(k, a) => k = m
        BY <3>1 DEF SendInv, Waiting
      <3>3. page'[a] = page[a]
        <4>1. a = e => m = n
          BY <2>4, <3>2
        <4>2. a = e => request'[n] # NoRequest
          BY <4>1 DEF Out
        <4> QED
          BY <2>6, <4>2
      <3> QED
        BY <2>5, <2>8, <3>2, <3>3
    <2>11. Chosen'
      <3> SUFFICES ASSUME NEW k \in 1..MaxCrops, NEW a \in Page,
                          Calm(a)', Choosing(k, a)'
                   PROVE  /\ page'[a].wants = choice'[k].pic
                          /\ page'[a].download # "going"
                          /\ \A j \in 1..MaxCrops : Choosing(j, a)' => j = k
                          /\ HasFile(a)' => Good(a, page[a].image, choice[k].before)'
        BY DEF Chosen
      <3>1. Calm(a) /\ Choosing(k, a) /\ choice' = choice
        BY <2>1, <2>7, <2>8
      <3>2. /\ page[a].wants = choice[k].pic /\ page[a].download # "going"
            /\ \A j \in 1..MaxCrops : Choosing(j, a) => j = k
            /\ HasFile(a) => Good(a, page[a].image, choice[k].before)
        BY <3>1 DEF SendInv, Chosen
      <3>3. /\ page'[a].wants = page[a].wants /\ page'[a].image = page[a].image
            /\ page'[a].download = page[a].download
        BY <2>6
      <3>4. HasFile(a)' => Good(a, page[a].image, choice[k].before)'
        BY <2>1, <2>b, <3>1, <3>2, <3>3 DEF Good
      <3> QED
        BY <2>8, <3>1, <3>2, <3>3, <3>4
    <2>12. Holding'
      <3> SUFFICES ASSUME NEW a \in Page, Holds(a)'
                   PROVE  Good(a, page[a].image, page[a].wants)'
        BY DEF Holding
      <3>1. /\ Holds(a) /\ page'[a].image = page[a].image
            /\ page'[a].wants = page[a].wants
        BY <2>6, <2>7, <2>8, <2>b DEF Holds
      <3>2. Good(a, page[a].image, page[a].wants)
        BY <3>1 DEF SendInv, Holding
      <3> QED
        BY <2>1, <3>1, <3>2 DEF Good
    <2>13. Reading'
      <3> SUFFICES ASSUME NEW m \in 1..MaxSends, request'[m] # NoRequest,
                          request'[m].phase = "open", ~page'[request'[m].from].hasty
                   PROVE  Good(request[m].from, request[m].image, request[m].wanted)'
        BY DEF Reading, Is
      <3>1. m # n
        <4>1. Read(n) => request'[n].phase = "sent"
          BY <1>0, <2>1 DEF Read, EditorTypeOK, Request
        <4>2. Store(n) \/ Fails(n) => request'[n].phase \in {"done", "failed"}
          BY <1>0, <2>1 DEF Store, Fails, EditorTypeOK, Request
        <4>3. EditReturns(n) \/ WriteReturns(n) => request'[n] = NoRequest
          BY <1>0 DEF EditReturns, WriteReturns, Over, EditorTypeOK
        <4> QED
          BY <1>2, <4>1, <4>2, <4>3 DEF RequestStep
      <3>2. request'[m] = request[m] /\ request[m] # NoRequest
        BY <2>1, <3>1
      <3>3. request[m].from \in Page
        BY <1>a, <3>2
      <3>4. Good(request[m].from, request[m].image, request[m].wanted)
        BY <2>6, <3>2, <3>3 DEF SendInv, Reading, Is
      <3> QED
        BY <2>1, <3>2, <3>4 DEF Good
    <2>14. SendsWhatIsWanted'
      <3> SUFFICES ASSUME NEW m \in 1..MaxSends, request'[m] # NoRequest,
                          request'[m].phase \in {"sent", "done"},
                          ~page'[request'[m].from].hasty,
                          request'[m].by = request'[m].from
                   PROVE  request'[m].got = request'[m].wanted
        BY DEF SendsWhatIsWanted, Is
      <3>1. CASE m # n
        <4>1. request'[m] = request[m] /\ request[m] # NoRequest
          BY <2>1, <3>1
        <4>2. request[m].from \in Page
          BY <1>a, <4>1
        <4> QED
          BY <2>6, <4>1, <4>2 DEF SendInv, SendsWhatIsWanted, Is
      <3>2. CASE m = n
        <4>0. ~page[e].hasty /\ request'[n].from = e /\ request'[n].by = e
          BY <2>1, <2>2, <2>6, <3>2
        <4>1. CASE Read(n)
          <5> DEFINE read == IF r.image = NoFile
                               THEN [pic |-> NoPicture, by |-> r.from] ELSE file[r.image]
          <5>1. /\ request'[n].got = read.pic /\ request'[n].by = read.by
                /\ request'[n].wanted = r.wanted
            BY <1>0, <2>1, <4>1 DEF Read, EditorTypeOK, Request
          <5>2. Good(e, r.image, r.wanted)
            BY <4>0, <4>1 DEF Read, SendInv, Reading
          <5>3. r.image # NoFile => read = file[r.image]
            OBVIOUS
          <5>4. r.image = NoFile => read.pic = NoPicture
            OBVIOUS
          <5> HIDE DEF read
          <5>5. CASE r.image = NoFile
            BY <3>2, <5>1, <5>2, <5>4, <5>5 DEF Good
          <5>6. CASE r.image # NoFile
            BY <3>2, <4>0, <5>1, <5>2, <5>3, <5>6 DEF Good
          <5> QED
            BY <5>5, <5>6
        <4>2. CASE Store(n)
          <5>1. /\ request'[n].got = r.got /\ request'[n].by = r.by
                /\ request'[n].wanted = r.wanted
            BY <1>0, <2>1, <4>2 DEF Store, EditorTypeOK, Request
          <5>2. Is(n, {"sent", "done"})
            BY <4>2 DEF Store, Is
          <5> QED
            BY <2>1, <3>2, <4>0, <5>1, <5>2 DEF SendInv, SendsWhatIsWanted
        <4>3. CASE Fails(n)
          <5>1. request'[n].phase = "failed"
            BY <1>0, <2>1, <4>3 DEF Fails, EditorTypeOK, Request
          <5> QED
            BY <3>2, <5>1
        <4>4. CASE EditReturns(n) \/ WriteReturns(n)
          <5>1. request'[n] = NoRequest
            BY <1>0, <4>4 DEF EditReturns, WriteReturns, Over, EditorTypeOK
          <5> QED
            BY <3>2, <5>1
        <4> QED
          BY <1>2, <4>1, <4>2, <4>3, <4>4 DEF RequestStep
      <3> QED
        BY <3>1, <3>2
    <2> QED
      BY <1>0, <2>9, <2>10, <2>11, <2>12, <2>13, <2>14 DEF SendInv
  <1>3. CASE BackArrow \/ SystemBack \/ UNCHANGED eVars
    <2>1. UNCHANGED <<page, file, request, choice>>
      BY <1>3 DEF BackArrow, SystemBack, eVars
    <2>2. \A a \in Page : Mounted(a)' => Mounted(a)
      BY <1>0, <1>3, StackSteps, EditorSentinels DEF BackArrow, eVars
    <2>3. \A a \in Page : /\ HasFile(a)' => HasFile(a)
                          /\ Compressing(a)' <=> Compressing(a)
                          /\ \A k \in 1..MaxCrops : Choosing(k, a)' <=> Choosing(k, a)
      BY <2>1, <2>2 DEF HasFile, Compressing, Choosing, Going
    <2>4. Holding'
      BY <2>1, <2>3 DEF SendInv, Holding, Good, Holds, Calm
    <2>5. Chosen'
      BY <2>1, <2>3 DEF SendInv, Chosen, Good, Calm
    <2>6. Downloading' /\ Waiting' /\ Reading' /\ SendsWhatIsWanted'
      BY <2>1, <2>3 DEF SendInv, Downloading, Waiting, Reading,
         SendsWhatIsWanted, Calm, Out, Good, Is
    <2> QED
      BY <1>0, <2>4, <2>5, <2>6 DEF SendInv
  <1> QED
    BY <1>0, <1>1, <1>2, <1>3, NextSteps

\* What a page sends, for a user who waits for the page before he goes on, is the
\* picture he chose last of those that could be compressed, or the one the post
\* had, whatever other editors are open, unless one of them wrote the file.
THEOREM SendsWanted == EditorSpec => []SendsWhatIsWanted
  <1>1. EditorInit => SendInv
    <2> SUFFICES ASSUME EditorInit PROVE SendInv
      OBVIOUS
    <2>1. /\ \A a \in Page : page[a] = NoPage
          /\ \A n \in 1..MaxSends : request[n] = NoRequest
      BY DEF EditorInit
    <2> QED
      BY <2>1, InitTyped DEF SendInv, Downloading, Waiting, Chosen, Holding,
         Reading, SendsWhatIsWanted, Holds, Calm, Out, Is
  <1>2. SendInv => SendsWhatIsWanted
    BY DEF SendInv
  <1> QED
    BY <1>1, <1>2, InitOpened, InitTyped, NextSend, EditorTypeCorrect, PTL DEF EditorSpec

=============================================================================
