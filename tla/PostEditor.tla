----------------------------- MODULE PostEditor -----------------------------
(***************************************************************************)
(* The editors of posts: Edit Post (lib/edit_post.dart), opened for a post *)
(* of the user, and Write Post (lib/write_post.dart), on the navigation    *)
(* stack of the app.                                                       *)
(*                                                                         *)
(* An editor does not keep a picture but the name of a file, and there are *)
(* two names for all editors: one for what was downloaded and one for what *)
(* was cropped.  The file is read when the request goes out.  Texts are    *)
(* left out.                                                               *)
(***************************************************************************)
EXTENDS Naturals, Sequences, SequencesExt

CONSTANTS
  Page,        \* the editors opened in a run
  Post,        \* the posts of the user
  Picture,
  Home,        \* a Home page on the stack
  NoPost,      \* a Write Post page edits no post
  NoPicture, NoFile, NoPage, NoRequest, NoChoice,
  MaxDepth,    \* bound: routes on the stack
  MaxCrops,    \* bound: pictures chosen
  MaxSends,    \* bound: taps on Edit and Post
  MaxFaults    \* bound: requests, downloads and compressions that fail, answers
               \* lost

File == {"profile_image.jpg", "temp.jpg"}

ASSUME EditorSentinels ==
  /\ Home \notin Page /\ NoPost \notin Post
  /\ NoPicture \notin Picture /\ NoPage \notin Page /\ NoFile \notin File

ASSUME EditorBounds == {MaxDepth, MaxCrops, MaxSends, MaxFaults} \subseteq Nat

VARIABLES
  stack,       \* the routes, bottom first
  page,        \* per editor: its state, or NoPage before it is opened
  file,        \* per file: the picture in it and the editor that wrote it
  media,       \* per post: the picture the backend has
  request,     \* the requests in flight, one per tap on Edit or Post
  choice,      \* the compressions in flight, one per picture chosen
  sends, crops, faults

counts == <<sends, crops, faults>>
eVars == <<stack, page, file, media, request, choice, counts>>

Maybe(S, none) == S \cup {none}

\* url is the picture of the post as the feed showed it; wants and hasty are
\* history: the picture the user chose, or else the post's, and whether he went
\* on (tapped Edit or Post, chose another picture) while the page was busy.
Editor == [post : Maybe(Post, NoPost), url : Maybe(Picture, NoPicture),
           image : Maybe(File, NoFile), isLoading : BOOLEAN,
           download : {"none", "going", "failed"},
           wants : Maybe(Picture, NoPicture), hasty : BOOLEAN]

\* before is history: what the page wanted until this picture was chosen.
Choice == [from : Page, pic : Picture, before : Maybe(Picture, NoPicture)]

\* got and by are the picture that was read and the editor that had written it,
\* wanted the page's wants at the tap.
Request == [from : Page, image : Maybe(File, NoFile),
            phase : {"open", "sent", "done", "failed"},
            got : Maybe(Picture, NoPicture), by : Maybe(Page, NoPage),
            wanted : Maybe(Picture, NoPicture)]

ASSUME EditorNone ==
  NoPage \notin Editor /\ NoRequest \notin Request /\ NoChoice \notin Choice

\* The stack, the editors, their files, their requests and their compressions.
EditorTypeOK ==
  /\ stack \in Seq(Page \cup {Home}) /\ stack # <<>>
  /\ page \in [Page -> Maybe(Editor, NoPage)]
  /\ file \in [File -> [pic : Maybe(Picture, NoPicture), by : Maybe(Page, NoPage)]]
  /\ media \in [Post -> Maybe(Picture, NoPicture)]
  /\ request \in [1..MaxSends -> Maybe(Request, NoRequest)]
  /\ \A n \in 1..MaxSends : request[n] # NoRequest => page[request[n].from] # NoPage
  /\ choice \in [1..MaxCrops -> Maybe(Choice, NoChoice)]
  /\ \A k \in 1..MaxCrops : choice[k] # NoChoice => page[choice[k].from] # NoPage
  /\ sends \in Nat /\ crops \in Nat /\ faults \in Nat

EditorInit ==
  /\ stack = <<Home>>
  /\ page = [e \in Page |-> NoPage]
  /\ file = [f \in File |-> [pic |-> NoPicture, by |-> NoPage]]
  /\ media \in [Post -> Maybe(Picture, NoPicture)]
  /\ request = [n \in 1..MaxSends |-> NoRequest]
  /\ choice = [k \in 1..MaxCrops |-> NoChoice]
  /\ sends = 0 /\ crops = 0 /\ faults = 0

-----------------------------------------------------------------------------
(* The stack                                                                *)

Top == Last(stack)

Mounted(e) == \E i \in DOMAIN stack : stack[i] = e

Push(r) == Len(stack) < MaxDepth /\ stack' = Append(stack, r)

Edits(e) == page[e] # NoPage /\ page[e].post # NoPost

Fault == faults < MaxFaults /\ faults' = faults + 1 /\ UNCHANGED <<sends, crops>>

\* the free slot that is used next
Lowest(slots, none) ==
  {n \in DOMAIN slots :
     slots[n] = none /\ \A m \in DOMAIN slots : slots[m] = none => n <= m}

\* The menu entry Edit of My Posts; initState starts the download.
OpenEdit(e, p) ==
  /\ Top = Home /\ page[e] = NoPage
  /\ Push(e)
  /\ page' = [page EXCEPT ![e] =
       [post |-> p, url |-> media[p], image |-> NoFile,
        isLoading |-> media[p] # NoPicture,
        download |-> IF media[p] = NoPicture THEN "none" ELSE "going",
        wants |-> media[p], hasty |-> FALSE]]
  /\ UNCHANGED <<file, media, request, choice, counts>>

OpenWrite(e) ==
  /\ Top = Home /\ page[e] = NoPage
  /\ Push(e)
  /\ page' = [page EXCEPT ![e] =
       [post |-> NoPost, url |-> NoPicture, image |-> NoFile, isLoading |-> FALSE,
        download |-> "none", wants |-> NoPicture, hasty |-> FALSE]]
  /\ UNCHANGED <<file, media, request, choice, counts>>

\* The arrow of an editor leads to another Home page, on top of the editor.
BackArrow ==
  /\ Top # Home
  /\ Push(Home)
  /\ UNCHANGED <<page, file, media, request, choice, counts>>

\* Mutant: the last route is popped too.
SystemBackEmpties ==
  /\ stack' = Front(stack)
  /\ UNCHANGED <<page, file, media, request, choice, counts>>

\* The back button of the phone.
SystemBack ==
  /\ Len(stack) > 1
  /\ stack' = Front(stack)
  /\ UNCHANGED <<page, file, media, request, choice, counts>>

-----------------------------------------------------------------------------
(* Pictures                                                                 *)

Writes(e, f, pic) == file' = [file EXCEPT ![f] = [pic |-> pic, by |-> e]]

\* _downloadImage writes the file even if its page has gone.
Downloaded(e) ==
  /\ Edits(e) /\ page[e].download = "going"
  /\ Writes(e, "profile_image.jpg", page[e].url)
  /\ page' = [page EXCEPT ![e] =
       IF Mounted(e)
         THEN [@ EXCEPT !.download = "none", !.image = "profile_image.jpg",
                        !.isLoading = FALSE]
         ELSE [@ EXCEPT !.download = "none"]]
  /\ UNCHANGED <<stack, media, request, choice, counts>>

DownloadFails(e) ==
  /\ Edits(e) /\ page[e].download = "going"
  /\ Fault
  /\ page' = [page EXCEPT ![e].download = "failed"]
  /\ UNCHANGED <<stack, file, media, request, choice>>

Going(k) == choice[k] # NoChoice

Compressing(e) == \E k \in 1..MaxCrops : Going(k) /\ choice[k].from = e

Busy(e) == page[e].isLoading \/ Compressing(e)

\* A picture is picked and cropped, and its compression begins.  The form with
\* the two buttons is not there while isLoading; a compression does not hide it.
Crop(e, pic) ==
  /\ Top = e /\ ~page[e].isLoading
  /\ crops < MaxCrops /\ crops' = crops + 1
  /\ \E k \in Lowest(choice, NoChoice) :
       choice' = [choice EXCEPT ![k] =
         [from |-> e, pic |-> pic, before |-> page[e].wants]]
  /\ page' = [page EXCEPT ![e].wants = pic, ![e].hasty = @ \/ Compressing(e)]
  /\ UNCHANGED <<stack, file, media, request, sends, faults>>

Ends(k) == choice' = [choice EXCEPT ![k] = NoChoice]

\* Mutant: the file is written but the page goes on with the one it had.
CompressedUnseen(k) ==
  /\ Going(k)
  /\ Writes(choice[k].from, "temp.jpg", choice[k].pic)
  /\ Ends(k)
  /\ UNCHANGED <<stack, page, media, request, counts>>

\* Compressions of one page end in any order.
Compressed(k) ==
  /\ Going(k)
  /\ LET e == choice[k].from
     IN /\ Writes(e, "temp.jpg", choice[k].pic)
        /\ page' = IF Mounted(e) THEN [page EXCEPT ![e].image = "temp.jpg"] ELSE page
  /\ Ends(k)
  /\ UNCHANGED <<stack, media, request, counts>>

\* result! throws: no file is written, the page goes on showing the one it had.
CompressionFails(k) ==
  /\ Going(k)
  /\ Fault
  /\ page' = [page EXCEPT ![choice[k].from].wants = choice[k].before]
  /\ Ends(k)
  /\ UNCHANGED <<stack, file, media, request>>

-----------------------------------------------------------------------------
(* Edit and Post                                                            *)

Ask(e) ==
  /\ sends < MaxSends /\ sends' = sends + 1
  /\ \E n \in Lowest(request, NoRequest) :
       request' = [request EXCEPT ![n] =
         [from |-> e, image |-> page[e].image, phase |-> "open",
          got |-> NoPicture, by |-> NoPage, wanted |-> page[e].wants]]

\* The button stands in the app bar and is live whatever the page is doing.  An
\* edit of a post with a picture is dropped as long as there is no file, and the
\* spinner of the download with it.
TapSend(e) ==
  /\ Top = e
  /\ IF page[e].url # NoPicture /\ page[e].image = NoFile
       THEN /\ page' = [page EXCEPT ![e].isLoading = FALSE, ![e].hasty = TRUE]
            /\ UNCHANGED <<request, sends>>
       ELSE /\ Ask(e)
            /\ page' = [page EXCEPT ![e].isLoading = TRUE,
                                    ![e].hasty = @ \/ Busy(e)]
  /\ UNCHANGED <<stack, file, media, choice, crops, faults>>

Is(n, S) == request[n] # NoRequest /\ request[n].phase \in S

\* MultipartFile.fromPath and send: the file is read.
Read(n) ==
  /\ Is(n, {"open"})
  /\ LET r == request[n]
         read == IF r.image = NoFile THEN [pic |-> NoPicture, by |-> r.from]
                                     ELSE file[r.image]
     IN request' = [request EXCEPT ![n] =
          [r EXCEPT !.phase = "sent", !.got = read.pic, !.by = read.by]]
  /\ UNCHANGED <<stack, page, file, media, choice, counts>>

\* The backend stores the post; an edit without a picture leaves it the one it had.
Store(n) ==
  /\ Is(n, {"sent"})
  /\ LET r == request[n]
         p == page[r.from].post
     IN media' = IF p = NoPost \/ r.got = NoPicture THEN media
                 ELSE [media EXCEPT ![p] = r.got]
  /\ request' = [request EXCEPT ![n].phase = "done"]
  /\ UNCHANGED <<stack, page, file, choice, counts>>

Fails(n) ==
  /\ Is(n, {"open", "sent", "done"})
  /\ Fault
  /\ request' = [request EXCEPT ![n].phase = "failed"]
  /\ UNCHANGED <<stack, page, file, media, choice>>

Over(n) == request' = [request EXCEPT ![n] = NoRequest]

\* _editPost goes on: a success leaves one Home page, a failure the editor.
\* Nothing happens when the page has gone.
EditReturns(n) ==
  /\ Is(n, {"done", "failed"}) /\ Edits(request[n].from)
  /\ LET e == request[n].from
     IN \/ /\ Mounted(e) /\ request[n].phase = "done"
           /\ stack' = <<Home>>
           /\ UNCHANGED page
        \/ /\ Mounted(e) /\ request[n].phase = "failed"
           /\ page' = [page EXCEPT ![e].isLoading = FALSE]
           /\ UNCHANGED stack
        \/ ~Mounted(e) /\ UNCHANGED <<stack, page>>
  /\ Over(n)
  /\ UNCHANGED <<file, media, choice, counts>>

\* Mutant: only a success leads Home.
WriteReturnsStays(n) ==
  /\ Is(n, {"done", "failed"}) /\ ~Edits(request[n].from)
  /\ stack' = IF Mounted(request[n].from) /\ request[n].phase = "done"
                THEN <<Home>> ELSE stack
  /\ Over(n)
  /\ UNCHANGED <<page, file, media, choice, counts>>

\* _addPost goes on: its finally block leaves one Home page in any case.
WriteReturns(n) ==
  /\ Is(n, {"done", "failed"}) /\ ~Edits(request[n].from)
  /\ stack' = IF Mounted(request[n].from) THEN <<Home>> ELSE stack
  /\ Over(n)
  /\ UNCHANGED <<page, file, media, choice, counts>>

-----------------------------------------------------------------------------
EditorNext ==
  \/ \E e \in Page :
       \/ OpenWrite(e) \/ \E p \in Post : OpenEdit(e, p)
       \/ Downloaded(e) \/ DownloadFails(e)
       \/ TapSend(e) \/ \E pic \in Picture : Crop(e, pic)
  \/ \E k \in 1..MaxCrops : Compressed(k) \/ CompressionFails(k)
  \/ \E n \in 1..MaxSends :
       Read(n) \/ Store(n) \/ Fails(n) \/ EditReturns(n) \/ WriteReturns(n)
  \/ BackArrow \/ SystemBack

EditorSpec == EditorInit /\ [][EditorNext]_eVars

-----------------------------------------------------------------------------
(* Properties                                                               *)

\* What goes out is the picture the user wanted when he tapped: the last one he
\* chose that could be compressed, or the one the post had.  The exceptions are
\* that he did not wait for the page (he tapped while it was busy, or chose a
\* picture before the compression of another had ended) and that another editor
\* wrote the file.
SendsWhatIsWanted ==
  \A n \in 1..MaxSends :
    LET r == request[n]
    IN Is(n, {"sent", "done"}) /\ ~page[r.from].hasty /\ r.by = r.from
         => r.got = r.wanted

\* "If the user does not select a new image, use the existing image URL"
\* (edit_post.dart:150): an edit in which no picture was chosen stores the one
\* the post had.
EditKeepsMedia ==
  \A n \in 1..MaxSends :
    LET r == request[n]
    IN Is(n, {"sent", "done"}) /\ Edits(r.from) /\ r.wanted = page[r.from].url
         => r.got = r.wanted

\* A page that spins waits for something that is still to come: its download, or
\* the answer to a request of its own.  Only a download that failed leaves it
\* spinning with nothing to wait for.
SpinnerHasCause ==
  \A e \in Page :
    page[e] # NoPage /\ Mounted(e) /\ page[e].isLoading =>
      \/ page[e].download \in {"going", "failed"}
      \/ \E n \in 1..MaxSends :
           request[n] # NoRequest /\ request[n].from = e

=============================================================================
