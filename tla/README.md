# Affiliate Chat Box: a TLA+ model of the app

The repository is a Flutter app (`src/lib/`, about 10 000 lines of Dart): affiliates
publish posts, ask each other for a connection by sending a first chat message, and chat
once the request has been accepted. There is no server code in the repository. The chat
lives in Cloud Firestore, which the clients read and write directly; posts, users and
sessions live behind an HTTP backend that `ApiService` calls.

Everything that can go wrong between users therefore goes wrong between *clients*: each
handler is a Dart `async` function that makes several requests, one `await` after the
other, without a transaction, and catches whatever is thrown. This project models those
handlers request by request.

## 1. Inventory

| Part | State | Operations | Talks to |
|---|---|---|---|
| Chat service, `services/chat_service.dart` | the Firestore document `chats/{room}` (users, sender, receiver, request status, two unread counts, preview) and its `messages` | `sendMessage`, `sendAdminMessage`, `resetUnreadCount`, `markLatestMessageAsSeen`, `acceptRequest`, `declineRequest`, reads | Firestore, Storage |
| Chat page, `chat.dart` | cached request status, "first message sent", uploading flag | open, build, tap Send, pick and send an image | chat service, notifications |
| Request page, `chat_request.dart` | status handed over by the list, "is receiver" | open, Accept, Decline | chat service |
| Lists and home, `msgs_requests.dart`, `home.dart` | none of their own (streams of the documents) | open a room, show unread counts | Firestore |
| Admin pages, `admin_chat_page.dart`, `contact_admin.dart` | as the chat page, without a gate | send, build | chat service |
| Notifications, `notification_service.dart`, `main.dart` | push tokens, the one local notification | send a push, show it, open a page from it | FCM |
| Post feed, `posts.dart` | the request of each tab and its answer, `allPosts`, limit, loading flags | load, refresh, load more, bump, delete, every build | backend, home page |
| Write/edit post, `write_post.dart`, `edit_post.dart` | name of the chosen file, busy flags, two files shared by all editors, the navigation stack | crop, download, submit, go back | backend, post feed |
| Search, `search_screen.dart` | results | search | backend |
| Session, `splash.dart`, `sign_ups.dart`, `verify_otp.dart`, `build_drawer.dart`, `edit_profile.dart` | preferences (user, token, verification id) and the backend's token | start, sign up, send and verify a code, log out, edit | backend, Firebase Auth |
| The rest (profiles, carousel, widgets, native shells) | none that an operation changes | show data | |

What is hard in it, and what must hold, is the `hazards` list of `PROJECT.json`. For the
chat it comes down to: reads used after an await (the room a send has read, the status a
page has cached), check-then-act across users (both send "the first message"),
non-atomic sequences that may stop half way (message stored, room not), updates that
cross (preview, reset and increment), and failures reported as success. For the rest of the
app it comes down to answers: one that arrives late, after its page was built again, after
its page has gone, or after another answer, and two stores (phone and backend, file and
page) changed one after the other.

## 2. Modules

| Module | Models |
|---|---|
| `ChatRoom` | one room and the calls of `ChatService` in flight on it |
| `ChatReading` (extends `ChatRoom`) | pages that show the message stream, reset the badge and mark as seen |
| `ChatRequest` | the abstract promise: one request message, registration, answer, then conversation |
| `ChatPages` (extends `ChatRoom`) | `ChatPage` and `Chat_Request`: which calls the screens let users make |
| `Session` | phones, users and the backend's tokens: start, sign-in, logout, profile form |
| `PostFeed` | the posts page, its two tabs and every request of theirs |
| `PostEditor` | Edit Post and Write Post on the navigation stack, and the two files they share |
| `MCChatRoom`, `MCChatReading`, `MCChatPages`, `MCSession`, `MCPostFeed`, `MCPostEditor` | instances for TLC (symmetry) |
| `ChatRoomProofs`, `ChatMessagesProofs` | theorems about `ChatRoom`: types, what is backed, badges never too high; messages |
| `ChatReadingProofs`, `ChatPagesProofs` | theorems about the pages, built on those of the room |
| `ChatListsProofs` | theorems about what the lists show of a room: badges and preview, for any calls and under the screens |
| `SessionProofs`, `PostFeedProofs`, `PostEditorProofs` | theorems about the other components |

The chat modules compose: `ChatReading` and `ChatPages` take every step of the room through
the actions of `ChatRoom`. Session, feed and editors share no state with the chat that a
property is about, so they stand alone; where one starts another (a chat event builds the
posts page, a row opens an editor) the effect is an action of the module it affects.

### State and actions

`ChatRoom`. `room` is the document (`NoRoom` while there is none), `messages` the
subcollection in the order of the server timestamps, `calls` a set of slots for calls in
flight. A slot holds the place of the call (`pc`), its user and what it keeps across
awaits: the roles it read (`snap`, the code's `chatData`) and its message. One action is
one request carried out by Firestore:

* `SendRead` (`chatRef.get()`), `SendAdd` (`messages.add`), `SendCreate` (`set`),
  `SendCount` (`increment`), `SendLast` (`update` of the preview). After `SendCreate` the
  call ends: `chatData['senderId']` on the snapshot of a missing document throws, the
  catch block swallows it, and neither the increment nor the preview update is reached.
* `ResetRead`/`ResetWrite`, `MarkRead`/`MarkWrite`, started together by `StartRefresh` as
  the stream's builder does; `Accept` and `Decline`, one blind `update` each.
* `Abort`: the next request of a call fails and the catch block ends the call.
  `Kill`: the app of a user is gone, with all its calls. A request that was carried out but
  whose answer got lost is the step followed by `Abort`.

Message text, image URLs and times are abstracted to the place of a message in the
server's order. `creates`, `wasReset` and `faults` are history for the properties.

`ChatReading`. `view` is per user the page's stream: closed, something the builder has not
been called with ("fresh"), or shown. Any change of the subcollection, marks included,
makes every open page fresh (`Listeners`); any `setState` does so too, since `build()`
subscribes anew (`Rebuild`). `Render` is the builder's call. The calls in `initState` run
before the user's id has been read and do nothing, so they are not in the model.

`ChatPages`. `page` holds the two facts `ChatPage` caches and the two reads a new page
makes of them, `request` what `Chat_Request` was handed and has loaded, `tap` the page
handler around each call: the two reads of the gate (`GateStatus`, `GateFirst`), an image
being picked, a send to come back to, an answer. A read that nobody waits for is three
steps, asked, answered (`ReadFirst`, `ReadOpening`) and applied (`ApplyFirst`,
`ApplyOpening`), so a late answer overwrites what a tap has set meanwhile, as the
assignment in `didChangeDependencies` does. The check of the status at the end of each text
(`CheckRead`, `CheckApply`) keeps the slot of its tap; of two checks the one applied last
stands, whichever was read first. `ServerStep` is a `ChatRoom` step together with what the
page does when the call returns (go on to the check, pop, show "declined", notify the peer).
A page can be left and opened again while its sends are on their way. A handler whose page
has gone (`gone`) throws at its next `setState`; what that loses is in `ClosePage` and
`CloseRequest`. The item builder of `Chat_Request` assigns `isReceiver` as well; the only
later build of that page is the one of a decline, which hides the buttons anyway, so it
has no effect on what can be tapped.

`ChatRequest` has no calls, pages or failures: `phase`, `sent`, `opened`. `ChatPages`
implements it with `phase` the status in the document and `sent` the number of messages.

`Session`. Per phone `prefs` is what `SharedPreferences` holds (the user and the push token;
the other keys come and go with them), `screen` the screen on top, `form` the user whose
number `Verify_OTP` was given, or what `Edit_Pro` has read; `token` is the backend's. A
request is sent, carried out (`Serve`) or lost (`Lose`, also after it was carried out), and
its handler goes on in `CheckReturns`, `VerifyReturns`, `RegisterReturns`, `LogoutReturns`,
`SaveReturns`. When its screen has gone (`live` is FALSE) it still writes the preferences and
only the navigation fails, as `Navigator.of` of an unmounted context throws.

Three ordinary answers of the code end in states one would not expect, and are steps that
count as no fault. A start whose session token the backend no longer takes (`Refuse`) shows
the sign-in page and leaves the user stored and his push token registered; `refused` keeps
who that happened to on which phone. `Verify_OTP` may be tapped before it has its push token
(`screen` is "verify"; `TokenArrives` makes it "ready"): its handler then stores the user and
throws at `token!`, with nothing registered; `early` keeps those users. The drawer may be
closed while its logout is in flight (`CloseDrawer`): the preferences are cleared under a
Home page that stays.
 `SharedPreferences` writes its memory in one
go and the disk later; a write is one step. `updateUserToken` with '12434' is `NoToken`.

`PostFeed`. `fetchPosts()` stands in `build`, so whatever calls `setState` asks the backend
again for both tabs (`Rebuild`), and a `FutureBuilder` drops the answers to earlier requests:
per tab there is only the request of the latest build. `allPosts`, which `_loadPosts` and
`_loadMorePosts` fill, is never shown; only whether it is null matters (`loaded`). A post is
its revision, which a bump raises; which posts an answer of a given size holds is the
backend's choice. A tab out of view is taken as shown like the one in view.

`PostEditor`. An editor keeps the name of a file. `file` holds the picture behind the two
names there are and the editor that wrote it; it is read when the request goes out (`Read`),
so a download or a crop of another editor comes in between. The picture buttons stay live
while a picture is being compressed, so one page may have several compressions in flight
(`choice`), which end in any order (`Compressed`) or throw at `result!` and leave the page
with the file it had (`CompressionFails`). The stack holds Home pages and
editors: the arrow of an editor pushes Home on top of it, an answer leaves a single Home
page (or, for a refused edit, the editor), and an answer whose editor has gone does nothing.
`wants`, `wanted` and `hasty` are history: what the user has chosen, what he wanted at the
tap a request comes from, and whether he went on while the page was busy: tapped Edit or
Post during a download, a compression or a request, or chose another picture while one was
being compressed.

## 3. Runs

All finish on two workers in at most a few minutes; "calls" are calls in flight at the same time.

| Run | Instance | Shows |
|---|---|---|
| `room_calls` | 2 calls of any kind, 3 messages, 2 failures | the document is only there with its first message, updates find their document, orphans come from failures only, badges never overcount, and undisturbed they are exact, two increments that overlap included |
| `reading` | 3 calls, 2 messages, 1 failure, Bob reads, fairness | "Seen" only under messages whose addressee had the chat on screen, set by him alone and for good; opening clears the badge; the newest message becomes seen |
| `page_races` | 2 calls, 2 messages; both users start, text and image, no waiting, acceptances | the call that answers a request is one of the room's receiver, as long as one `set` wrote the room |
| `page_protocol` | 2 calls, 3 messages; one user starts, text only, the peer may come in from a notification | the screens implement `ChatRequest`; the preview is recent; a decline that is shown is stored |
| `page_failures` | 2 calls, 3 messages, 1 failure; the peer comes in from the lists only | the protocol and the badges with a failure anywhere; `set` never replaces the room |
| `image_gate` (violation) | one user, images | chat.dart:444 is not kept: images pass the gate |
| `both_first` (violation) | both users send first | chat_service.dart:39 is not kept: `set` replaces a room |
| `failed_decline` (violation) | 1 failure | chat_request.dart:53,56 are not kept: shown declined, still pending |
| `session` | 2 users, 2 phones, 2 requests in flight, 3 taps, 1 failure or killed app; any start refused, any push token late | a phone stores the user who entered its code or nobody; while nothing fails and every answer meets its screen, tokens and phones agree, whoever is on a home page can be called, and a logout leaves nobody stored behind the sign-in page, except for the users a start refused or a page verified without a push token |
| `feed` | 2 posts (1 of the user), page size 1, 3 taps, 1 build from outside, 1 failure, fairness | no tab contradicts what the user was told he did; Load More and the spinners end |
| `editor` | 2 editors, 1 post, 2 pictures, stack of 4, 2 pictures chosen, 2 requests, 1 failure | what is sent is what was wanted at the tap, unless the user was hasty or another editor wrote the file; a spinner has a cause |
| `edit_media` (violation) | 2 editors, 2 posts, 1 picture chosen | edit_post.dart:150 is not kept: the picture of another post is sent |

Why these bounds. The room has two users by construction. Two calls suffice for every race
of two handlers; the third message of `room_calls` is there because the first belongs to
`set`, so that only two more make two increments that can overlap. In the runs of the pages
a slot is held by a handler from its tap to its last read, and the reads a page makes when
it opens need none, so that a send, its check and an answer of the peer overlap. One failure
reaches every "stopped half way" state, two (`room_calls`) a failed first send followed by
another. `page_races` leaves failures and declines out: what it asks is about the room
`set` writes over, and the theorem `AnswersOfReceivers` holds with both. The counters in
the model only grow with sends, so `MaxMessages` bounds them. Call slots are
interchangeable, hence `SYMMETRY` in the runs without liveness; so are users, phones, posts
and pictures in `session` and `editor`.

Two users on two phones let one user move between phones and two meet on one, and two
requests let an answer cross another; each sign-in, logout or save counts as a tap, and
three are a sign-in, what follows it and one that interferes. In the feed a page of one post
out of two makes "there is more" true; one failure can hit any request. Two editors are what
it takes for one to write the other's file, two pictures what it takes for a page to write
`temp.jpg` twice, in either order, and a stack of four holds Home, editor, Home, editor. One
post is enough in `editor`, since both editors may be opened for it; `edit_media` needs two.

`page_protocol` and `page_failures` differ in one thing that matters: a failed send still
notifies the peer. With both, the peer is offered to send the first message himself, and
then the room has two initiators, which is the situation of `both_first`. The protocol is
therefore claimed for one initiator, and `both_first` and `image_gate` show what happens
beyond it.

Every property has a mutant of a modelled definition (a dropped guard, a swapped field, a
reordered step) under which its run finds it violated; they stand before the definition
they change.

Fairness (`ReadingFairness`): Firestore answers a request that is not failed by `Abort`, so
`Step` is weakly fair per slot; the framework calls a builder for what its stream has
delivered, which is strong fairness of `Render`, because the slots it needs may be taken by
the peer again and again, a limit of the model and not of the app. Users owe nothing: no
fairness on opening, sending or closing. Both liveness properties excuse failures, since
nothing in the code retries.
`FeedFairness`: the backend answers the request of a tab and of a delete or bump, and the
framework calls the handler of an answer that is there (weak fairness of each). The user and
other people's posts owe nothing. Builds from outside are bounded (`MaxRedraws`): a page that
were built for ever faster than it is answered would spin for ever.

`room_calls`, `page_races` and the other safety runs hold without any fairness. Deadlock is
checked in all passing runs except `editor`, where every editor may have been opened
and closed, and `feed`, where the user may have tapped all he taps.

## 4. Proofs

All theorems hold for every value of the constants that meets the modules' assumptions (the
two users differ, sentinels are not values, sets of slots are finite where they are counted,
bounds are natural numbers). TLC evaluates these assumptions in the runs.

`ChatRoomProofs`. `TypeCorrect`, `RoomAlwaysBacked`, `CallsAlwaysBacked` follow from
`Invariant`. None of them is inductive alone: an update writes a field of the document, so
even the type needs that a call at an update has seen one (`CallsBacked`) and that nothing
deletes it; that the room has its opening message needs that the call about to create it has
stored one of its user's, addressed to the peer. `BadgesNeverOvercount`: `set` puts the
badges back to 1 whatever they were, while increments of other calls are still to come, so
`BadgeInv` adds that the calls about to count or to create are never more than the stored
messages.

`ChatMessagesProofs`. `SeenByAddresseeOnly` needs `Marked` (a call about to mark has picked a
message of its user, and messages are not rewritten). `OrphansByFaultOnly` needs that,
without a failure, messages without a room have a send that is on its way to `set`.

`ChatReadingProofs`. Every step of the pages is a step of the room (`RoomStep`), so that
`ReadingSpec` implements the room's `Spec` (`ReadingImplementsRoom`) and the room's theorems
hold under the pages. `SeenWasRead` adds that every call that marks was started for a user
who has had the chat on screen (`ReadInv`).

`ChatPagesProofs`. `PagesInv` says which handler of which page runs which call (`Slots`) and
that, while one `set` has written the room, a request page offering its buttons belongs to
the receiver the room names (`RequestBacked`), and so does a call that answers
(`AnswersBacked`); `AnswersOfReceivers` follows for any users, buttons and failures. A second
`set` may swap the roles under a page that has read them, and then a user may answer his own
request: `both_first` shows how the room gets replaced, `RoomNeverReplaced` where it cannot.

Two conditions on the constants stand for what users do, and `both_first`, `image_gate` and
the remark on failed sends in section 3 show why each part is there:

* `OneAsker(a)`: only `a` may open the chat before he is written to, and there are
  notifications only where no send fails. Then before the room is there only `a` has a page
  or a send (`AskerAlone`).
* `Conversation(a)`: `OneAsker(a)`, texts only, and each user waits for a send. Then a user
  has one handler of a send at a time (`OneAtOnce`).

`PagesImplementProtocol` is the refinement of `ChatRequest` under `Conversation`. Its
`ProtocolInv` is the reason the gates work although each reads before it sends: before the
room is there the first message is alone (`OneSend`, `FirstAsks`); after it, a send can only
have passed the gate because the request was accepted, and then it knows the room and never
reaches `set` again.

Three theorems say where the statements hold that the violation runs refute elsewhere.
`ContinuesAfterAcceptance` (against `image_gate`), under `Conversation`: the protocol's steps
raise the number of messages past one only once it is open. The other two need `OneAsker`
and waiting (`OneAtATime`) but allow images. `RoomNeverReplaced` (against `both_first`): every
`set` on its way belongs to `a`, who has one send, so the room it has read to be missing is
still missing (`CreatorInv`). `DeclinesAreStored` (against `failed_decline`) is for
`MaxFaults = 0`: a page shows a decline because it was handed one or because its update has
been carried out, and the only step back to "pending" is the `set` of a missing room, which
no request page stands before.

`ChatListsProofs`, what the lists and the home page show:

* `BadgesCountEverything`: `TallyInv` states what the badges and the calls still to count add
  up to while at most one `set` has run.
* `ScreensKeepRoom`: the steps of the screens are steps of the room or reads that failed
  (`RoomSteps`), so the room's guarantees hold under them. (The screens of `ChatPages` start no
  reset and no mark; those are `ChatReading`'s, which `ReadingImplementsRoom` covers.)
* `PreviewsAreRecent`, for any users who wait for their sends (`OneAtATime`), images
  included: a call that is about to write the preview has the newest message of its user
  (`LateNewest`), and while nothing has failed a message newer than the preview, of the user
  the preview is of, is the message of such a call (`ToComeLast`). Both rest on a user having
  one send.
* `BadgesCountReceived`, under `OneAsker`, with images, failures and any number of sends: the
  field a send counts in is chosen by the roles it read, and these never change because only
  `a` ever reaches `set` (`AskerCreates`); then a user's badge and the calls still to count for
  him are at most what he was sent (`Counted`). Without `OneAsker` a replaced room may swap
  the roles under a send that has read the old ones.

The runs `page_protocol` and `page_failures` are small instances of these conditions; the
theorems hold for more than they check (images, users who do not wait, more failures).

`SessionProofs`. Three layers, each a bundle on top of the one before: `OwnInv` (what a phone
stores and what its requests carry is of the user who signed in, which gives `StoresOwnUser`
and `SignsInByCode`), `KeptInv` (undisturbed, a phone shows the screens its stored user calls
for and has one request of the kind that leads on, which gives `SignsOutCleanly`), `TokenInv`
(undisturbed, a token names the phone that stores the user, a register on its way included,
and no save carries an older one: `TokensAreBacked`, `HomeIsReachable`). Undisturbed means no
failure and no answer that outlived its screen; a refused start and a late push token are
neither, so every layer says what they leave behind. `Excused` are the
users a phone may store behind its sign-in pages (those it refused, and those verified
early); `Held` says that a phone stores a user whose sign-in was complete, refused since or
not, and for those `Stored` says the backend knows his phone, another one, or is being told
to forget it (`Registered`). The excuse of a refused user ends where the code ends it, when
he enters a code on that phone; that of an early one does not, because the old token his
phone keeps is what his next save sends.

`PostFeedProofs`. `ShowsOwnWrites`: `told` and `gone` only change together with a new request
of both tabs, and an answer is at least as new as what the user had been told when it was
asked for.

`PostEditorProofs`. `EditorTypeCorrect` (with `Opened`: what is on the stack has been
opened), `SpinsForACause`, and `SendsWanted`: as long as its user is not hasty, an editor
has at most one compression in flight, and when it has none its file name agrees with what
he wants whenever it was the last to write that file, from the choice to the moment the
request reads it; the picture of a compression that fails is given up for the one before.

Only model-checked: the liveness properties under fairness (`OpeningClearsBadge`,
`NewestBecomesSeen`, `LoadMoreEnds`, `SpinnerEnds`), which are out of the prover's reach.
Every invariant and every action property of a passing run, and the refinement, is stated by
a theorem.

## 5. What is not modelled

Firestore is taken as a linearizable document store: queries and gets see what has been
written, writes take effect one after the other. Local caching and offline queues only
appear as failed or late requests. In the chat modules a screen below another in the
navigation stack is left out (a user has one chat screen open), and a user has one device.

* SMS codes, their ids and resending (`verify_otp.dart`): Firebase Auth's. The code is taken
  as right; a refused one is a failed request. One Verify page is open at a time.
* Requests of an app that was killed are dropped with it; one that reached the backend before
  is `Serve` followed by `Quit`.
* The order of posts: the comparator of `fetchPosts` is not transitive, so what `sort` does is
  unspecified, and no property of an order could be stated.
* Search, profiles of others, the carousel: they show the last answer and nothing depends on
  it. Notifications on their way, and which of them the phone shows, are FCM's and the
  operating system's; copies of push tokens in posts and pages are not modelled.
* Texts, names and the fields of forms, except where a decision depends on them; layout.
* `login.dart`, `signup.dart`, `auth_service.dart`: no screen uses them. The platform shells,
  the build output and the vendored pods of the repository are not the app's own code.
