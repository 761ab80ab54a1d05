------------------------------ MODULE PostFeed ------------------------------
(***************************************************************************)
(* The posts page (lib/posts.dart) in front of the backend's posts: two    *)
(* tabs, "All Posts" with Load More and "My Posts" with Delete and Bump.   *)
(*                                                                         *)
(* build() calls fetchPosts() for both tabs, so everything that calls      *)
(* setState asks the backend again, and a FutureBuilder only ever shows    *)
(* the answer to the request of the latest build (Rebuild).  The list      *)
(* allPosts, which load, refresh and load more fill, is never shown; only  *)
(* whether it is there matters.                                            *)
(*                                                                         *)
(* Which posts the backend puts into an answer, and their order, is its    *)
(* own affair; the sizes of pages are counted in posts of the model.       *)
(***************************************************************************)
EXTENDS Naturals, FiniteSets

CONSTANTS
  Post,        \* the posts there may ever be
  Mine,        \* those of the user, old enough to be bumped
  PageSize,    \* postsPerPage at the start, and what Load More adds
  NoOp,
  MaxRedraws,  \* bound: builds the page is given from outside
  MaxTaps,     \* bound: refreshes, load mores, deletes and bumps tapped
  MaxFaults    \* bound: requests that fail or whose answer is lost

Tab == {"all", "mine"}

ASSUME FeedConstants == /\ Mine \subseteq Post
                        /\ PageSize \in Nat \ {0}
                        /\ {MaxRedraws, MaxTaps, MaxFaults} \subseteq Nat

VARIABLES
  rev,         \* per post: its revision on the backend, 0 before it is published
  deleted,     \* the posts the backend has deleted
  list,        \* per tab: the request of the latest build, then its answer
  limit,       \* postsPerPage
  loads,       \* calls of _loadPosts in flight
  loaded,      \* allPosts is not null
  loadingMore,
  more,        \* a _loadMorePosts waits for its answer
  op,          \* the delete or bump in flight, or NoOp
  isLoading,
  told,        \* history: per post the revision the user was told he made
  gone,        \* history: the posts the user was told he deleted
  early,       \* history: Load More was tapped before allPosts was there
  redraws, taps, faults

backend == <<rev, deleted>>
loading == <<limit, loads, loaded, loadingMore, more>>
counts == <<redraws, taps, faults>>
fVars == <<backend, list, loading, op, isLoading, told, gone, early, counts>>

Fetch == [phase : {"asked", "answered", "shown", "failed", "error"},
          got : [Post -> Nat]]

Op == [kind : {"delete", "bump"}, post : Mine,
       phase : {"asked", "done", "failed"}]

ASSUME NoOpIsNone == NoOp \notin Op

\* The page, its requests and the posts.
FeedTypeOK ==
  /\ rev \in [Post -> Nat] /\ deleted \subseteq Mine
  /\ list \in [Tab -> Fetch]
  /\ limit \in Nat /\ loads \in Nat
  /\ loaded \in BOOLEAN /\ loadingMore \in BOOLEAN /\ more \in BOOLEAN
  /\ isLoading \in BOOLEAN /\ early \in BOOLEAN
  /\ op \in Op \cup {NoOp}
  /\ told \in [Post -> Nat] /\ gone \subseteq Mine
  /\ redraws \in Nat /\ taps \in Nat /\ faults \in Nat

Nothing == [p \in Post |-> 0]

Asked == [t \in Tab |-> [phase |-> "asked", got |-> Nothing]]

\* setState, or a build of the Home page around it: both tabs ask again.
Rebuild == list' = Asked

\* initState: the first build asks, and _loadPosts is called
FeedInit ==
  /\ rev = [p \in Post |-> IF p \in Mine THEN 1 ELSE 0]
  /\ deleted = {}
  /\ list = Asked
  /\ limit = PageSize
  /\ loads = 1
  /\ loaded = FALSE /\ loadingMore = FALSE /\ more = FALSE
  /\ op = NoOp /\ isLoading = FALSE
  /\ told = Nothing /\ gone = {} /\ early = FALSE
  /\ redraws = 0 /\ taps = 0 /\ faults = 0

Fault == faults < MaxFaults /\ faults' = faults + 1 /\ UNCHANGED <<redraws, taps>>

Tap == taps < MaxTaps /\ taps' = taps + 1 /\ UNCHANGED <<redraws, faults>>

-----------------------------------------------------------------------------
(* The backend                                                              *)

There == {p \in Post : rev[p] > 0 /\ p \notin deleted}

\* getAllPosts(limit)
Serve(t) ==
  /\ list[t].phase = "asked"
  /\ \E S \in SUBSET There :
       /\ Cardinality(S) = limit \/ (S = There /\ Cardinality(S) < limit)
       /\ list' = [list EXCEPT ![t] =
            [phase |-> "answered",
             got |-> [p \in Post |-> IF p \in S THEN rev[p] ELSE 0]]]
  /\ UNCHANGED <<backend, loading, op, isLoading, told, gone, early, counts>>

FetchFails(t) ==
  /\ list[t].phase \in {"asked", "answered"}
  /\ Fault
  /\ list' = [list EXCEPT ![t] = [phase |-> "failed", got |-> Nothing]]
  /\ UNCHANGED <<backend, loading, op, isLoading, told, gone, early>>

\* Somebody else publishes a post.
Publish(p) ==
  /\ rev[p] = 0
  /\ rev' = [rev EXCEPT ![p] = 1]
  /\ UNCHANGED <<deleted, list, loading, op, isLoading, told, gone, early, counts>>

ServeOp ==
  /\ op # NoOp /\ op.phase = "asked"
  /\ op' = [op EXCEPT !.phase = "done"]
  /\ IF op.kind = "delete"
       THEN deleted' = deleted \cup {op.post} /\ UNCHANGED rev
       ELSE rev' = [rev EXCEPT ![op.post] = @ + 1] /\ UNCHANGED deleted
  /\ UNCHANGED <<list, loading, isLoading, told, gone, early, counts>>

OpFails ==
  /\ op # NoOp /\ op.phase # "failed"
  /\ Fault
  /\ op' = [op EXCEPT !.phase = "failed"]
  /\ UNCHANGED <<backend, list, loading, isLoading, told, gone, early>>

-----------------------------------------------------------------------------
(* Showing                                                                  *)

\* Mutant: the builder stays in its waiting branch when the future failed.
ShowData(t) ==
  /\ list[t].phase = "answered"
  /\ list' = [list EXCEPT ![t].phase = "shown"]
  /\ UNCHANGED <<backend, loading, op, isLoading, told, gone, early, counts>>

\* The FutureBuilder is called with the answer, or with the error: then the tab
\* has neither a list nor a button.
Show(t) ==
  /\ \/ /\ list[t].phase = "answered"
        /\ list' = [list EXCEPT ![t].phase = "shown"]
     \/ /\ list[t].phase = "failed"
        /\ list' = [list EXCEPT ![t].phase = "error"]
  /\ UNCHANGED <<backend, loading, op, isLoading, told, gone, early, counts>>

\* _fetchUserData has read the preferences, or a chat of the user changed and
\* the StreamBuilder of the Home page builds the page again.
Redraw ==
  /\ redraws < MaxRedraws
  /\ redraws' = redraws + 1
  /\ Rebuild
  /\ UNCHANGED <<backend, loading, op, isLoading, told, gone, early, taps, faults>>

HasList(t) == list[t].phase = "shown" /\ list[t].got # Nothing

-----------------------------------------------------------------------------
(* All Posts                                                                *)

\* _handleRefresh does not wait for _loadPosts
Refresh ==
  /\ HasList("all")
  /\ Tap
  /\ loads' = loads + 1
  /\ UNCHANGED <<backend, list, limit, loaded, loadingMore, more, op, isLoading,
                told, gone, early>>

LoadsReturn ==
  /\ loads > 0
  /\ loads' = loads - 1
  /\ \/ loaded' = TRUE /\ Rebuild /\ UNCHANGED counts
     \/ Fault /\ UNCHANGED <<loaded, list>>
  /\ UNCHANGED <<backend, limit, loadingMore, more, op, isLoading, told, gone, early>>

\* allPosts! throws while allPosts is null, after loadingMore has been set.
TapMore ==
  /\ HasList("all")
  /\ ~loadingMore
  /\ Tap
  /\ loadingMore' = TRUE
  /\ IF loaded
       THEN limit' = limit + PageSize /\ more' = TRUE /\ UNCHANGED early
       ELSE early' = TRUE /\ UNCHANGED <<limit, more>>
  /\ Rebuild
  /\ UNCHANGED <<backend, loads, loaded, op, isLoading, told, gone>>

\* Mutant: the last page is reached and loadingMore is left set.
MoreReturnsEnd ==
  /\ more
  /\ more' = FALSE
  /\ \/ /\ loadingMore' = (limit >= Cardinality(There))
        /\ Rebuild /\ UNCHANGED counts
     \/ Fault /\ UNCHANGED <<loadingMore, list>>
  /\ UNCHANGED <<backend, limit, loads, loaded, op, isLoading, told, gone, early>>

\* A failed answer is not caught: loadingMore stays set.
MoreReturns ==
  /\ more
  /\ more' = FALSE
  /\ \/ loadingMore' = FALSE /\ Rebuild /\ UNCHANGED counts
     \/ Fault /\ UNCHANGED <<loadingMore, list>>
  /\ UNCHANGED <<backend, limit, loads, loaded, op, isLoading, told, gone, early>>

-----------------------------------------------------------------------------
(* My Posts                                                                 *)

\* Mutant: the dialog takes whatever post stands in the row by then.
TapOpAny(kind, p) ==
  /\ HasList("mine") /\ ~isLoading
  /\ Tap
  /\ \E q \in Post : list["mine"].got[q] > 0 /\
       op' = [kind |-> kind, post |-> q, phase |-> "asked"]
  /\ isLoading' = TRUE
  /\ Rebuild
  /\ UNCHANGED <<backend, loading, told, gone, early>>

\* _deletePost and _bumpPost, confirmed in their dialogs
TapOp(kind, p) ==
  /\ HasList("mine") /\ ~isLoading
  /\ p \in Mine /\ list["mine"].got[p] > 0
  /\ Tap
  /\ op' = [kind |-> kind, post |-> p, phase |-> "asked"]
  /\ isLoading' = TRUE
  /\ Rebuild
  /\ UNCHANGED <<backend, loading, told, gone, early>>

\* Mutant: isLoading is reset without setState.
OpReturnsQuietly ==
  /\ op # NoOp /\ op.phase = "done"
  /\ told' = [told EXCEPT ![op.post] = rev[op.post]]
  /\ gone' = IF op.kind = "delete" THEN gone \cup {op.post} ELSE gone
  /\ op' = NoOp
  /\ isLoading' = FALSE
  /\ UNCHANGED <<backend, list, loading, early, counts>>

\* The snack bar tells of success; a failure, thrown or answered, only of
\* failure.  Either way the finally block calls setState.
OpReturns ==
  /\ op # NoOp /\ op.phase \in {"done", "failed"}
  /\ IF op.phase = "done"
       THEN IF op.kind = "delete"
              THEN gone' = gone \cup {op.post} /\ UNCHANGED told
              ELSE told' = [told EXCEPT ![op.post] = rev[op.post]] /\ UNCHANGED gone
       ELSE UNCHANGED <<told, gone>>
  /\ op' = NoOp
  /\ isLoading' = FALSE
  /\ Rebuild
  /\ UNCHANGED <<backend, loading, early, counts>>

-----------------------------------------------------------------------------
FeedNext ==
  \/ \E t \in Tab : Serve(t) \/ FetchFails(t) \/ Show(t)
  \/ \E p \in Post : Publish(p) \/ \E kind \in {"delete", "bump"} : TapOp(kind, p)
  \/ ServeOp \/ OpFails \/ OpReturns
  \/ Redraw \/ Refresh \/ LoadsReturn \/ TapMore \/ MoreReturns

FeedSpec == FeedInit /\ [][FeedNext]_fVars

\* Requests are answered (or fail), and the framework handles answers.
FeedFairness ==
  /\ \A t \in Tab : WF_fVars(Serve(t)) /\ WF_fVars(Show(t))
  /\ WF_fVars(ServeOp) /\ WF_fVars(OpReturns)
  /\ WF_fVars(LoadsReturn) /\ WF_fVars(MoreReturns)

FairFeed == FeedSpec /\ FeedFairness

-----------------------------------------------------------------------------
(* Properties                                                               *)

\* What a tab shows agrees with what the user has been told he did: no deleted
\* post comes back and no bump is undone by an answer that was asked for before.
ReadsOwnWrites ==
  \A t \in Tab, p \in Post :
    list[t].phase = "shown" /\ list[t].got[p] > 0 =>
      p \notin gone /\ list[t].got[p] >= told[p]

\* The button works again after a load, unless a request failed or it was tapped
\* before the first load had come back: then it is dead as long as the page is.
LoadMoreEnds == loadingMore ~> (~loadingMore \/ faults > 0 \/ early)

Spinning(t) ==
  list[t].phase \notin {"shown", "error"} \/ (t = "mine" /\ isLoading)

\* No tab waits for ever, whatever fails and however often the page is built.
SpinnerEnds == \A t \in Tab : Spinning(t) ~> ~Spinning(t)

=============================================================================
