---------------------------- MODULE PostFeedProofs ----------------------------
(***************************************************************************)
(* Proofs about PostFeed for any posts, page size and bounds.              *)
(***************************************************************************)
EXTENDS PostFeed, TLAPS

USE DEF backend, loading, counts, Fault, Tap, Rebuild, Tab

LEMMA AskedType == Nothing \in [Post -> Nat] /\ Asked \in [Tab -> Fetch]
  BY DEF Nothing, Asked, Fetch

LEMMA FeedInitTyped == FeedInit => FeedTypeOK
  <1> SUFFICES ASSUME FeedInit PROVE FeedTypeOK
    OBVIOUS
  <1>1. rev \in [Post -> Nat] /\ told \in [Post -> Nat] /\ list \in [Tab -> Fetch]
    BY AskedType DEF FeedInit
  <1>2. deleted \subseteq Mine /\ gone \subseteq Mine /\ op \in Op \cup {NoOp}
    BY DEF FeedInit
  <1>3. limit \in Nat /\ loads \in Nat /\ redraws \in Nat /\ taps \in Nat /\ faults \in Nat
    BY FeedConstants DEF FeedInit
  <1>4. /\ loaded \in BOOLEAN /\ loadingMore \in BOOLEAN /\ more \in BOOLEAN
        /\ isLoading \in BOOLEAN /\ early \in BOOLEAN
    BY DEF FeedInit
  <1> QED
    BY <1>1, <1>2, <1>3, <1>4 DEF FeedTypeOK

\* A step of a tab's request keeps the list well-typed.
LEMMA ListTyped ==
  ASSUME FeedTypeOK, NEW t \in Tab, Serve(t) \/ FetchFails(t) \/ Show(t)
  PROVE  list' \in [Tab -> Fetch]
  <1> USE DEF FeedTypeOK
  <1>1. CASE Serve(t)
    <2>1. PICK S \in SUBSET There :
            list' = [list EXCEPT ![t] =
              [phase |-> "answered",
               got |-> [p \in Post |-> IF p \in S THEN rev[p] ELSE 0]]]
      BY <1>1 DEF Serve
    <2> DEFINE g == [p \in Post |-> IF p \in S THEN rev[p] ELSE 0]
    <2>2. g \in [Post -> Nat]
      OBVIOUS
    <2> HIDE DEF g
    <2>3. [phase |-> "answered", got |-> g] \in Fetch
      BY <2>2 DEF Fetch
    <2> QED
      BY <2>1, <2>3 DEF g
  <1>2. CASE FetchFails(t)
    BY <1>2, AskedType DEF FetchFails, Fetch
  <1>3. CASE Show(t)
    <2>1. list[t] \in Fetch
      OBVIOUS
    <2>2. \A ph \in {"shown", "error"} : [list[t] EXCEPT !.phase = ph] \in Fetch
      BY <2>1 DEF Fetch
    <2>3. PICK ph \in {"shown", "error"} :
            list' = [list EXCEPT ![t] = [list[t] EXCEPT !.phase = ph]]
      BY <1>3 DEF Show
    <2> QED
      BY <2>2, <2>3
  <1> QED
    BY <1>1, <1>2, <1>3

LEMMA NextTyped == FeedTypeOK /\ [FeedNext]_fVars => FeedTypeOK'
  <1> SUFFICES ASSUME FeedTypeOK, [FeedNext]_fVars PROVE FeedTypeOK'
    OBVIOUS
  <1> USE DEF FeedTypeOK
  <1>1. ASSUME NEW t \in Tab, Serve(t) \/ FetchFails(t) \/ Show(t)
        PROVE  FeedTypeOK'
    <2>1. list' \in [Tab -> Fetch]
      BY <1>1, ListTyped
    <2>2. /\ UNCHANGED <<backend, loading, op, isLoading, told, gone, early>>
          /\ redraws' \in Nat /\ taps' \in Nat /\ faults' \in Nat
      BY <1>1 DEF Serve, FetchFails, Show
    <2> QED
      BY <2>1, <2>2
  <1>2. ASSUME NEW p \in Post, Publish(p) PROVE FeedTypeOK'
    BY <1>2 DEF Publish
  <1>3. ASSUME NEW p \in Post, NEW kind \in {"delete", "bump"}, TapOp(kind, p)
        PROVE  FeedTypeOK'
    <2>1. op' \in Op
      BY <1>3 DEF TapOp, Op
    <2> QED
      BY <1>3, <2>1, AskedType DEF TapOp
  <1>4. CASE ServeOp
    <2>1. op \in Op /\ [op EXCEPT !.phase = "done"] \in Op /\ op.post \in Post
      BY <1>4, FeedConstants DEF ServeOp, Op
    <2>2. op.post \in Mine
      BY <2>1 DEF Op
    <2>3. deleted' \subseteq Mine
      BY <1>4, <2>2 DEF ServeOp
    <2>4. rev' \in [Post -> Nat]
      BY <1>4, <2>1 DEF ServeOp
    <2> QED
      BY <1>4, <2>1, <2>3, <2>4 DEF ServeOp
  <1>5. CASE OpFails
    <2>1. [op EXCEPT !.phase = "failed"] \in Op
      BY <1>5 DEF OpFails, Op
    <2> QED
      BY <1>5, <2>1 DEF OpFails
  <1>6. CASE OpReturns
    <2>1. op.post \in Mine /\ op.post \in Post
      BY <1>6, FeedConstants DEF OpReturns, Op
    <2>2. told' \in [Post -> Nat] /\ gone' \subseteq Mine
      BY <1>6, <2>1 DEF OpReturns
    <2> QED
      BY <1>6, <2>2, AskedType DEF OpReturns
  <1>7. CASE Redraw \/ Refresh
    BY <1>7, AskedType DEF Redraw, Refresh
  <1>8. CASE LoadsReturn
    <2>1. loaded' \in BOOLEAN /\ UNCHANGED <<loadingMore, more, isLoading, early>>
      BY <1>8 DEF LoadsReturn
    <2>2. list' \in [Tab -> Fetch]
      BY <1>8, AskedType DEF LoadsReturn
    <2>3. /\ limit' \in Nat /\ loads' \in Nat
          /\ redraws' \in Nat /\ taps' \in Nat /\ faults' \in Nat
          /\ UNCHANGED <<backend, op, told, gone>>
      BY <1>8 DEF LoadsReturn
    <2> QED
      BY <2>1, <2>2, <2>3
  <1>9. CASE TapMore
    <2>1. /\ loaded' \in BOOLEAN /\ loadingMore' \in BOOLEAN /\ more' \in BOOLEAN
          /\ isLoading' \in BOOLEAN /\ early' \in BOOLEAN
      BY <1>9 DEF TapMore
    <2>2. list' \in [Tab -> Fetch]
      BY <1>9, AskedType DEF TapMore
    <2>3. /\ limit' \in Nat /\ loads' \in Nat
          /\ redraws' \in Nat /\ taps' \in Nat /\ faults' \in Nat
          /\ UNCHANGED <<backend, op, told, gone>>
      BY <1>9, FeedConstants DEF TapMore
    <2> QED
      BY <2>1, <2>2, <2>3
  <1>10. CASE MoreReturns
    <2>1. /\ loadingMore' \in BOOLEAN /\ more' \in BOOLEAN
          /\ UNCHANGED <<loaded, isLoading, early>>
      BY <1>10 DEF MoreReturns
    <2>2. list' \in [Tab -> Fetch]
      BY <1>10, AskedType DEF MoreReturns
    <2>3. /\ limit' \in Nat /\ loads' \in Nat
          /\ redraws' \in Nat /\ taps' \in Nat /\ faults' \in Nat
          /\ UNCHANGED <<backend, op, told, gone>>
      BY <1>10 DEF MoreReturns
    <2> QED
      BY <2>1, <2>2, <2>3
  <1>11. CASE UNCHANGED fVars
    BY <1>11 DEF fVars
  <1> QED
    BY <1>1, <1>2, <1>3, <1>4, <1>5, <1>6, <1>7, <1>8, <1>9, <1>10, <1>11 DEF FeedNext

\* The page and the posts keep their types, whatever is tapped, built or lost.
THEOREM FeedTypeCorrect == FeedSpec => []FeedTypeOK
  BY FeedInitTyped, NextTyped, PTL DEF FeedSpec

-----------------------------------------------------------------------------
(***************************************************************************)
(* What the user has been told is true of the backend, and no answer that  *)
(* a tab may still show is older: the handlers that tell him build the     *)
(* page again, and that drops the answers asked for before.                *)
(***************************************************************************)
ToldIsDone ==
  /\ \A p \in Post : told[p] <= rev[p]
  /\ gone \subseteq deleted
  /\ op # NoOp /\ op.kind = "delete" /\ op.phase = "done" => op.post \in deleted

AnswersAreRecent ==
  \A t \in Tab, p \in Post :
    list[t].got[p] > 0 => p \notin gone /\ list[t].got[p] >= told[p]

LEMMA AskedIsRecent ==
  ASSUME list' = Asked PROVE AnswersAreRecent'
  BY DEF AnswersAreRecent, Asked, Nothing

LEMMA NextRecent ==
  FeedTypeOK /\ ToldIsDone /\ AnswersAreRecent /\ [FeedNext]_fVars
    => ToldIsDone' /\ AnswersAreRecent'
  <1> SUFFICES ASSUME FeedTypeOK, ToldIsDone, AnswersAreRecent, [FeedNext]_fVars
               PROVE  ToldIsDone' /\ AnswersAreRecent'
    OBVIOUS
  <1> USE DEF FeedTypeOK
  \* Steps that tell the user nothing and leave the backend alone.
  <1>1. ASSUME UNCHANGED <<rev, deleted, told, gone, op>> PROVE ToldIsDone'
    BY <1>1 DEF ToldIsDone
  <1>2. ASSUME UNCHANGED <<list, told, gone>> PROVE AnswersAreRecent'
    BY <1>2 DEF AnswersAreRecent
  <1>3. ASSUME NEW t \in Tab, Serve(t) PROVE ToldIsDone' /\ AnswersAreRecent'
    <2>1. PICK S \in SUBSET There :
            list' = [list EXCEPT ![t] =
              [phase |-> "answered",
               got |-> [p \in Post |-> IF p \in S THEN rev[p] ELSE 0]]]
      BY <1>3 DEF Serve
    <2>2. UNCHANGED <<rev, deleted, told, gone, op>>
      BY <1>3 DEF Serve
    <2>3. ASSUME NEW u \in Tab, NEW p \in Post, list'[u].got[p] > 0
          PROVE  p \notin gone' /\ list'[u].got[p] >= told'[p]
      <3>1. CASE u = t
        <4>1. list'[u].got[p] = IF p \in S THEN rev[p] ELSE 0
          BY <2>1, <3>1
        <4>2. p \in S /\ list'[u].got[p] = rev[p]
          BY <2>3, <4>1
        <4> QED
          BY <2>2, <4>2 DEF There, ToldIsDone
      <3>2. CASE u # t
        BY <2>1, <2>2, <2>3, <3>2 DEF AnswersAreRecent
      <3> QED
        BY <3>1, <3>2
    <2> QED
      BY <1>1, <2>2, <2>3 DEF AnswersAreRecent
  <1>4. ASSUME NEW t \in Tab, FetchFails(t) \/ Show(t)
        PROVE  ToldIsDone' /\ AnswersAreRecent'
    <2>1. /\ UNCHANGED <<rev, deleted, told, gone, op>>
          /\ \A u \in Tab : list'[u].got = list[u].got \/ list'[u].got = Nothing
      BY <1>4 DEF FetchFails, Show, Fetch
    <2> QED
      BY <1>1, <2>1 DEF AnswersAreRecent, Nothing
  <1>5. ASSUME NEW p \in Post, Publish(p) PROVE ToldIsDone' /\ AnswersAreRecent'
    BY <1>2, <1>5 DEF Publish, ToldIsDone
  <1>6. ASSUME NEW p \in Post, NEW kind \in {"delete", "bump"}, TapOp(kind, p)
        PROVE  ToldIsDone' /\ AnswersAreRecent'
    BY <1>6, AskedIsRecent DEF TapOp, ToldIsDone
  <1>7. CASE ServeOp
    <2>1. op \in Op /\ op.post \in Post
      BY <1>7, FeedConstants DEF ServeOp, Op
    <2>2. op'.kind = op.kind /\ op'.post = op.post
      BY <1>7, <2>1 DEF ServeOp, Op
    <2> QED
      BY <1>2, <1>7, <2>1, <2>2 DEF ServeOp, ToldIsDone
  <1>8. CASE OpFails
    <2>1. op' # NoOp => op'.phase = "failed"
      BY <1>8 DEF OpFails, Op
    <2> QED
      BY <1>2, <1>8, <2>1 DEF OpFails, ToldIsDone
  <1>9. CASE OpReturns
    <2>1. op.post \in Post /\ op \in Op
      BY <1>9, FeedConstants DEF OpReturns, Op
    <2> QED
      BY <1>9, <2>1, AskedIsRecent DEF OpReturns, ToldIsDone
  <1>10. CASE Redraw \/ TapMore
    BY <1>1, <1>10, AskedIsRecent DEF Redraw, TapMore
  <1>11. CASE Refresh
    BY <1>1, <1>2, <1>11 DEF Refresh
  <1>12. CASE LoadsReturn \/ MoreReturns
    BY <1>1, <1>2, <1>12, AskedIsRecent DEF LoadsReturn, MoreReturns
  <1>13. CASE UNCHANGED fVars
    BY <1>1, <1>2, <1>13 DEF fVars
  <1> QED
    BY <1>3, <1>4, <1>5, <1>6, <1>7, <1>8, <1>9, <1>10, <1>11, <1>12, <1>13 DEF FeedNext

\* Nothing the page shows contradicts what it told the user: no post comes back
\* and no bump is undone, in whatever order answers, builds and taps come.
THEOREM ShowsOwnWrites == FeedSpec => []ReadsOwnWrites
  <1>1. FeedInit => ToldIsDone /\ AnswersAreRecent
    BY DEF FeedInit, ToldIsDone, AnswersAreRecent, Asked, Nothing
  <1>2. AnswersAreRecent => ReadsOwnWrites
    BY DEF AnswersAreRecent, ReadsOwnWrites
  <1> QED
    BY <1>1, <1>2, NextRecent, FeedTypeCorrect, PTL DEF FeedSpec

=============================================================================
