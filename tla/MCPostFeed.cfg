\* A post of the user and one that somebody else publishes, two pages of one post.
SPECIFICATION FairFeed
CONSTANTS
  Post = {p1, p2}
  Mine = {p1}
  PageSize = 1
  NoOp = NoOp
  MaxRedraws = 1
  MaxTaps = 3
  MaxFaults = 1
INVARIANTS
  FeedTypeOK
  ReadsOwnWrites
PROPERTIES
  LoadMoreEnds
  SpinnerEnds
\* The behaviour ends when the user taps no more.
CHECK_DEADLOCK FALSE
