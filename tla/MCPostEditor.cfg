\* Two editors, one post, each with or without a picture; two pictures chosen.
SPECIFICATION EditorSpec
CONSTANTS
  Page = {e1, e2}
  Post = {p1}
  Picture = {i1, i2}
  Home = Home
  NoPost = NoPost
  NoPicture = NoPicture
  NoFile = NoFile
  NoPage = NoPage
  NoRequest = NoRequest
  NoChoice = NoChoice
  MaxDepth = 4
  MaxCrops = 2
  MaxSends = 2
  MaxFaults = 1
INVARIANTS
  EditorTypeOK
  SendsWhatIsWanted
  SpinnerHasCause
SYMMETRY Alike
\* The run ends when every editor has been opened and closed.
CHECK_DEADLOCK FALSE
