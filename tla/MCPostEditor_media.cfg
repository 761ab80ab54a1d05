\* The same instance: an edit without a new picture keeps the one the post has.
SPECIFICATION EditorSpec
CONSTANTS
  Page = {e1, e2}
  Post = {p1, p2}
  Picture = {i1, i2}
  Home = Home
  NoPost = NoPost
  NoPicture = NoPicture
  NoFile = NoFile
  NoPage = NoPage
  NoRequest = NoRequest
  NoChoice = NoChoice
  MaxDepth = 4
  MaxCrops = 1
  MaxSends = 2
  MaxFaults = 1
INVARIANT
  EditKeepsMedia
SYMMETRY Alike
\* The run ends when every editor has been opened and closed.
CHECK_DEADLOCK FALSE
