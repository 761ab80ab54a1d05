\* One user sends images, one after the other.
SPECIFICATION PagesSpec
CONSTANTS
  Alice = alice
  Bob = bob
  Call = {c1, c2}
  NoRoom = NoRoom
  FirstStatus = {"pending"}
  Ops = {"send", "accept", "decline"}
  MaxMessages = 2
  MaxFaults = 0
  FromPost = {alice}
  Notified = {}
  SendWays = {"text", "image"}
  OneAtATime = TRUE
  NoTap = NoTap
  Closed = Closed
INVARIANT ContinueOnlyAfterAcceptance
