\* The update of a decline fails.
SPECIFICATION PagesSpec
CONSTANTS
  Alice = alice
  Bob = bob
  Call = {c1, c2}
  NoRoom = NoRoom
  FirstStatus = {"pending"}
  Ops = {"send", "accept", "decline"}
  MaxMessages = 1
  MaxFaults = 1
  FromPost = {alice}
  Notified = {}
  SendWays = {"text"}
  OneAtATime = TRUE
  NoTap = NoTap
  Closed = Closed
INVARIANT DeclineStored
