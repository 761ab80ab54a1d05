\* Both users send the first message.
SPECIFICATION PagesSpec
CONSTANTS
  Alice = alice
  Bob = bob
  Call = {c1, c2}
  NoRoom = NoRoom
  FirstStatus = {"pending"}
  Ops = {"send"}
  MaxMessages = 2
  MaxFaults = 0
  FromPost = {alice, bob}
  Notified = {}
  SendWays = {"text"}
  OneAtATime = TRUE
  NoTap = NoTap
  Closed = Closed
PROPERTY InitializeOnlyIfMissing
