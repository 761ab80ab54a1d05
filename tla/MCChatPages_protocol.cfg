\* One user opens the chat from a post, the other one from its notification.
SPECIFICATION PagesSpec
CONSTANTS
  Alice = alice
  Bob = bob
  Call = {c1, c2}
  NoRoom = NoRoom
  FirstStatus = {"pending"}
  Ops = {"send", "accept", "decline"}
  MaxMessages = 3
  MaxFaults = 0
  FromPost = {alice}
  Notified = {bob}
  SendWays = {"text"}
  OneAtATime = TRUE
  NoTap = NoTap
  Closed = Closed
SYMMETRY Slots
INVARIANT
  PreviewIsRecent
  DeclineStored
PROPERTY
  ImplementsProtocol
