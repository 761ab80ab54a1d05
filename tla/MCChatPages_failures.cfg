\* One user opens the chat from a post; a read, a call or an app fails.
SPECIFICATION PagesSpec
CONSTANTS
  Alice = alice
  Bob = bob
  Call = {c1, c2}
  NoRoom = NoRoom
  FirstStatus = {"pending"}
  Ops = {"send", "accept", "decline"}
  MaxMessages = 3
  MaxFaults = 1
  FromPost = {alice}
  Notified = {}
  SendWays = {"text"}
  OneAtATime = TRUE
  NoTap = NoTap
  Closed = Closed
SYMMETRY Slots
INVARIANT
  BadgeCountsReceived
PROPERTY
  ImplementsProtocol
  InitializeOnlyIfMissing
