\* Both users open the chat from a post and tap without waiting; answers are
\* acceptances.
SPECIFICATION PagesSpec
CONSTANTS
  Alice = alice
  Bob = bob
  Call = {c1, c2}
  NoRoom = NoRoom
  FirstStatus = {"pending"}
  Ops = {"send", "accept"}
  MaxMessages = 2
  MaxFaults = 0
  FromPost = {alice, bob}
  Notified = {}
  SendWays = {"text", "image"}
  OneAtATime = FALSE
  NoTap = NoTap
  Closed = Closed
SYMMETRY Slots
INVARIANTS
  PagesTypeOK
  AnsweredByReceiver
