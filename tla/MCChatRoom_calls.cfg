\* Any calls of either user, two at a time, two of them failing; three messages:
\* one that creates the room and two whose increments overlap.
SPECIFICATION Spec
CONSTANTS
  Alice = alice
  Bob = bob
  Call = {c1, c2}
  NoRoom = NoRoom
  FirstStatus = {"pending", "accepted"}
  Ops = {"send", "refresh", "accept", "decline"}
  MaxMessages = 3
  MaxFaults = 2
SYMMETRY Slots
INVARIANTS
  TypeOK
  RoomBacked
  CallsBacked
  OrphanOnlyByFault
  BadgesBounded
  BadgesExact
