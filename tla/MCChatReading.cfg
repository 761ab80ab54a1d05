\* Bob's page opens, renders and closes while both users send; one failure.
SPECIFICATION FairReadingSpec
CONSTANTS
  Alice = alice
  Bob = bob
  Call = {c1, c2, c3}
  NoRoom = NoRoom
  FirstStatus = {"pending"}
  Ops = {"send", "refresh"}
  MaxMessages = 2
  MaxFaults = 1
  Readers = {bob}
INVARIANTS
  ReadingTypeOK
  SeenHasReader
PROPERTIES
  SeenByAddressee
  OpeningClearsBadge
  NewestBecomesSeen
