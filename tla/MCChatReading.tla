--------------------------- MODULE MCChatReading ---------------------------
(***************************************************************************)
(* Small instances of ChatReading: two users, three calls in flight.       *)
(***************************************************************************)
EXTENDS ChatReading, TLC

Slots == Permutations(Call)

=============================================================================
