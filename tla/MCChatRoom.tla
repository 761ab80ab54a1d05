----------------------------- MODULE MCChatRoom -----------------------------
(***************************************************************************)
(* Small instances of ChatRoom: two users, two calls in flight.            *)
(***************************************************************************)
EXTENDS ChatRoom, TLC

Slots == Permutations(Call)

=============================================================================
