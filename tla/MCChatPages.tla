---------------------------- MODULE MCChatPages ----------------------------
(***************************************************************************)
(* Small instances of ChatPages: two users, two calls in flight.            *)
(***************************************************************************)
EXTENDS ChatPages, TLC

Slots == Permutations(Call)

=============================================================================
