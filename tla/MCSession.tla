------------------------------ MODULE MCSession ------------------------------
(***************************************************************************)
(* Small instances of Session.                                             *)
(***************************************************************************)
EXTENDS Session, TLC

Alike == Permutations(Call) \cup Permutations(User) \cup Permutations(Phone)

=============================================================================
