------------------------------ MODULE MCPostFeed ------------------------------
(***************************************************************************)
(* Small instances of PostFeed.                                            *)
(***************************************************************************)
EXTENDS PostFeed

=============================================================================
