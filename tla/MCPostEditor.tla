----------------------------- MODULE MCPostEditor -----------------------------
(***************************************************************************)
(* Small instances of PostEditor.                                          *)
(***************************************************************************)
EXTENDS PostEditor, TLC

Alike == Permutations(Page) \cup Permutations(Post) \cup Permutations(Picture)

=============================================================================
