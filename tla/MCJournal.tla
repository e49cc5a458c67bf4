----------------------------- MODULE MCJournal -----------------------------
(* Journal on small sets of rows and keys. *)
EXTENDS Journal, TLC

Symmetry == Permutations(RowIds) \cup Permutations(Keys)
=============================================================================
