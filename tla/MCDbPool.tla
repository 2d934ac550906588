------------------------------ MODULE MCDbPool ------------------------------
(* DbPool with interchangeable listings. *)
EXTENDS DbPool, TLC

Symmetry == Permutations(Listers)
=============================================================================
