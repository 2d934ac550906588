--------------------------- MODULE MCLibraryStore ---------------------------
(* LibraryStore with interchangeable units, importers and deleters. *)
EXTENDS LibraryStore, TLC

Symmetry ==
  Permutations(Units) \union Permutations(Importers) \union Permutations(Deleters)
=============================================================================
