----------------------------- MODULE MCJobQueue -----------------------------
(* Small instances of JobQueue for TLC. *)
EXTENDS JobQueue, TLC

\* Jobs and workers are interchangeable where no job is singled out (Hanging
\* is empty) and no liveness property is checked.
Symmetry == Permutations(Jobs) \union Permutations(Workers)

=============================================================================
