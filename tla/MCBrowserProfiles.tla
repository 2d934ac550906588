-------------------------- MODULE MCBrowserProfiles --------------------------
(* Small instances of BrowserProfiles for TLC. *)
EXTENDS BrowserProfiles, TLC

\* Jobs of a kind, and verifiers, are interchangeable in the safety runs.
Symmetry == Permutations(LoginJobs) \union Permutations(SolverJobs)
                \union Permutations(Verifiers)

=============================================================================
