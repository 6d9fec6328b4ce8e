----------------------------- MODULE MCRetryer ------------------------------
(* Instances of Retryer for TLC.                                           *)
EXTENDS Retryer, TLC

CONSTANTS j1, j2, h1, h2

\* Sound for safety: jobs and goroutines differ in nothing but their names.
Symmetry == Permutations(Jobs) \cup Permutations(Handlers)

=============================================================================
