------------------------------- MODULE MCDkcm -------------------------------
(* Instances of Dkcm for TLC.                                              *)
EXTENDS Dkcm, TLC

CONSTANTS r1, r2, r3, p1, p2, p3, p4, h1, h2

\* All requests compete for the clusters of one configuration; those of other
\* configurations meet them only at chanLock and at Boskos.
OneConfig == [r \in Tokens |-> "default"]

\* Sound for safety: tokens with the same parameters, projects and handlers are
\* told apart by nothing but their names.
Symmetry ==
    Permutations(Tokens) \cup Permutations(Projects) \cup Permutations(Handlers)

=============================================================================
