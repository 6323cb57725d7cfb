--------------------------- MODULE MCRegistration ---------------------------
\* Registration on small instances.
EXTENDS Registration, TLC

CONSTANTS k1, k2, k3, r1, r2, r3

MCSymmetry == Permutations(Temps) \cup Permutations(Requests)
=============================================================================
