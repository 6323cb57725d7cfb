----------------------------- MODULE MCSessions -----------------------------
\* Sessions on small instances.
EXTENDS Sessions, TLC

CONSTANTS u1, u2, t1, t2, t3, r1, r2, c1, c2

MCSymmetry == Permutations(Users) \cup Permutations(Tokens) \cup Permutations(Requests)
=============================================================================
