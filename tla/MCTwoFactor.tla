---------------------------- MODULE MCTwoFactor -----------------------------
\* TwoFactor on small instances.
EXTENDS TwoFactor, TLC

CONSTANTS d1, d2, d3, l1, l2, r1, r2

MCSymmetry == Permutations(Draws) \cup Permutations(Challenges) \cup Permutations(Requests)
=============================================================================
