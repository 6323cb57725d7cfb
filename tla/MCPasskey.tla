------------------------------ MODULE MCPasskey ------------------------------
\* Passkey on small instances.
EXTENDS Passkey, TLC

CONSTANTS c1, c2, ch1, ch2, ch3, r1, r2

MCSymmetry == Permutations(Credentials) \cup Permutations(Challenges) \cup Permutations(Requests)
=============================================================================
