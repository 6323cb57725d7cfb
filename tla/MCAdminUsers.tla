---------------------------- MODULE MCAdminUsers ----------------------------
\* AdminUsers on small instances: su is the super administrator.
EXTENDS AdminUsers, TLC

CONSTANTS su, a1, a2, t1, t2, t3, r1, r2

MCSymmetry == Permutations(Accounts \ Supers) \cup Permutations(Tokens) \cup Permutations(Requests)
=============================================================================
