------------------------------- MODULE MCChat --------------------------------
\* Chat on small instances.
EXTENDS Chat, TLC

CONSTANTS k1, k2, k3
=============================================================================
