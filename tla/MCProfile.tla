------------------------------ MODULE MCProfile ------------------------------
\* Profile on small instances: a large photograph, a thumbnail of another format and a
\* file that is no image.
EXTENDS Profile, TLC

CONSTANTS v1, v2, r1, r2

MCSections == {"education", "award"}

MCImages == {[name |-> "photo",  ext |-> "png", dim |-> 257, readable |-> TRUE],
             [name |-> "thumb",  ext |-> "jpg", dim |-> 64,  readable |-> TRUE],
             [name |-> "broken", ext |-> "jpg", dim |-> 0,   readable |-> FALSE]}

MCSymmetry == Permutations(Values) \cup Permutations(Requests)
=============================================================================
