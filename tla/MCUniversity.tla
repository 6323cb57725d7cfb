----------------------------- MODULE MCUniversity -----------------------------
\* University on small instances: two pages, one of them under two addresses, and a link
\* that is no page; a name in Latin letters and two that are not.
EXTENDS University, TLC

CONSTANTS p1, p2, r1, r2, u1, u2, n

MCUrlKey  == [page |-> "page", wwwPage |-> "page", other |-> "other", hash |-> ""]
MCNameKey == [latin |-> "latin", greek |-> " | | ", kanji |-> " | | "]

Card(u, name) == [url |-> u, name |-> name]

MCCards == {Card("page", "latin"), Card("other", "latin"), Card("wwwPage", "greek"), Card("hash", "kanji")}

MCSymmetry == Permutations(Units) \cup Permutations(Requests) \cup Permutations(Users)
=============================================================================
