---- MODULE MCReviewDesk ----
EXTENDS ReviewDesk, TLC
CONSTANTS c1, c2
ClientNames == {c1, c2}
Symmetric == Permutations(ClientNames)
====
