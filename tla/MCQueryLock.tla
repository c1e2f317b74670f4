---- MODULE MCQueryLock ----
EXTENDS QueryLock, TLC
MCSymmetry == Permutations(Jobs) \cup Permutations(Enqueuers)
====
