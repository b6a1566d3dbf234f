--------------------------- MODULE MCConnectionPool ---------------------------
EXTENDS ConnectionPool, TLC

\* No property names a user or a slot, and the run checks no liveness.
Symmetry == Permutations(Users) \union Permutations(Slots)
=============================================================================
