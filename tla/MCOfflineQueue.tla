--------------------------- MODULE MCOfflineQueue ---------------------------
\* Instances of OfflineQueue for TLC: requests and syncs are interchangeable.
EXTENDS OfflineQueue, TLC

Symmetry == Permutations(Request) \cup Permutations(Sync)
=============================================================================
