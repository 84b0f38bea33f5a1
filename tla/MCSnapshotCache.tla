-------------------------- MODULE MCSnapshotCache --------------------------
EXTENDS SnapshotCache, TLC

CONSTANTS t1, t2, d1, d2, d3

Symmetry == Permutations(Threads) \cup Permutations(SnapDirs)
=============================================================================
