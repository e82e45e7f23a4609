------------------------------ MODULE MCEngine ------------------------------
(* Small instances of Engine for TLC. *)
EXTENDS Engine, TLC

CONSTANTS k1, k2, v1, v2, w1, w2, r1, s1, s2

WriterSymmetry == Permutations(Writers)
SnapshotSymmetry == Permutations(Snapshots)
=============================================================================
