------------------------------ MODULE MCHistory ------------------------------
(* Small instances of EngineHistory for TLC. *)
EXTENDS EngineHistory, TLC

CONSTANTS k1, k2, v1, v2, w1, w2, r1, s1, s2

WriterSymmetry == Permutations(Writers)
KeySymmetry == Permutations(Keys)
=============================================================================
