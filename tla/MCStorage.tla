----------------------------- MODULE MCStorage -----------------------------
(* A small instance of MergeScan for TLC: two keys, a value that does not    *)
(* compress, and one that does and that Replay takes for corruption; hashes  *)
(* that collide and wrap around.                                             *)
EXTENDS MergeScan

MCHash1 == <<3, 6>>
MCHash2 == <<5, 7>>
MCDeflatedLen == <<1, 1>>
MCWrites == {<<1, 1>>, <<1, 2>>, <<1, Tombstone>>, <<2, 1>>}
MCScanRanges == {<<NoBound, NoBound>>, <<2, NoBound>>, <<1, 2>>}
=============================================================================
