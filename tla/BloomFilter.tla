----------------------------- MODULE BloomFilter -----------------------------
(***************************************************************************)
(* bloom.Filter: a set of bits of a given size.  A key stands for its      *)
(* bytes; the two FNV hashes are constants.  Adding keys only sets bits,   *)
(* so the filter of a table is the union of what its keys set.             *)
(***************************************************************************)
EXTENDS Integers

CONSTANTS Hash1, Hash2,   \* hashes: the two hashes of each key
          WordBits,       \* bits of an unsigned word: 32 in the code
          BitsPerEntry,   \* -ln(fp) / ln(2)^2, which the code rounds up over all entries
          NumHash         \* numHash

ASSUME FilterAssumption ==
  /\ \A k \in DOMAIN Hash1 : Hash1[k] \in Nat
  /\ \A k \in DOMAIN Hash2 : Hash2[k] \in Nat
  /\ WordBits \in Nat
  /\ BitsPerEntry \in Nat \ {0}
  /\ NumHash \in Nat \ {0}

\* numBits of a filter for n entries.
FilterSize(n) == BitsPerEntry * (IF n < 1 THEN 1 ELSE n)

\* The bits of a key in a filter of a given size; the sum wraps around.
BitsOf(key, size) ==
  {((Hash1[key] + i * Hash2[key]) % 2^WordBits) % size : i \in 0..(NumHash - 1)}

\* Faulty variant: the filter is filled as if it were one bit larger.
FilterOfWrongSize(added, size) ==
  [size |-> size, bits |-> UNION {BitsOf(key, size + 1) : key \in added}]

\* NewForEntries and an Add for each key; Decode gives back what Encode was given.
FilterOf(added, size) == [size |-> size, bits |-> UNION {BitsOf(key, size) : key \in added}]

MayContain(filter, key) == BitsOf(key, filter.size) \subseteq filter.bits
=============================================================================
