---------------------------- MODULE BloomFilter ----------------------------
(***************************************************************************)
(* The Bloom filter of a node (bloom.cpp, bloom.h): sizing, bits packed    *)
(* into bytes, double hashing, serialisation.  The hash of a key is an     *)
(* arbitrary pair of words, fixed for a behaviour: what is checked holds   *)
(* for MurmurHash3 as for any other function.                              *)
(***************************************************************************)
EXTENDS Integers, Sequences, FiniteSetsExt

CONSTANTS
  ByteBits,      \* bits in a byte of bits_ (8)
  Align,         \* the filter's size is a multiple of this many bits (64)
  BitsPerEntry,  \* -ln(fpr) / ln(2)^2, rounded down (9 for fpr = 0.01)
  MaxHashes,     \* upper bound of num_hash_funcs_ (20)
  WordSize       \* 2^64

ASSUME BloomAssumption ==
  /\ {ByteBits, Align, BitsPerEntry, MaxHashes, WordSize} \subseteq Nat \ {0}
  /\ Align % ByteBits = 0

VARIABLE hash    \* key -> its two hash words

-----------------------------------------------------------------------------
\* base_hashes: MurmurHash3_x64_128, as far as it matters a function of the key.
base_hashes(key) == hash[key]

\* The constructor: an empty filter for n entries.  ln 2 is taken as 7/10.
NewFilter(n) ==
  LET entries == Max({n, 1})
      m == ((entries * BitsPerEntry + Align - 1) \div Align) * Align
      k == ((m * 7) \div entries + 5) \div 10
  IN  [bits |-> [b \in 1..m \div ByteBits |-> {}],
       num_hash_funcs |-> Min({Max({k, 1}), MaxHashes})]

bit_count(f) == Len(f.bits) * ByteBits

nth_hash(f, h, i) == ((h[1] + i * h[2]) % WordSize) % bit_count(f)

\* The positions add sets and might_contain tests.
Positions(f, key) ==
  {nth_hash(f, base_hashes(key), i) : i \in 0..f.num_hash_funcs - 1}

\* set_bit, for each of some positions, and get_bit; a byte is the set of its bits
\* that are 1.
set_bits(bits, positions) ==
  [b \in DOMAIN bits |->
     bits[b] \cup {p % ByteBits : p \in {q \in positions : q \div ByteBits + 1 = b}}]
get_bit(bits, pos) == pos % ByteBits \in bits[pos \div ByteBits + 1]

\* add, for each of some keys: they all set bits in the same array.
add_all(f, keys) == [f EXCEPT !.bits = set_bits(@, UNION {Positions(f, k) : k \in keys})]

filter_might_contain(f, key) == \A pos \in Positions(f, key) : get_bit(f.bits, pos)

-----------------------------------------------------------------------------
\* serialize: the number of hash functions, the number of bits, the bytes.
serialize(f) == <<f.num_hash_funcs, bit_count(f)>> \o f.bits

\* Mutant: one byte of the bit array is left behind.
BadByteCount(nb) == (nb - 1) \div ByteBits

ByteCount(nb) == nb \div ByteBits

\* deserialize, as a set: no filter when it throws.
deserialize(data) ==
  {[bits |-> SubSeq(data, 3, 2 + bytes), num_hash_funcs |-> data[1]] :
     bytes \in {n \in {ByteCount(data[i]) : i \in DOMAIN data \cap {2}} : Len(data) >= 2 + n}}
=============================================================================
