--------------------------- MODULE NodeFileProofs ---------------------------
(***************************************************************************)
(* Proofs about a node and its file, for any number of entries, any hash   *)
(* function, filter size and byte width: the Bloom filter has no false     *)
(* negative, a file reads back as what was written whole, and a file cut   *)
(* short is never read.                                                    *)
(***************************************************************************)
EXTENDS NodeFile, EntriesProofs

-----------------------------------------------------------------------------
(* The filter *)

\* Filters with at least one byte.
Filter == {f \in [bits : Seq(SUBSET Nat), num_hash_funcs : Nat] : Len(f.bits) # 0}

IsHash == hash \in [Keys -> Nat \X Nat]

LEMMA MaxOfTwo ==
  ASSUME NEW a \in Nat, NEW b \in Nat
  PROVE  /\ Max({a, b}) \in Nat /\ Max({a, b}) >= a /\ Max({a, b}) >= b
         /\ Min({a, b}) \in Nat
<1>1. \E x \in {a, b} : \A y \in {a, b} : x >= y
  OBVIOUS
<1>2. \E x \in {a, b} : \A y \in {a, b} : x <= y
  OBVIOUS
<1> QED
  BY <1>1, <1>2 DEF Max, Min

\* The arithmetic of packing bits into bytes.
LEMMA Packing ==
  ASSUME NEW b \in Nat \ {0}, NEW n \in Nat
  PROVE  /\ (n * b) \div b = n
         /\ \A p \in Nat : p < n * b => p \div b \in Nat /\ p \div b < n
<1>1. (n * b) \div b = n
  OBVIOUS
<1>2. ASSUME NEW p \in Nat, p < n * b PROVE p \div b \in Nat /\ p \div b < n
  <2>1. p \div b \in Nat /\ (p \div b) * b <= p
    OBVIOUS
  <2> QED
    BY <1>2, <2>1
<1> QED
  BY <1>1, <1>2

\* Rounding up to a multiple of Align, which ByteBits divides.
LEMMA Rounding ==
  ASSUME NEW n \in Nat \ {0}
  PROVE  LET m == ((n * BitsPerEntry + Align - 1) \div Align) * Align
         IN  m \in Nat \ {0} /\ m \div ByteBits \in Nat \ {0}
<1> DEFINE a == n * BitsPerEntry
           c == (a + Align - 1) \div Align
           m == c * Align
<1>1. ByteBits \in Nat \ {0} /\ Align \in Nat \ {0} /\ BitsPerEntry \in Nat \ {0} /\ Align % ByteBits = 0
  BY BloomAssumption
<1>2. a \in Nat /\ a >= 1
  BY <1>1
<1> HIDE DEF a
<1>3. c \in Nat /\ c >= 1
  BY <1>1, <1>2
<1> HIDE DEF c
<1>4. Align >= ByteBits
  BY <1>1
<1>5. m \in Nat /\ m >= Align
  BY <1>1, <1>3
<1> HIDE DEF m
<1>6. m \div ByteBits \in Nat /\ m \div ByteBits >= 1
  BY <1>1, <1>4, <1>5
<1>7. m \in Nat \ {0} /\ m \div ByteBits \in Nat \ {0}
  BY <1>1, <1>5, <1>6
<1> QED
  BY <1>7 DEF m, c, a

\* BloomFilter's constructor makes a filter that has room for a bit.
LEMMA NewFilterFacts ==
  ASSUME NEW n \in Nat
  PROVE  NewFilter(n) \in Filter
<1> DEFINE entries == Max({n, 1})
           m == ((entries * BitsPerEntry + Align - 1) \div Align) * Align
           k == ((m * 7) \div entries + 5) \div 10
           hashes == Min({Max({k, 1}), MaxHashes})
           size == m \div ByteBits
<1>1. entries \in Nat \ {0}
  BY MaxOfTwo
<1> HIDE DEF entries
<1>2. m \in Nat \ {0} /\ size \in Nat \ {0}
  BY <1>1, Rounding
<1> HIDE DEF m
<1>3. k \in Nat
  BY <1>1, <1>2
<1> HIDE DEF k
<1>4. MaxHashes \in Nat
  BY BloomAssumption
<1>5. Max({k, 1}) \in Nat
  BY <1>3, MaxOfTwo
<1>6. hashes \in Nat
  BY <1>4, <1>5, MaxOfTwo
<1>7. NewFilter(n) = [bits |-> [b \in 1..size |-> {}], num_hash_funcs |-> hashes]
  BY DEF NewFilter, entries, m, k
<1> HIDE DEF size, hashes
<1>8. Len([b \in 1..size |-> {}]) = size /\ [b \in 1..size |-> {}] \in Seq(SUBSET Nat)
  BY <1>2
<1> QED
  BY <1>2, <1>6, <1>7, <1>8 DEF Filter

\* Every position of a key lies in a byte of the filter.
LEMMA PositionsFit ==
  ASSUME NEW f \in Filter, IsHash, NEW k \in Keys, NEW p \in Positions(f, k)
  PROVE  p \in Nat /\ p \div ByteBits + 1 \in DOMAIN f.bits
<1> DEFINE n == Len(f.bits)
<1>1. ByteBits \in Nat \ {0} /\ WordSize \in Nat \ {0}
  BY BloomAssumption
<1>2. n \in Nat \ {0} /\ DOMAIN f.bits = 1..n /\ f.num_hash_funcs \in Nat
  BY DEF Filter
<1>3. PICK i \in 0..f.num_hash_funcs - 1 : p = nth_hash(f, hash[k], i)
  BY DEF Positions, base_hashes
<1>4. hash[k][1] \in Nat /\ hash[k][2] \in Nat /\ i \in Nat
  BY <1>2 DEF IsHash
<1> DEFINE h == hash[k][1] + i * hash[k][2]
<1>5. h \in Nat
  BY <1>4
<1>6. p = (h % WordSize) % (n * ByteBits)
  BY <1>3 DEF nth_hash, bit_count
<1> HIDE DEF h, n
<1>7. h % WordSize \in Nat
  BY <1>1, <1>5
<1>8. n * ByteBits \in Nat \ {0}
  BY <1>1, <1>2
<1>9. p \in Nat /\ p < n * ByteBits
  BY <1>6, <1>7, <1>8
<1>10. p \div ByteBits \in Nat /\ p \div ByteBits < n
  BY <1>1, <1>2, <1>9, Packing
<1> QED
  BY <1>2, <1>9, <1>10

\* What adding keys to a filter does to its parts.
LEMMA AddAllFacts ==
  ASSUME NEW f \in Filter, IsHash, NEW keys \in SUBSET Keys
  PROVE  LET bits == set_bits(f.bits, UNION {Positions(f, j) : j \in keys})
         IN  /\ add_all(f, keys) \in Filter
             /\ add_all(f, keys).bits = bits /\ Len(bits) = Len(f.bits)
             /\ add_all(f, keys).num_hash_funcs = f.num_hash_funcs
<1> DEFINE all == UNION {Positions(f, j) : j \in keys}
           bits == set_bits(f.bits, all)
           g == add_all(f, keys)
<1>1. /\ Len(f.bits) \in Nat \ {0} /\ DOMAIN f.bits = 1..Len(f.bits)
      /\ f \in [bits : Seq(SUBSET Nat), num_hash_funcs : Nat]
  BY DEF Filter
<1>2. all \subseteq Nat
  BY PositionsFit
<1> HIDE DEF all
<1>3. \A b \in 1..Len(f.bits) :
        f.bits[b] \cup {p % ByteBits : p \in {q \in all : q \div ByteBits + 1 = b}} \in SUBSET Nat
  <2>1. \A p \in all : p % ByteBits \in Nat
    BY <1>2, BloomAssumption
  <2>2. \A b \in 1..Len(f.bits) : f.bits[b] \in SUBSET Nat
    BY <1>1
  <2> QED
    BY <2>1, <2>2
<1>4. bits \in Seq(SUBSET Nat) /\ Len(bits) = Len(f.bits)
  BY <1>1, <1>3 DEF set_bits
<1> HIDE DEF bits
<1>5. g = [f EXCEPT !.bits = bits]
  BY DEF add_all, bits, all
<1>6. g \in Filter /\ g.bits = bits /\ g.num_hash_funcs = f.num_hash_funcs
  BY <1>1, <1>4, <1>5 DEF Filter
<1> QED
  BY <1>4, <1>6 DEF bits, all

\* No false negatives (bloom.h:14), whatever the hash function, the size of the
\* filter and the number of keys added: a filter answers "maybe" for every key
\* that was added to it.
THEOREM NoFalseNegatives ==
  ASSUME NEW f \in Filter, IsHash, NEW keys \in SUBSET Keys, NEW k \in keys
  PROVE  filter_might_contain(add_all(f, keys), k)
<1> DEFINE all == UNION {Positions(f, j) : j \in keys}
           g == add_all(f, keys)
           bits == set_bits(f.bits, all)
<1>1. /\ g.bits = bits /\ Len(bits) = Len(f.bits)
      /\ g.num_hash_funcs = f.num_hash_funcs
  BY AddAllFacts
<1> HIDE DEF g, bits
<1>2. Positions(g, k) = Positions(f, k)
  <2>1. \A i : nth_hash(g, base_hashes(k), i) = nth_hash(f, base_hashes(k), i)
    BY <1>1 DEF nth_hash, bit_count
  <2> QED
    BY <1>1, <2>1 DEF Positions
<1>3. ASSUME NEW p \in Positions(f, k) PROVE get_bit(g.bits, p)
  <2>1. p \in all
    OBVIOUS
  <2>2. p \div ByteBits + 1 \in DOMAIN f.bits
    BY PositionsFit
  <2> HIDE DEF all
  <2>3. p % ByteBits \in bits[p \div ByteBits + 1]
    BY <2>1, <2>2 DEF set_bits, bits
  <2> QED
    BY <1>1, <2>3 DEF get_bit
<1> QED
  BY <1>2, <1>3 DEF filter_might_contain, g

\* A filter survives serialize and deserialize unchanged.
LEMMA SerializeFacts ==
  ASSUME NEW f \in Filter
  PROVE  deserialize(serialize(f)) = {f}
<1> DEFINE n == Len(f.bits)
           d == <<f.num_hash_funcs, n * ByteBits>> \o f.bits
<1>1. /\ n \in Nat \ {0} /\ f.bits \in Seq(SUBSET Nat)
      /\ f = [bits |-> f.bits, num_hash_funcs |-> f.num_hash_funcs]
  BY DEF Filter
<1>2. ByteCount(n * ByteBits) = n
  BY <1>1, BloomAssumption, Packing DEF ByteCount
<1>3. d = serialize(f)
  BY DEF serialize, bit_count
<1>5. /\ Len(d) = 2 + n /\ d[1] = f.num_hash_funcs /\ d[2] = n * ByteBits
      /\ 2 \in DOMAIN d /\ SubSeq(d, 3, 2 + n) = f.bits
  BY <1>1
<1> HIDE DEF d, n
<1>6. {ByteCount(d[i]) : i \in DOMAIN d \cap {2}} = {n}
  BY <1>2, <1>5
<1>7. {j \in {n} : Len(d) >= 2 + j} = {n}
  BY <1>1, <1>5
<1>8. deserialize(d) = {[bits |-> SubSeq(d, 3, 2 + n), num_hash_funcs |-> d[1]]}
  BY <1>6, <1>7 DEF deserialize
<1> QED
  BY <1>1, <1>3, <1>5, <1>8
-----------------------------------------------------------------------------
(* The image of a node *)

IsSeq(s) == Len(s) \in Nat /\ s = [i \in 1..Len(s) |-> s[i]]

\* u is s followed by t.
Joins(u, s, t) ==
  /\ IsSeq(u) /\ Len(u) = Len(s) + Len(t)
  /\ \A i \in 1..Len(s) : u[i] = s[i]
  /\ \A i \in 1..Len(t) : u[Len(s) + i] = t[i]

LEMMA SeqIsSeq ==
  ASSUME NEW S, NEW s \in Seq(S)
  PROVE  IsSeq(s) /\ DOMAIN s = 1..Len(s)
<1>1. Len(s) \in Nat /\ DOMAIN s = 1..Len(s)
  OBVIOUS
<1>2. s = [i \in 1..Len(s) |-> s[i]]
  BY <1>1
<1> QED
  BY <1>1, <1>2 DEF IsSeq

LEMMA ConcatFacts ==
  ASSUME NEW s, IsSeq(s), NEW t, IsSeq(t)
  PROVE  Joins(s \o t, s, t)
<1> DEFINE S == {s[i] : i \in 1..Len(s)} \cup {t[i] : i \in 1..Len(t)}
<1>1. s \in Seq(S) /\ t \in Seq(S)
  BY DEF IsSeq
<1>2. s \o t \in Seq(S)
  BY <1>1
<1>3. IsSeq(s \o t)
  BY <1>2, SeqIsSeq
<1> QED
  BY <1>1, <1>3 DEF Joins

LEMMA FieldsFacts ==
  ASSUME NEW tag, NEW s, IsSeq(s)
  PROVE  /\ IsSeq(Fields(tag, s)) /\ Len(Fields(tag, s)) = Len(s)
         /\ \A i \in 1..Len(s) : Fields(tag, s)[i] = Field(tag, s[i])
<1>1. DOMAIN s = 1..Len(s) /\ Len(s) \in Nat
  BY DEF IsSeq
<1>2. Fields(tag, s) = [i \in 1..Len(s) |-> Field(tag, s[i])]
  BY <1>1 DEF Fields
<1>3. Len(Fields(tag, s)) = Len(s)
  BY <1>1, <1>2
<1> QED
  BY <1>1, <1>2, <1>3 DEF IsSeq

LEMMA AppendFacts ==
  ASSUME NEW s, IsSeq(s), NEW e
  PROVE  /\ IsSeq(Append(s, e)) /\ Len(Append(s, e)) = Len(s) + 1
         /\ \A i \in 1..Len(s) : Append(s, e)[i] = s[i]
         /\ Append(s, e)[Len(s) + 1] = e
         /\ SubSeq(Append(s, e), 1, Len(s)) = s
<1> DEFINE S == {s[i] : i \in 1..Len(s)} \cup {e}
           u == Append(s, e)
<1>1. s \in Seq(S) /\ e \in S
  BY DEF IsSeq
<1> HIDE DEF S
<1>2. u \in Seq(S) /\ Len(u) = Len(s) + 1 /\ Len(s) \in Nat
  BY <1>1
<1>3. /\ \A i \in 1..Len(s) : u[i] = s[i]
      /\ u[Len(s) + 1] = e
  BY <1>1
<1> HIDE DEF u
<1>4. IsSeq(u)
  BY <1>2, SeqIsSeq
<1>5. SubSeq(u, 1, Len(s)) = s
  BY <1>1, <1>2, <1>3
<1> QED
  BY <1>2, <1>3, <1>4, <1>5 DEF u

\* The entries the tree puts into the node.
Versions == {e \in [key : Keys, val : Nat, seq : Nat, del : {FALSE}, sz : {1}] : e.val = e.seq}

Buffers == Seq(Versions)
Samples == [key : Nat, file_offset : Nat]
Indexes == Seq(Samples)

\* Nodes in memory.
Node == [top : {0, 1}, min : Nat, max : Nat, buf : Buffers, bloom : SUBSET Filter,
         index : Indexes, loaded : BOOLEAN]

LEMMA EmptyNode == <<>> \in Buffers /\ <<>> \in Indexes
  BY DEF Buffers, Indexes

LEMMA SameNode ==
  ASSUME NEW n \in Node, NEW m \in Node, m.top = n.top, m.min = n.min, m.max = n.max,
         m.buf = n.buf, m.bloom = n.bloom, m.index = n.index, m.loaded = n.loaded
  PROVE  m = n
  BY DEF Node

\* A node as create and flush_to_disk hand it to write_file.
Ready(n) ==
  /\ n \in Node /\ n.loaded = TRUE /\ InOrder(n.buf) /\ n.bloom = {build_bloom(n.buf)}
  /\ \A e \in ToSet(n.buf) : n.min <= e.key /\ e.key <= n.max

\* The sparse index as write_file computes it.
SparseOf(n, before) ==
  [j \in DOMAIN Sampled(n.buf) |->
     [key |-> n.buf[Sampled(n.buf)[j]].key,
      file_offset |-> Offset(before, Sampled(n.buf)[j])]]

\* Where the parts of an image lie: a filter of b words, c entries, s samples.
LaidOut(I, n, d, b, c, s) ==
  /\ IsSeq(I) /\ Len(I) = 7 + b + c + s
  /\ I[1] = Field("top", n.top) /\ I[2] = Field("count", c)
  /\ I[3] = Field("min", n.min) /\ I[4] = Field("max", n.max)
  /\ I[5] = Field("bloom_len", b)
  /\ \A j \in 1..b : I[5 + j] = Field("bloom", d[j])
  /\ \A j \in 1..c : I[5 + b + j] = Field("entry", n.buf[j])
  /\ I[6 + b + c] = Field("sparse_count", s)
  /\ \A j \in 1..s : I[6 + b + c + j] = Field("sparse", SparseOf(n, 5 + b)[j])
  /\ I[7 + b + c + s] = crc64(SubSeq(I, 1, 6 + b + c + s))

LEMMA SampledFacts ==
  ASSUME NEW buf, Len(buf) \in Nat
  PROVE  /\ IsSeq(Sampled(buf)) /\ Len(Sampled(buf)) * SPARSE_STEP >= Len(buf)
         /\ \A j \in 1..Len(Sampled(buf)) : Sampled(buf)[j] \in 1..Len(buf)
         /\ \A j \in 1..Len(Sampled(buf)) : Sampled(buf)[j] = (j - 1) * SPARSE_STEP + 1
         /\ \A i \in 1..Len(buf) : \E j \in 1..Len(Sampled(buf)), d \in 1..SPARSE_STEP :
              i = Sampled(buf)[j] + d - 1
<1> DEFINE n == Len(buf)
           s == (n + SPARSE_STEP - 1) \div SPARSE_STEP
<1>1. SPARSE_STEP \in Nat \ {0}
  BY NodeAssumption
<1>2. Sampled(buf) = [j \in 1..s |-> (j - 1) * SPARSE_STEP + 1]
  BY DEF Sampled
<1> HIDE DEF n
<1>3. s \in Nat /\ s * SPARSE_STEP >= n /\ s * SPARSE_STEP <= n + SPARSE_STEP - 1
  BY <1>1 DEF n
<1> HIDE DEF s
<1>4. Len(Sampled(buf)) = s /\ IsSeq(Sampled(buf))
  BY <1>2, <1>3 DEF IsSeq
<1>5. ASSUME NEW j \in 1..s PROVE (j - 1) * SPARSE_STEP + 1 \in 1..n
  <2>1. j - 1 \in Nat /\ (j - 1) + 1 <= s
    BY <1>3
  <2>2. (j - 1) * SPARSE_STEP \in Nat
    BY <1>1, <2>1
  <2>3. (j - 1) * SPARSE_STEP + SPARSE_STEP <= s * SPARSE_STEP
    BY <1>1, <1>3, <2>1
  <2> QED
    BY <1>1, <1>3, <2>2, <2>3 DEF n
<1>6. ASSUME NEW i \in 1..n
      PROVE  \E j \in 1..s, d \in 1..SPARSE_STEP : i = (j - 1) * SPARSE_STEP + 1 + d - 1
  <2> DEFINE q == (i - 1) \div SPARSE_STEP
             t == (i - 1) % SPARSE_STEP
  <2>1. i - 1 \in Nat /\ i - 1 < n
    BY DEF n
  <2>2. q \in Nat /\ t \in 0..(SPARSE_STEP - 1) /\ i - 1 = q * SPARSE_STEP + t
    BY <1>1, <2>1
  <2> HIDE DEF q, t
  <2>3. q + 1 <= s
    <3>1. q * SPARSE_STEP < s * SPARSE_STEP
      BY <1>1, <1>3, <2>1, <2>2 DEF n
    <3> QED
      BY <1>1, <1>3, <2>2, <3>1
  <2>4. q + 1 \in 1..s /\ t + 1 \in 1..SPARSE_STEP
    BY <1>1, <1>3, <2>2, <2>3
  <2>5. i = ((q + 1) - 1) * SPARSE_STEP + 1 + (t + 1) - 1
    BY <1>1, <2>1, <2>2
  <2> QED
    BY <2>4, <2>5
<1>7. \A j \in 1..s : Sampled(buf)[j] = (j - 1) * SPARSE_STEP + 1
  BY <1>2
<1>8. \A i \in 1..n : \E j \in 1..s, d \in 1..SPARSE_STEP : i = Sampled(buf)[j] + d - 1
  BY <1>6, <1>7
<1> QED
  BY <1>2, <1>3, <1>4, <1>5, <1>7, <1>8 DEF n

\* write_file puts every part where read_file will look for it.
LEMMA ImageFacts ==
  ASSUME NEW n, NEW f \in Filter, n.bloom = {f}, IsSeq(n.buf)
  PROVE  LaidOut(Image(n), n, serialize(f), Len(serialize(f)), Len(n.buf), Len(Sampled(n.buf)))
<1> DEFINE d == serialize(f)
           b == Len(d)
           c == Len(n.buf)
           s == Len(Sampled(n.buf))
           top == <<Field("top", n.top), Field("count", c), Field("min", n.min),
                    Field("max", n.max), Field("bloom_len", b)>>
           bloom == Fields("bloom", d)
           head == top \o bloom
           entries == Fields("entry", n.buf)
           sparse == SparseOf(n, Len(head))
           count == <<Field("sparse_count", Len(sparse))>>
           samples == Fields("sparse", sparse)
           most == head \o entries
           more == most \o count
           body == more \o samples
           I == Image(n)
<1>1. I = Append(body, crc64(body))
  <2>1. UNION {{serialize(g)} : g \in n.bloom} = {d}
    OBVIOUS
  <2>2. (CHOOSE x \in {d} : TRUE) = d
    OBVIOUS
  <2> QED
    BY <2>1, <2>2 DEF Image, SparseOf
<1>2. IsSeq(d)
  BY ConcatFacts DEF serialize, Filter, Joins, IsSeq
<1>3. IsSeq(top) /\ Len(top) = 5
  BY DEF IsSeq
<1>4. /\ IsSeq(bloom) /\ Len(bloom) = b
      /\ \A i \in 1..b : bloom[i] = Field("bloom", d[i])
  BY <1>2, FieldsFacts
<1>5. Joins(head, top, bloom)
  BY <1>3, <1>4, ConcatFacts
<1>6. /\ IsSeq(entries) /\ Len(entries) = c
      /\ \A i \in 1..c : entries[i] = Field("entry", n.buf[i])
  BY FieldsFacts
<1>7. IsSeq(sparse) /\ Len(sparse) = s
  BY SampledFacts DEF SparseOf, IsSeq
<1>8. /\ IsSeq(samples) /\ Len(samples) = s
      /\ \A i \in 1..s : samples[i] = Field("sparse", sparse[i])
  BY <1>7, FieldsFacts
<1>9. IsSeq(count) /\ Len(count) = 1 /\ count[1] = Field("sparse_count", s)
  BY <1>7 DEF IsSeq
<1>10. c \in Nat /\ s \in Nat /\ b \in Nat
  BY <1>2, SampledFacts DEF IsSeq
<1>11. /\ top[1] = Field("top", n.top) /\ top[2] = Field("count", c)
       /\ top[3] = Field("min", n.min) /\ top[4] = Field("max", n.max)
       /\ top[5] = Field("bloom_len", b)
  OBVIOUS
<1> HIDE DEF b, c, s, top, bloom, entries, count, samples
<1>12. IsSeq(head) /\ Len(head) = 5 + b
  BY <1>3, <1>4, <1>5 DEF Joins
<1> HIDE DEF head, sparse
<1>13. Joins(most, head, entries)
  BY <1>6, <1>12, ConcatFacts
<1>14. IsSeq(most) /\ Len(most) = 5 + b + c
  BY <1>6, <1>10, <1>12, <1>13 DEF Joins
<1> HIDE DEF most
<1>15. Joins(more, most, count)
  BY <1>9, <1>14, ConcatFacts
<1>16. IsSeq(more) /\ Len(more) = 6 + b + c
  BY <1>9, <1>10, <1>14, <1>15 DEF Joins
<1> HIDE DEF more
<1>17. Joins(body, more, samples)
  BY <1>8, <1>16, ConcatFacts
<1>18. IsSeq(body) /\ Len(body) = 6 + b + c + s
  BY <1>8, <1>10, <1>16, <1>17 DEF Joins
<1> HIDE DEF body, I
<1>19. /\ IsSeq(I) /\ Len(I) = 7 + b + c + s
       /\ \A i \in 1..6 + b + c + s : I[i] = body[i]
       /\ I[7 + b + c + s] = crc64(SubSeq(I, 1, 6 + b + c + s))
  <2>1. /\ IsSeq(I) /\ Len(I) = Len(body) + 1
        /\ \A i \in 1..Len(body) : I[i] = body[i]
        /\ I[Len(body) + 1] = crc64(body) /\ SubSeq(I, 1, Len(body)) = body
    BY <1>1, <1>18, AppendFacts
  <2>2. Len(body) + 1 = 7 + b + c + s
    BY <1>10, <1>18
  <2>3. I[7 + b + c + s] = crc64(SubSeq(I, 1, 6 + b + c + s))
    BY <1>18, <2>1, <2>2
  <2> QED
    BY <1>18, <2>1, <2>2, <2>3
<1>20. \A i \in 1..6 + b + c : I[i] = more[i]
  BY <1>10, <1>16, <1>17, <1>19 DEF Joins
<1>21. \A i \in 1..s : I[6 + b + c + i] = Field("sparse", sparse[i])
  BY <1>8, <1>10, <1>16, <1>17, <1>19 DEF Joins
<1>22. \A i \in 1..5 + b + c : I[i] = most[i]
  BY <1>10, <1>14, <1>15, <1>20 DEF Joins
<1>23. I[6 + b + c] = Field("sparse_count", s)
  BY <1>9, <1>10, <1>14, <1>15, <1>20 DEF Joins
<1>24. \A i \in 1..5 + b : I[i] = head[i]
  BY <1>10, <1>12, <1>13, <1>22 DEF Joins
<1>25. \A i \in 1..c : I[5 + b + i] = Field("entry", n.buf[i])
  BY <1>6, <1>10, <1>12, <1>13, <1>22 DEF Joins
<1>26. \A i \in 1..5 : I[i] = top[i]
  BY <1>3, <1>5, <1>10, <1>24 DEF Joins
<1>27. \A i \in 1..b : I[5 + i] = Field("bloom", d[i])
  BY <1>3, <1>4, <1>5, <1>10, <1>24 DEF Joins
<1>28. sparse = SparseOf(n, 5 + b)
  BY <1>12 DEF sparse
<1>29. LaidOut(I, n, d, b, c, s)
  BY <1>11, <1>19, <1>21, <1>23, <1>25, <1>26, <1>27, <1>28 DEF LaidOut
<1> QED
  BY <1>29 DEF I, b, c, s

-----------------------------------------------------------------------------
(* Reading *)

LEMMA EntriesAreEntries == IsEntries(Versions)
  BY NodeAssumption DEF IsEntries, Versions

\* build_bloom makes a filter that answers "maybe" for every entry.
LEMMA BuildBloomFacts ==
  ASSUME IsHash, NEW buf \in Seq(Versions)
  PROVE  /\ build_bloom(buf) \in Filter
         /\ \A e \in ToSet(buf) : filter_might_contain(build_bloom(buf), e.key)
<1> DEFINE f == NewFilter(Max({Len(buf), 1}))
           keys == {e.key : e \in ToSet(buf)}
<1>1. Max({Len(buf), 1}) \in Nat
  BY MaxOfTwo
<1>2. f \in Filter
  BY <1>1, NewFilterFacts
<1>3. keys \in SUBSET Keys
  <2>1. \A i \in DOMAIN buf : buf[i] \in Versions
    OBVIOUS
  <2>2. \A e \in ToSet(buf) : e.key \in Keys
    BY <2>1 DEF ToSet, Versions
  <2> QED
    BY <2>2
<1>4. build_bloom(buf) = add_all(f, keys)
  BY DEF build_bloom
<1> HIDE DEF f
<1>5. add_all(f, keys) \in Filter
  BY <1>2, <1>3, AddAllFacts
<1>6. ASSUME NEW e \in ToSet(buf) PROVE filter_might_contain(add_all(f, keys), e.key)
  <2>1. e.key \in keys
    OBVIOUS
  <2> HIDE DEF keys
  <2> QED
    BY <1>2, <1>3, <2>1, NoFalseNegatives
<1> QED
  BY <1>4, <1>5, <1>6

Header(n) == [n EXCEPT !.buf = <<>>, !.index = <<>>, !.loaded = FALSE]

Full(n) == [n EXCEPT !.index = SparseOf(n, 5 + Len(serialize(build_bloom(n.buf))))]

\* The image of a node is intact and reads back as the node.
LEMMA ReadFacts ==
  ASSUME IsHash, NEW n, Ready(n)
  PROVE  /\ Intact(Image(n))
         /\ read_file(Image(n), FALSE) = {Header(n)}
         /\ read_file(Image(n), TRUE) = {Full(n)}
         /\ Header(n) \in Node /\ Full(n) \in Node /\ Full(n).buf = n.buf
<1> DEFINE f == build_bloom(n.buf)
           d == serialize(f)
           b == Len(d)
           c == Len(n.buf)
           s == Len(Sampled(n.buf))
           x == SparseOf(n, 5 + b)
           I == Image(n)
           From(i, m) == [j \in 1..m |-> I[i + j - 1].v]
<1>1. n.bloom = {f} /\ n.buf \in Seq(Versions) /\ n.loaded = TRUE /\ n \in Node
  BY DEF Ready, Node, Buffers
<1>2. f \in Filter
  BY <1>1, BuildBloomFacts
<1>3. IsSeq(n.buf) /\ n.buf = [i \in 1..c |-> n.buf[i]] /\ c \in Nat
  BY <1>1, SeqIsSeq DEF IsSeq
<1>4. deserialize(d) = {f}
  BY <1>2, SerializeFacts
<1>5. d = [i \in 1..b |-> d[i]] /\ b \in Nat \ {0}
  <2>1. IsSeq(d) /\ b >= 2
    BY <1>2, ConcatFacts DEF serialize, Filter, Joins, IsSeq
  <2> QED
    BY <2>1 DEF IsSeq
<1>6. s \in Nat /\ x = [j \in 1..s |-> x[j]]
  BY <1>3, SampledFacts DEF IsSeq, SparseOf
<1> HIDE DEF f
<1>7. LaidOut(I, n, d, b, c, s)
  BY <1>1, <1>2, <1>3, ImageFacts
<1> HIDE DEF d, b, c, s, x, I
<1>8. /\ IsSeq(I) /\ Len(I) = 7 + b + c + s
      /\ I[1].v = n.top /\ I[2].v = c /\ I[3].v = n.min /\ I[4].v = n.max /\ I[5].v = b
      /\ I[6 + b + c].v = s
  BY <1>7 DEF LaidOut, Field
<1>9. From(6, b) = d
  <2>1. ASSUME NEW j \in 1..b PROVE I[6 + j - 1].v = d[j]
    <3>1. 6 + j - 1 = 5 + j
      BY <1>3, <1>5
    <3>2. I[5 + j] = Field("bloom", d[j])
      BY <1>7 DEF LaidOut, x
    <3> QED
      BY <3>1, <3>2 DEF Field
  <2> QED
    BY <1>5, <2>1
<1>10. From(6 + b, c) = n.buf
  <2>1. ASSUME NEW j \in 1..c PROVE I[6 + b + j - 1].v = n.buf[j]
    <3>1. 6 + b + j - 1 = 5 + b + j
      BY <1>3, <1>5
    <3>2. I[5 + b + j] = Field("entry", n.buf[j])
      BY <1>7 DEF LaidOut, x
    <3> QED
      BY <3>1, <3>2 DEF Field
  <2> QED
    BY <1>3, <2>1
<1>11. From(6 + b + c + 1, s) = x
  <2>1. ASSUME NEW j \in 1..s PROVE I[6 + b + c + 1 + j - 1].v = x[j]
    <3>1. 6 + b + c + 1 + j - 1 = 6 + b + c + j
      BY <1>3, <1>5
    <3>2. I[6 + b + c + j] = Field("sparse", x[j])
      BY <1>7 DEF LaidOut, x
    <3> QED
      BY <3>1, <3>2 DEF Field
  <2> QED
    BY <1>6, <2>1
<1>12. Intact(I)
  <2>1. Last(I) = crc64(SubSeq(I, 1, 6 + b + c + s))
    BY <1>7, <1>8 DEF LaidOut, Last
  <2>2. Front(I) = SubSeq(I, 1, 6 + b + c + s)
    BY <1>3, <1>5, <1>6, <1>8 DEF Front
  <2>3. I # <<>>
    BY <1>3, <1>5, <1>6, <1>8
  <2> QED
    BY <2>1, <2>2, <2>3 DEF Intact
<1>18. x \in Indexes
  <2>1. ASSUME NEW j \in 1..s PROVE x[j] \in Samples
    <3>1. Sampled(n.buf)[j] \in 1..c
      BY <1>3, SampledFacts DEF s, c
    <3>2. n.buf[Sampled(n.buf)[j]] \in Versions
      BY <1>1, <3>1 DEF c
    <3>3. n.buf[Sampled(n.buf)[j]].key \in Nat
      BY <3>2, EntriesAreEntries DEF IsEntries
    <3>4. x[j] = [key |-> n.buf[Sampled(n.buf)[j]].key,
                  file_offset |-> Offset(5 + b, Sampled(n.buf)[j])]
      BY <1>3, SampledFacts DEF x, SparseOf, s, IsSeq
    <3>5. Offset(5 + b, Sampled(n.buf)[j]) \in Nat
      BY <1>3, <1>5, <3>1 DEF Offset
    <3> QED
      BY <3>3, <3>4, <3>5 DEF Samples
  <2> QED
    BY <1>6, <2>1 DEF Indexes
<1> DEFINE header == [top |-> n.top, min |-> n.min, max |-> n.max, buf |-> <<>>,
                      index |-> <<>>, bloom |-> n.bloom, loaded |-> FALSE]
           full == [header EXCEPT !.buf = n.buf, !.index = x, !.loaded = TRUE]
<1>13. /\ header = Header(n) /\ full = Full(n)
       /\ header \in Node /\ full \in Node /\ full.buf = n.buf
  <2>1. header \in Node /\ full \in Node
    BY <1>1, <1>18, EmptyNode DEF Node
  <2>2. Full(n) = [n EXCEPT !.index = x]
    BY DEF Full, x, b, d, f
  <2>3. Header(n) \in Node /\ Full(n) \in Node
    BY <1>1, <1>18, <2>2, EmptyNode DEF Node, Header
  <2>4. LET m == Header(n)
        IN  /\ m.top = header.top /\ m.min = header.min /\ m.max = header.max
            /\ m.buf = header.buf /\ m.bloom = header.bloom /\ m.index = header.index
            /\ m.loaded = header.loaded
    BY <1>1 DEF Node, Header
  <2>5. LET m == Full(n)
        IN  /\ m.top = full.top /\ m.min = full.min /\ m.max = full.max
            /\ m.buf = full.buf /\ m.bloom = full.bloom /\ m.index = full.index
            /\ m.loaded = full.loaded
    BY <1>1, <2>2 DEF Node
  <2>6. full.buf = n.buf
    OBVIOUS
  <2> HIDE DEF header, full
  <2> QED
    BY <2>1, <2>3, <2>4, <2>5, <2>6, SameNode
<1>14. (IF b = 0 THEN {} ELSE deserialize(From(6, b))) = n.bloom
  BY <1>1, <1>4, <1>5, <1>9
<1>19. n.bloom # {}
  BY <1>1
<1>15. /\ ~(~Intact(I) \/ Len(I) - 1 < 5 \/ Len(I) - 1 < 5 + b)
       /\ ~(Len(I) - 1 < 6 + b + c \/ Len(I) - 1 < 6 + b + c + s)
  BY <1>3, <1>5, <1>6, <1>8, <1>12, SMTT(30)
<1> HIDE DEF From
<1>16. read_file(I, FALSE) = {header}
  BY <1>8, <1>14, <1>15, <1>19 DEF read_file, From
<1>17. read_file(I, TRUE) = {full}
  BY <1>8, <1>10, <1>11, <1>14, <1>15, <1>19, ZenonT(30) DEF read_file, From
<1> QED
  BY <1>12, <1>13, <1>16, <1>17 DEF I

\* A file that was cut short is not intact: it does not end in a checksum.
LEMMA CutFacts ==
  ASSUME IsHash, NEW n, Ready(n), NEW len \in 0..Len(Image(n)),
         SubSeq(Image(n), 1, len) # Image(n)
  PROVE  ~Intact(SubSeq(Image(n), 1, len))
<1> DEFINE f == build_bloom(n.buf)
           b == Len(serialize(f))
           c == Len(n.buf)
           s == Len(Sampled(n.buf))
           I == Image(n)
           cut == SubSeq(I, 1, len)
<1>1. n.bloom = {f} /\ n.buf \in Seq(Versions)
  BY DEF Ready, Node, Buffers
<1>2. f \in Filter
  BY <1>1, BuildBloomFacts
<1>3. IsSeq(n.buf) /\ c \in Nat
  BY <1>1, SeqIsSeq DEF IsSeq
<1>4. b \in Nat /\ s \in Nat
  <2>1. IsSeq(serialize(f))
    BY <1>2, ConcatFacts DEF serialize, Filter, Joins, IsSeq
  <2> QED
    BY <1>3, <2>1, SampledFacts DEF IsSeq
<1> HIDE DEF f
<1>5. LaidOut(I, n, serialize(f), b, c, s)
  BY <1>1, <1>2, <1>3, ImageFacts
<1> HIDE DEF b, c, s, I
<1>6. IsSeq(I) /\ Len(I) = 7 + b + c + s
  BY <1>5 DEF LaidOut
<1>7. ASSUME NEW i \in 1..6 + b + c + s PROVE I[i].tag # "crc"
  <2>1. CASE i \in 1..5
    <3>1. i = 1 \/ i = 2 \/ i = 3 \/ i = 4 \/ i = 5
      BY <2>1
    <3>2. /\ I[1].tag # "crc" /\ I[2].tag # "crc" /\ I[3].tag # "crc"
          /\ I[4].tag # "crc" /\ I[5].tag # "crc"
      BY <1>5 DEF LaidOut, Field
    <3> QED
      BY <3>1, <3>2
  <2>2. CASE i \in 6..5 + b
    <3>1. i - 5 \in 1..b /\ 5 + (i - 5) = i
      BY <1>4, <2>2
    <3>2. I[5 + (i - 5)] = Field("bloom", serialize(f)[i - 5])
      BY <1>5, <3>1 DEF LaidOut
    <3> QED
      BY <3>1, <3>2 DEF Field
  <2>3. CASE i \in 6 + b..5 + b + c
    <3>1. i - (5 + b) \in 1..c /\ 5 + b + (i - (5 + b)) = i
      BY <1>3, <1>4, <2>3
    <3>2. I[5 + b + (i - (5 + b))] = Field("entry", n.buf[i - (5 + b)])
      BY <1>5, <3>1 DEF LaidOut
    <3> QED
      BY <3>1, <3>2 DEF Field
  <2>4. CASE i = 6 + b + c
    BY <1>5, <2>4 DEF LaidOut, Field
  <2>5. CASE i \in 7 + b + c..6 + b + c + s
    <3>1. i - (6 + b + c) \in 1..s /\ 6 + b + c + (i - (6 + b + c)) = i
      BY <1>3, <1>4, <2>5
    <3>2. I[6 + b + c + (i - (6 + b + c))] = Field("sparse", SparseOf(n, 5 + b)[i - (6 + b + c)])
      BY <1>5, <3>1 DEF LaidOut
    <3> QED
      BY <3>1, <3>2 DEF Field
  <2>6. \/ i \in 1..5 \/ i \in 6..5 + b \/ i \in 6 + b..5 + b + c
        \/ i = 6 + b + c \/ i \in 7 + b + c..6 + b + c + s
    BY <1>3, <1>4
  <2> QED
    BY <2>1, <2>2, <2>3, <2>4, <2>5, <2>6
<1>8. len \in Nat /\ len <= Len(I)
  BY <1>3, <1>4, <1>6 DEF I
<1>9. Len(cut) = len /\ \A i \in 1..len : cut[i] = I[i]
  BY <1>6, <1>8 DEF IsSeq
<1>10. len # Len(I)
  <2> SUFFICES ASSUME len = Len(I) PROVE FALSE
    OBVIOUS
  <2>1. SubSeq(I, 1, Len(I)) = I
    BY <1>6 DEF IsSeq
  <2> QED
    BY <2>1 DEF I
<1>11. ASSUME Intact(cut) PROVE FALSE
  <2>1. len # 0
    BY <1>9, <1>11 DEF Intact
  <2>2. Last(cut) = I[len]
    BY <1>8, <1>9, <2>1 DEF Last
  <2>3. Last(cut).tag = "crc"
    BY <1>11 DEF Intact, crc64, Field
  <2>4. len \in 1..6 + b + c + s
    BY <1>3, <1>4, <1>6, <1>8, <1>10, <2>1
  <2> QED
    BY <1>7, <2>2, <2>3, <2>4
<1> QED
  BY <1>11 DEF I

-----------------------------------------------------------------------------
(* Preparing and looking up *)

\* create and flush_to_disk: sorted, deduplicated, with a filter of its entries
\* and a range that covers them.
LEMMA PreparedFacts ==
  ASSUME IsHash, NEW n \in Node, n.loaded = TRUE
  PROVE  Ready(Prepared(n))
<1> DEFINE buf == sort_buffer(n.buf)
           wide == IF buf = <<>> THEN n ELSE Widen(n, buf)
           f == build_bloom(buf)
           ix == build_sparse_index(buf)
           m == Prepared(n)
<1>1. buf \in Seq(Versions) /\ IsDeduped(buf)
  <2>1. n.buf \in Seq(Versions)
    BY DEF Node, Buffers
  <2> QED
    BY <2>1, EntriesAreEntries, SortBufferKeepsNewest
<1>2. InOrder(buf)
  BY <1>1, EntriesAreEntries, DedupedSorted
<1>3. f \in Filter
  BY <1>1, BuildBloomFacts
<1>4. m = [wide EXCEPT !.buf = buf, !.bloom = {f}, !.index = ix]
  BY DEF Prepared
<1> HIDE DEF buf
<1>5. ix \in Indexes
  <2> DEFINE at == Sampled(buf)
  <2>1. IsSeq(at) /\ \A j \in 1..Len(at) : at[j] \in 1..Len(buf)
    BY <1>1, SampledFacts
  <2>2. \A j \in 1..Len(at) : buf[at[j]] \in Versions
    BY <1>1, <2>1
  <2>3. \A j \in 1..Len(at) : buf[at[j]].key \in Nat
    BY <2>2, EntriesAreEntries DEF IsEntries
  <2>4. \A j \in 1..Len(at) : [key |-> buf[at[j]].key, file_offset |-> 0] \in Samples
    BY <2>3 DEF Samples
  <2>5. ix = [j \in 1..Len(at) |-> [key |-> buf[at[j]].key, file_offset |-> 0]]
    BY <2>1 DEF build_sparse_index, IsSeq
  <2> QED
    BY <2>1, <2>4, <2>5 DEF Indexes, IsSeq
<1>6. /\ wide \in Node /\ wide.loaded = TRUE
      /\ \A e \in ToSet(buf) : wide.min <= e.key /\ e.key <= wide.max
  <2>1. CASE buf = <<>>
    BY <2>1 DEF ToSet
  <2>2. CASE buf # <<>>
    <3> DEFINE lo == Head(buf).key
               hi == Last(buf).key
    <3>1. /\ Len(buf) \in Nat \ {0} /\ DOMAIN buf = 1..Len(buf)
          /\ Head(buf) = buf[1] /\ Last(buf) = buf[Len(buf)]
      BY <1>1, <2>2 DEF Last
    <3>2. \A i \in 1..Len(buf) : buf[i].key \in Nat
      BY <1>1, <3>1, EntriesAreEntries DEF IsEntries
    <3>3. \A i \in 1..Len(buf) : lo <= buf[i].key /\ buf[i].key <= hi
      <4> SUFFICES ASSUME NEW i \in 1..Len(buf) PROVE lo <= buf[i].key /\ buf[i].key <= hi
        OBVIOUS
      <4>1. 1 = i \/ buf[1].key < buf[i].key
        BY <1>1, <3>1 DEF IsDeduped
      <4>2. i = Len(buf) \/ buf[i].key < buf[Len(buf)].key
        <5>1. i = Len(buf) \/ i < Len(buf)
          <6>1. Len(buf) \in Nat
            BY <3>1
          <6> HIDE DEF buf
          <6> QED
            BY <6>1
        <5>2. i \in DOMAIN buf /\ Len(buf) \in DOMAIN buf
          BY <3>1
        <5> QED
          BY <1>1, <5>1, <5>2 DEF IsDeduped
      <4>3. buf[1].key \in Nat /\ buf[i].key \in Nat /\ buf[Len(buf)].key \in Nat
        BY <3>1, <3>2
      <4>4. buf[1].key <= buf[i].key /\ buf[i].key <= buf[Len(buf)].key
        BY <4>1, <4>2, <4>3
      <4> QED
        BY <3>1, <4>4
    <3>4. lo \in Nat /\ hi \in Nat
      BY <3>1, <3>2
    <3> HIDE DEF lo, hi
    <3>5. wide = [n EXCEPT !.min = IF @ = NoKey \/ lo < @ THEN lo ELSE @,
                           !.max = IF @ = NoKey \/ hi > @ THEN hi ELSE @]
      BY <2>2 DEF Widen, lo, hi
    <3>6. /\ wide.min = IF n.min = NoKey \/ lo < n.min THEN lo ELSE n.min
          /\ wide.max = IF n.max = NoKey \/ hi > n.max THEN hi ELSE n.max
          /\ wide.loaded = n.loaded /\ wide \in Node
      BY <3>4, <3>5 DEF Node
    <3>7. n.min \in Nat /\ n.max \in Nat
      BY DEF Node
    <3>8. wide.min <= lo /\ hi <= wide.max /\ wide.min \in Nat /\ wide.max \in Nat
      BY <3>4, <3>6, <3>7
    <3>9. \A i \in 1..Len(buf) : wide.min <= buf[i].key /\ buf[i].key <= wide.max
      <4> HIDE DEF wide
      <4> QED
        BY <3>2, <3>3, <3>4, <3>8
    <3> HIDE DEF wide
    <3> QED
      BY <3>1, <3>6, <3>9 DEF ToSet
  <2> QED
    BY <2>1, <2>2
<1> HIDE DEF wide, f, ix, m
<1>7. /\ m \in Node /\ m.buf = buf /\ m.bloom = {f} /\ m.loaded = TRUE
      /\ m.min = wide.min /\ m.max = wide.max
  <2>1. buf \in Buffers
    BY <1>1 DEF Buffers
  <2>2. {f} \in SUBSET Filter
    BY <1>3
  <2> QED
    BY <1>4, <1>5, <1>6, <2>1, <2>2 DEF Node
<1>8. Ready(m)
  BY <1>2, <1>6, <1>7 DEF Ready, f
<1> QED
  BY <1>8 DEF m

\* What GravTree::get finds in a node with a sorted buffer.
LEMMA LookupFacts ==
  ASSUME NEW n \in Node, InOrder(n.buf), NEW k \in Keys
  PROVE  Lookup(n, k) = {e \in ToSet(n.buf) : e.key = k /\
                           \A g \in ToSet(n.buf) : g.key = k => g.seq <= e.seq}
<1> DEFINE buf == n.buf
           newest == {e \in ToSet(buf) : e.key = k /\ \A g \in ToSet(buf) : g.key = k => g.seq <= e.seq}
<1>1. buf \in Seq(Versions) /\ k \in Nat
  BY NodeAssumption DEF Node, Buffers
<1>2. \A e, g \in ToSet(buf) : e.key = g.key /\ e.seq = g.seq => e = g
  <2>1. ToSet(buf) \subseteq Versions
    BY <1>1 DEF ToSet
  <2>2. \A e, g \in Versions : e.key = g.key /\ e.seq = g.seq => e = g
    <3> SUFFICES ASSUME NEW e \in Versions, NEW g \in Versions, e.key = g.key, e.seq = g.seq
                 PROVE  e = g
      OBVIOUS
    <3>1. e.val = g.val /\ e.del = g.del /\ e.sz = g.sz
      BY DEF Versions
    <3>2. /\ e = [key |-> e.key, val |-> e.val, seq |-> e.seq, del |-> e.del, sz |-> e.sz]
          /\ g = [key |-> g.key, val |-> g.val, seq |-> g.seq, del |-> g.del, sz |-> g.sz]
      BY DEF Versions
    <3> QED
      BY <3>1, <3>2
  <2> HIDE DEF buf
  <2> QED
    BY <2>1, <2>2
<1>3. \A e \in ToSet(buf) : e.key \in Nat /\ e.seq \in Nat
  BY <1>1, EntriesAreEntries DEF ToSet, IsEntries
<1>4. /\ node_get(buf, k) = {} <=> \A e \in ToSet(buf) : e.key # k
      /\ \A e \in ToSet(buf) : e.key = k =>
           \E g \in ToSet(buf) : /\ node_get(buf, k) = {g} /\ g.key = k
                                 /\ \A h \in ToSet(buf) : h.key = k => h.seq <= g.seq
  <2> HIDE DEF buf
  <2>1. InOrder(buf)
    BY DEF buf
  <2> QED
    BY <1>1, <2>1, EntriesAreEntries, NodeGetNewest
<1>5. node_get(buf, k) = newest
  <2> HIDE DEF buf
  <2>1. CASE \A e \in ToSet(buf) : e.key # k
    BY <1>4, <2>1
  <2>2. CASE ~ \A e \in ToSet(buf) : e.key # k
    <3>1. PICK g \in ToSet(buf) : /\ node_get(buf, k) = {g} /\ g.key = k
                                  /\ \A h \in ToSet(buf) : h.key = k => h.seq <= g.seq
      BY <1>4, <2>2
    <3>2. ASSUME NEW e \in newest PROVE e = g
      <4>1. e.seq <= g.seq /\ g.seq <= e.seq /\ e.key = g.key /\ e \in ToSet(buf)
        BY <3>1
      <4>2. e.seq = g.seq
        BY <1>3, <4>1
      <4> QED
        BY <1>2, <4>1, <4>2
    <3>3. g \in newest
      BY <3>1
    <3> QED
      BY <3>1, <3>2, <3>3
  <2> QED
    BY <2>1, <2>2
<1>6. CASE buf = <<>>
  <2>1. newest = {}
    BY <1>6 DEF ToSet
  <2> QED
    BY <1>5, <2>1 DEF Lookup
<1>7. CASE buf # <<>>
  BY <1>5, <1>7 DEF Lookup, might_contain
<1> QED
  BY <1>6, <1>7

-----------------------------------------------------------------------------
(* The inductive invariant *)

MemInv ==
  /\ \A n \in mem : n \in Node /\ n.loaded = TRUE /\ InOrder(n.buf)
  /\ \A m, n \in mem : m = n

\* What write_file is called on and, before the rename, a prefix of its image.
OutInv ==
  /\ \A n \in out : Ready(n)
  /\ \A m, n \in out : m = n
  /\ step = "rename" =>
       \E n \in out : \E len \in 0..Len(Image(n)) : tmp = SubSeq(Image(n), 1, len)

\* The file is the image of the node last written whole, or no reader accepts it.
FileInv ==
  \/ kept = {} /\ ~Intact(file)
  \/ \E n : kept = {n} /\ Ready(n) /\ file = Image(n)

NodeInv == IsHash /\ seq_ \in Nat /\ MemInv /\ OutInv /\ FileInv

\* hash is chosen once: what is ready stays ready.
LEMMA HashFixed ==
  ASSUME hash' = hash, NEW CONSTANT n
  PROVE  Ready(n)' <=> Ready(n)
  BY DEF Ready, build_bloom, add_all, Positions, base_hashes

LEMMA NodeInvInit == Init => NodeInv
<1> SUFFICES ASSUME Init PROVE NodeInv
  OBVIOUS
<1>1. IsHash
  BY NodeAssumption DEF Init, IsHash
<1>2. ~Intact(file)
  BY DEF Init, Intact
<1> QED
  BY <1>1, <1>2 DEF Init, NodeInv, MemInv, OutInv, FileInv

LEMMA HashUnchanged == [Next]_vars => hash' = hash
<1> SUFFICES ASSUME [Next]_vars PROVE hash' = hash
  OBVIOUS
<1>1. ASSUME NEW k \in Keys, Push(k) \/ Create(<<NewEntry(k)>>) PROVE hash' = hash
  BY <1>1 DEF Push, Change, Create
<1>2. ASSUME NEW r \in Ranges, HandDown(r[1], r[2]) PROVE hash' = hash
  BY <1>2 DEF HandDown, Change
<1>3. CASE Create(<<>>) \/ CopyNode \/ FlushToDisk \/ WriteTmp
  BY <1>3 DEF Create, CopyNode, Change, FlushToDisk, WriteTmp
<1>4. CASE Rename \/ WriteThrows \/ GetNode \/ Crash \/ UNCHANGED vars
  BY <1>4 DEF Rename, WriteThrows, GetNode, Crash, vars
<1> QED
  BY <1>1, <1>2, <1>3, <1>4 DEF Next

\* What the tree makes of the node in memory.
LEMMA ChangeFacts ==
  ASSUME NodeInv, NEW n \in mem
  PROVE  /\ \A k \in Keys : LET m == [n EXCEPT !.buf = StableSort(Append(@, NewEntry(k)))]
                            IN  m \in Node /\ m.loaded = TRUE /\ InOrder(m.buf)
         /\ \A lo, hi \in Keys : LET m == [n EXCEPT !.top = 1 - @, !.buf = <<>>, !.min = lo, !.max = hi]
                                 IN  m \in Node /\ m.loaded = TRUE /\ InOrder(m.buf)
         /\ Copy(n) = n
<1>1. n \in Node /\ n.loaded = TRUE /\ InOrder(n.buf) /\ seq_ \in Nat
  BY DEF NodeInv, MemInv
<1>2. n.buf \in Seq(Versions) /\ n.top \in {0, 1} /\ n.bloom \in SUBSET Filter
  BY <1>1 DEF Node, Buffers
<1>3. ASSUME NEW k \in Keys
      PROVE  LET m == [n EXCEPT !.buf = StableSort(Append(@, NewEntry(k)))]
             IN  m \in Node /\ m.loaded = TRUE /\ InOrder(m.buf)
  <2> DEFINE s == Append(n.buf, NewEntry(k))
  <2>1. NewEntry(k) \in Versions
    BY <1>1 DEF NewEntry, Entry, Versions
  <2>2. s \in Seq(Versions)
    BY <1>2, <2>1
  <2> HIDE DEF s
  <2>3. StableSort(s) \in Seq(Versions) /\ InOrder(StableSort(s))
    BY <2>2, EntriesAreEntries, SortFacts
  <2>4. StableSort(s) \in Buffers
    BY <2>3 DEF Buffers
  <2> QED
    BY <1>1, <2>3, <2>4 DEF Node, s
<1>4. ASSUME NEW lo \in Keys, NEW hi \in Keys
      PROVE  LET m == [n EXCEPT !.top = 1 - @, !.buf = <<>>, !.min = lo, !.max = hi]
             IN  m \in Node /\ m.loaded = TRUE /\ InOrder(m.buf)
  <2>1. lo \in Nat /\ hi \in Nat /\ 1 - n.top \in {0, 1}
    BY <1>2, NodeAssumption
  <2>2. InOrder(<<>>)
    BY DEF InOrder
  <2> QED
    BY <1>1, <2>1, <2>2, EmptyNode DEF Node
<1>5. Copy(n) = n
  <2>1. \A f \in n.bloom : deserialize(serialize(f)) = {f}
    BY <1>2, SerializeFacts
  <2>2. UNION {deserialize(serialize(f)) : f \in n.bloom} = n.bloom
    BY <2>1
  <2>3. Copy(n) = [n EXCEPT !.bloom = n.bloom]
    BY <2>2 DEF Copy
  <2>4. [n EXCEPT !.bloom = n.bloom] = n
    BY <1>1 DEF Node
  <2> QED
    BY <2>3, <2>4
<1> QED
  BY <1>3, <1>4, <1>5

\* A new node in memory is one of those.
LEMMA ChangeKeeps ==
  ASSUME NodeInv, hash' = hash, NEW m, Change(m), seq_' \in Nat,
         m \in Node, m.loaded = TRUE, InOrder(m.buf)
  PROVE  NodeInv'
<1>1. \A n : Ready(n)' <=> Ready(n)
  BY HashFixed
<1>2. MemInv'
  BY DEF Change, MemInv
<1>3. OutInv' /\ FileInv'
  BY <1>1 DEF Change, NodeInv, OutInv, FileInv
<1> QED
  BY <1>2, <1>3 DEF NodeInv, IsHash

LEMMA NodeInvNext == NodeInv /\ [Next]_vars => NodeInv'
<1> SUFFICES ASSUME NodeInv, [Next]_vars PROVE NodeInv'
  OBVIOUS
<1>1. hash' = hash
  BY HashUnchanged
<1>2. IsHash /\ IsHash' /\ seq_ \in Nat
  BY <1>1 DEF NodeInv, IsHash
<1>3. \A n : Ready(n)' <=> Ready(n)
  BY <1>1, HashFixed
<1>4. ASSUME UNCHANGED <<file, kept>> PROVE FileInv'
  BY <1>3, <1>4 DEF NodeInv, FileInv
<1>5. ASSUME UNCHANGED <<out, step, tmp>> PROVE OutInv'
  BY <1>3, <1>5 DEF NodeInv, OutInv
<1>6. CASE UNCHANGED vars
  BY <1>2, <1>4, <1>5, <1>6 DEF NodeInv, MemInv, vars
<1>7. ASSUME NEW k \in Keys, Push(k) PROVE NodeInv'
  <2>1. PICK n \in mem : Change([n EXCEPT !.buf = StableSort(Append(@, NewEntry(k)))])
    BY <1>7 DEF Push
  <2>2. seq_' \in Nat
    BY <1>2, <1>7 DEF Push
  <2> QED
    BY <1>1, <2>1, <2>2, ChangeFacts, ChangeKeeps
<1>8. ASSUME NEW r \in Ranges, HandDown(r[1], r[2]) PROVE NodeInv'
  <2> DEFINE lo == r[1]
             hi == r[2]
  <2>3. lo \in Keys /\ hi \in Keys /\ HandDown(lo, hi)
    BY <1>8, NodeAssumption
  <2> HIDE DEF lo, hi
  <2>1. PICK n \in mem : Change([n EXCEPT !.top = 1 - @, !.buf = <<>>, !.min = lo, !.max = hi])
    BY <2>3 DEF HandDown
  <2>2. seq_' \in Nat
    BY <1>2, <2>3 DEF HandDown
  <2> QED
    BY <1>1, <2>1, <2>2, <2>3, ChangeFacts, ChangeKeeps
<1>9. CASE CopyNode
  <2>1. PICK n \in mem : Change(Copy(n))
    BY <1>9 DEF CopyNode
  <2>2. seq_' \in Nat
    BY <1>2, <1>9 DEF CopyNode
  <2>3. Copy(n) \in Node /\ Copy(n).loaded = TRUE /\ InOrder(Copy(n).buf)
    BY ChangeFacts DEF NodeInv, MemInv
  <2> QED
    BY <1>1, <2>1, <2>2, <2>3, ChangeKeeps
<1>10. ASSUME NEW entries \in Seq(Versions), Create(entries) PROVE NodeInv'
  <2> DEFINE r == [top |-> 0, min |-> NoKey, max |-> NoKey, buf |-> entries,
                   bloom |-> {}, index |-> <<>>, loaded |-> TRUE]
  <2>1. r \in Node /\ r.loaded = TRUE
    BY EmptyNode DEF Node, NoKey, Buffers
  <2>2. out' = {Prepared(r)} /\ step' = "open" /\ seq_' \in Nat /\ UNCHANGED <<mem, file, kept>>
    BY <1>2, <1>10 DEF Create
  <2> HIDE DEF r
  <2>3. Ready(Prepared(r))
    BY <1>2, <2>1, PreparedFacts
  <2>4. OutInv'
    <3>1. \A n \in out' : Ready(n)'
      BY <1>3, <2>2, <2>3
    <3> QED
      BY <2>2, <3>1 DEF OutInv
  <2> QED
    BY <1>2, <1>4, <2>2, <2>4 DEF NodeInv, MemInv
<1>11. CASE FlushToDisk
  <2>1. /\ out' = {Prepared(n) : n \in mem} /\ mem' = out' /\ step' = "open"
        /\ UNCHANGED <<file, kept, seq_>>
    BY <1>11 DEF FlushToDisk
  <2>2. \A n \in mem : Ready(Prepared(n))
    BY <1>2, PreparedFacts DEF NodeInv, MemInv
  <2>3. \A n \in out' : Ready(n)
    BY <2>1, <2>2
  <2>4. \A m, n \in out' : m = n
    BY <2>1 DEF NodeInv, MemInv
  <2>5. OutInv'
    BY <1>3, <2>1, <2>3, <2>4 DEF OutInv
  <2>6. MemInv'
    BY <2>1, <2>3, <2>4 DEF MemInv, Ready
  <2> QED
    BY <1>2, <1>4, <2>1, <2>5, <2>6 DEF NodeInv
<1>12. CASE WriteTmp
  <2>1. UNCHANGED <<mem, out, file, kept, seq_>>
    BY <1>12 DEF WriteTmp
  <2>2. PICK n \in out : \E len \in 0..Len(Image(n)) : tmp' = SubSeq(Image(n), 1, len)
    BY <1>12 DEF WriteTmp
  <2>3. OutInv'
    BY <1>3, <2>1, <2>2 DEF NodeInv, OutInv
  <2> QED
    BY <1>2, <1>4, <2>1, <2>3 DEF NodeInv, MemInv
<1>13. CASE Rename
  <2>1. /\ step = "rename" /\ step' = "none" /\ file' = tmp /\ mem' = out /\ out' = {}
        /\ kept' = {n \in out : tmp = Image(n)} /\ seq_' = seq_
    BY <1>13 DEF Rename
  <2>2. PICK n \in out : \E len \in 0..Len(Image(n)) : tmp = SubSeq(Image(n), 1, len)
    BY <2>1 DEF NodeInv, OutInv
  <2>3. Ready(n) /\ out = {n}
    BY <2>2 DEF NodeInv, OutInv
  <2>4. tmp = Image(n) \/ ~Intact(tmp)
    BY <1>2, <2>2, <2>3, CutFacts
  <2>5. FileInv'
    <3>1. CASE tmp = Image(n)
      <4>1. kept' = {n} /\ file' = Image(n) /\ Ready(n)'
        BY <1>3, <2>1, <2>3, <3>1
      <4> QED
        BY <4>1 DEF FileInv
    <3>2. CASE tmp # Image(n)
      <4>1. kept' = {} /\ ~Intact(file')
        BY <2>1, <2>3, <2>4, <3>2
      <4> QED
        BY <4>1 DEF FileInv, Intact
    <3> QED
      BY <3>1, <3>2
  <2>6. MemInv'
    BY <2>1, <2>3 DEF MemInv, Ready
  <2>7. OutInv'
    BY <2>1 DEF OutInv
  <2> QED
    BY <1>2, <2>1, <2>5, <2>6, <2>7 DEF NodeInv
<1>14. CASE WriteThrows
  <2>1. OutInv' /\ MemInv'
    BY <1>14 DEF WriteThrows, OutInv, NodeInv, MemInv
  <2> QED
    BY <1>2, <1>4, <1>14, <2>1 DEF NodeInv, WriteThrows
<1>15. CASE Crash
  <2>1. OutInv' /\ MemInv'
    BY <1>15 DEF Crash, OutInv, MemInv
  <2> QED
    BY <1>2, <1>4, <1>15, <2>1 DEF NodeInv, Crash
<1>16. CASE GetNode
  <2>1. UNCHANGED <<out, step, tmp, file, kept, seq_>>
    BY <1>16 DEF GetNode
  <2>2. MemInv'
    <3>1. CASE kept = {} /\ ~Intact(file)
      <4>1. read_file(file, FALSE) = {}
        BY <3>1 DEF read_file
      <4>2. mem' = {}
        BY <1>16, <4>1 DEF GetNode
      <4> QED
        BY <4>2 DEF MemInv
    <3>2. ASSUME NEW n, kept = {n}, Ready(n), file = Image(n) PROVE MemInv'
      <4> DEFINE h == Header(n)
                 g == Full(n)
                 m == [h EXCEPT !.buf = g.buf, !.index = g.index, !.loaded = TRUE]
      <4>1. read_file(file, FALSE) = {h} /\ read_file(file, TRUE) = {g}
        BY <1>2, <3>2, ReadFacts
      <4>2. h \in Node /\ g \in Node /\ g.buf = n.buf
        BY <1>2, <3>2, ReadFacts
      <4> HIDE DEF h, g
      <4>3. mem' = {m}
        <5> DEFINE L(a, c) == [a EXCEPT !.buf = c.buf, !.index = c.index, !.loaded = TRUE]
        <5>1. mem' = UNION {{L(a, c) : a \in read_file(file, FALSE)} : c \in read_file(file, TRUE)}
          BY <1>16, Zenon DEF GetNode
        <5>2. m = L(h, g)
          OBVIOUS
        <5> HIDE DEF L, m
        <5> DEFINE M(c) == {L(a, c) : a \in read_file(file, FALSE)}
        <5>3. M(g) = {m}
          BY <4>1, <5>2
        <5>4. mem' = UNION {M(c) : c \in read_file(file, TRUE)}
          BY <5>1
        <5> HIDE DEF M
        <5>5. \A z : z \in mem' <=> z \in M(g)
          BY <4>1, <5>4
        <5> QED
          BY <5>3, <5>5
      <4>4. m \in Node /\ m.loaded = TRUE /\ m.buf = n.buf
        BY <4>2 DEF Node
      <4>5. InOrder(n.buf)
        BY <3>2 DEF Ready
      <4> HIDE DEF m
      <4> QED
        BY <4>3, <4>4, <4>5 DEF MemInv
    <3> QED
      BY <3>1, <3>2 DEF NodeInv, FileInv
  <2> QED
    BY <1>2, <1>4, <1>5, <2>1, <2>2 DEF NodeInv
<1>17. <<>> \in Seq(Versions) /\ \A k \in Keys : <<NewEntry(k)>> \in Seq(Versions)
  BY <1>2 DEF NewEntry, Entry, Versions
<1> QED
  BY <1>6, <1>7, <1>8, <1>9, <1>10, <1>11, <1>12, <1>13, <1>14, <1>15, <1>16, <1>17 DEF Next

-----------------------------------------------------------------------------
(* Theorems *)

THEOREM NodeInvariant == Spec => []NodeInv
<1>1. Init => NodeInv
  BY NodeInvInit
<1>2. NodeInv /\ [Next]_vars => NodeInv'
  BY NodeInvNext
<1> QED
  BY <1>1, <1>2, PTL DEF Spec

\* What the invariant says of reading the file.
LEMMA FileReads ==
  ASSUME NodeInv
  PROVE  \/ kept = {} /\ read_file(file, FALSE) = {} /\ read_file(file, TRUE) = {}
         \/ \E n : /\ kept = {n} /\ Ready(n) /\ file = Image(n)
                   /\ read_file(file, FALSE) = {Header(n)} /\ read_file(file, TRUE) = {Full(n)}
                   /\ Header(n) \in Node /\ Full(n) \in Node /\ Full(n).buf = n.buf
<1>1. CASE kept = {} /\ ~Intact(file)
  BY <1>1 DEF read_file
<1>2. ASSUME NEW n, kept = {n}, Ready(n), file = Image(n)
      PROVE  /\ read_file(file, FALSE) = {Header(n)} /\ read_file(file, TRUE) = {Full(n)}
             /\ Header(n) \in Node /\ Full(n) \in Node /\ Full(n).buf = n.buf
  BY <1>2, ReadFacts DEF NodeInv
<1> QED
  BY <1>1, <1>2 DEF NodeInv, FileInv

\* Whatever crashes, short writes and failed renames came before, a file is read
\* as the node last written to it whole, and as no node when the last one that was
\* renamed was cut (write_file, read_file), for any number of entries and keys.
THEOREM FileReadsBack == Spec => []ReadBack
<1>1. ASSUME NodeInv PROVE ReadBack
  <2>1. CASE kept = {} /\ read_file(file, FALSE) = {} /\ read_file(file, TRUE) = {}
    BY <2>1 DEF ReadBack
  <2>2. ASSUME NEW n, kept = {n}, Ready(n),
               read_file(file, FALSE) = {Header(n)}, read_file(file, TRUE) = {Full(n)},
               Full(n) \in Node
        PROVE  ReadBack
    <3>1. Plain(Full(n)) = Plain(n)
      <4>1. n \in Node
        BY <2>2 DEF Ready
      <4> DEFINE x == SparseOf(n, 5 + Len(serialize(build_bloom(n.buf))))
      <4>2. Full(n) = [n EXCEPT !.index = x]
        BY DEF Full
      <4> HIDE DEF x
      <4>3. Plain(Full(n)) \in Node /\ Plain(n) \in Node
        BY <2>2, <4>1, EmptyNode DEF Plain, Node
      <4>4. LET a == Plain(Full(n))
                c == Plain(n)
            IN  /\ a.top = c.top /\ a.min = c.min /\ a.max = c.max /\ a.buf = c.buf
                /\ a.bloom = c.bloom /\ a.index = c.index /\ a.loaded = c.loaded
        BY <4>1, <4>2 DEF Plain, Node
      <4> QED
        BY <4>3, <4>4, SameNode
    <3> QED
      BY <2>2, <3>1 DEF ReadBack, Header
  <2> QED
    BY <1>1, <2>1, <2>2, FileReads
<1> QED
  BY <1>1, NodeInvariant, PTL

\* A filter that came back from a file has no false negatives (bloom.h:14), for
\* any hash function: the node is never said to lack a key it holds.
THEOREM StoredFilterComplete == Spec => []HeaderFilterComplete
<1>1. ASSUME NodeInv PROVE HeaderFilterComplete
  <2>1. ASSUME NEW n, Ready(n), Full(n).buf = n.buf
        PROVE  \A e \in ToSet(Full(n).buf) : might_contain(Header(n), e.key)
    <3>1. n \in Node /\ n.buf \in Seq(Versions) /\ n.bloom = {build_bloom(n.buf)}
      BY <2>1 DEF Ready, Node, Buffers
    <3>2. \A e \in ToSet(n.buf) : filter_might_contain(build_bloom(n.buf), e.key)
      BY <1>1, <3>1, BuildBloomFacts DEF NodeInv
    <3>3. Header(n).bloom = n.bloom
      BY <3>1 DEF Header, Node
    <3> QED
      BY <2>1, <3>1, <3>2, <3>3 DEF might_contain
  <2>2. CASE read_file(file, FALSE) = {} /\ read_file(file, TRUE) = {}
    BY <2>2 DEF HeaderFilterComplete
  <2>3. ASSUME NEW n, Ready(n), file = Image(n), Full(n).buf = n.buf,
               read_file(file, FALSE) = {Header(n)}, read_file(file, TRUE) = {Full(n)}
        PROVE  HeaderFilterComplete
    BY <2>1, <2>3 DEF HeaderFilterComplete
  <2> QED
    BY <1>1, <2>2, <2>3, FileReads
<1> QED
  BY <1>1, NodeInvariant, PTL

\* A lookup in a node in memory finds the newest entry of the key in its buffer,
\* however old its filter is and however often it was cloned.
THEOREM LookupsComplete == Spec => []LookupComplete
<1>1. ASSUME NodeInv PROVE LookupComplete
  <2> SUFFICES ASSUME NEW n \in mem, NEW k \in Keys
               PROVE  Lookup(n, k) = {e \in ToSet(n.buf) : e.key = k /\
                                        \A f \in ToSet(n.buf) : f.key = k => f.seq <= e.seq}
    BY DEF LookupComplete
  <2>1. n \in Node /\ InOrder(n.buf)
    BY <1>1 DEF NodeInv, MemInv
  <2> QED
    BY <2>1, LookupFacts
<1> QED
  BY <1>1, NodeInvariant, PTL

\* The range a node is stored with covers its entries (flush_to_disk).
THEOREM StoredRangeCovers == Spec => []RangeCovers
<1>1. ASSUME NodeInv PROVE RangeCovers
  <2>1. ASSUME NEW n, Ready(n), Full(n).buf = n.buf, NEW e \in ToSet(Full(n).buf)
        PROVE  Full(n).min <= e.key /\ e.key <= Full(n).max
    <3>1. Full(n).min = n.min /\ Full(n).max = n.max
      <4>1. n \in Node
        BY <2>1 DEF Ready
      <4> DEFINE x == SparseOf(n, 5 + Len(serialize(build_bloom(n.buf))))
      <4>2. Full(n) = [n EXCEPT !.index = x]
        BY DEF Full
      <4> HIDE DEF x
      <4> QED
        BY <4>1, <4>2 DEF Node
    <3> QED
      BY <2>1, <3>1 DEF Ready
  <2>2. CASE read_file(file, FALSE) = {} /\ read_file(file, TRUE) = {}
    BY <2>2 DEF RangeCovers
  <2>3. ASSUME NEW n, Ready(n), file = Image(n), Full(n).buf = n.buf,
               read_file(file, FALSE) = {Header(n)}, read_file(file, TRUE) = {Full(n)}
        PROVE  RangeCovers
    BY <2>1, <2>3 DEF RangeCovers
  <2> QED
    BY <1>1, <2>2, <2>3, FileReads
<1> QED
  BY <1>1, NodeInvariant, PTL

\* The sparse index of a stored node points at entries of its keys, exactly
\* SPARSE_STEP entries apart and with no entry left farther behind, for any
\* SPARSE_STEP and any number of entries (write_file).
THEOREM StoredIndexPoints == Spec => []IndexPoints
<1> DEFINE Points(m) ==
             /\ \A i \in DOMAIN m.index : LET at == file[m.index[i].file_offset + 1]
                                          IN  at.tag = "entry" /\ at.v.key = m.index[i].key
             /\ \A i, j \in DOMAIN m.index :
                  j = i + 1 => m.index[j].file_offset - m.index[i].file_offset = SPARSE_STEP
             /\ \A i \in DOMAIN m.buf : \E j \in DOMAIN m.index, d \in 1..SPARSE_STEP :
                  LET p == m.index[j].file_offset + d
                  IN  p \in DOMAIN file /\ file[p] = Field("entry", m.buf[i])
<1>1. ASSUME NodeInv PROVE IndexPoints
  <2>1. ASSUME NEW n, Ready(n), file = Image(n), Full(n).buf = n.buf
        PROVE  Points(Full(n))
    <3> DEFINE f == build_bloom(n.buf)
               b == Len(serialize(f))
               c == Len(n.buf)
               s == Len(Sampled(n.buf))
               x == SparseOf(n, 5 + b)
    <3>1. n.bloom = {f} /\ n.buf \in Seq(Versions) /\ n \in Node
      BY <2>1 DEF Ready, Node, Buffers
    <3>2. f \in Filter
      BY <1>1, <3>1, BuildBloomFacts DEF NodeInv
    <3>3. IsSeq(n.buf) /\ c \in Nat /\ DOMAIN n.buf = 1..c
      BY <3>1, SeqIsSeq DEF IsSeq
    <3>4. b \in Nat /\ SPARSE_STEP \in Nat \ {0}
      BY <3>2, ConcatFacts, NodeAssumption DEF serialize, Filter, Joins, IsSeq
    <3> HIDE DEF f
    <3>5. LaidOut(file, n, serialize(f), b, c, s)
      BY <2>1, <3>1, <3>2, <3>3, ImageFacts
    <3>6. Full(n) = [n EXCEPT !.index = x]
      BY DEF Full, f
    <3>7. /\ IsSeq(Sampled(n.buf)) /\ s \in Nat
          /\ \A i \in 1..s : Sampled(n.buf)[i] \in 1..c
          /\ \A i \in 1..s : Sampled(n.buf)[i] = (i - 1) * SPARSE_STEP + 1
          /\ \A i \in 1..c : \E j \in 1..s, d \in 1..SPARSE_STEP :
               i = Sampled(n.buf)[j] + d - 1
      BY <3>3, SampledFacts DEF IsSeq
    <3>8. DOMAIN x = 1..s
      BY <3>7 DEF SparseOf, IsSeq
    <3>9. Full(n).index = x
      <4> HIDE DEF x
      <4> QED
        BY <3>1, <3>6 DEF Node
    <3> DEFINE at(i) == Sampled(n.buf)[i]
    <3>10. \A i \in 1..s : /\ x[i].key = n.buf[at(i)].key
                           /\ x[i].file_offset = 5 + b + at(i) - 1
      <4>1. \A i \in 1..s : x[i] = [key |-> n.buf[at(i)].key,
                                    file_offset |-> Offset(5 + b, at(i))]
        BY <3>7 DEF SparseOf, IsSeq
      <4> SUFFICES ASSUME NEW i \in 1..s
                   PROVE  /\ x[i].key = n.buf[at(i)].key
                          /\ x[i].file_offset = 5 + b + at(i) - 1
        OBVIOUS
      <4> DEFINE y == [key |-> n.buf[at(i)].key, file_offset |-> Offset(5 + b, at(i))]
      <4>3. x[i] = y
        BY <4>1, Zenon
      <4>4. y.key = n.buf[at(i)].key /\ y.file_offset = Offset(5 + b, at(i))
        OBVIOUS
      <4> HIDE DEF x, y
      <4>2. x[i].key = n.buf[at(i)].key /\ x[i].file_offset = Offset(5 + b, at(i))
        BY <4>3, <4>4
      <4> QED
        BY <4>2 DEF Offset
    <3>11. /\ DOMAIN file = 1..(7 + b + c + s)
           /\ \A i \in 1..c : file[5 + b + i] = Field("entry", n.buf[i])
      BY <3>5 DEF LaidOut, IsSeq
    <3> HIDE DEF b, c, s, x
    <3>12. ASSUME NEW i \in 1..s
           PROVE  /\ file[x[i].file_offset + 1].tag = "entry"
                  /\ file[x[i].file_offset + 1].v.key = x[i].key
      <4>1. at(i) \in 1..c
        BY <3>7
      <4> HIDE DEF at
      <4>2. x[i].file_offset + 1 = 5 + b + at(i)
        BY <3>3, <3>4, <3>10, <4>1
      <4>3. file[x[i].file_offset + 1] = Field("entry", n.buf[at(i)])
        BY <3>11, <4>1, <4>2
      <4>4. x[i].key = n.buf[at(i)].key
        BY <3>10
      <4> QED
        BY <4>3, <4>4 DEF Field
    <3>13. ASSUME NEW i \in 1..s, NEW j \in 1..s, j = i + 1
           PROVE  x[j].file_offset - x[i].file_offset = SPARSE_STEP
      <4>1. at(i) = (i - 1) * SPARSE_STEP + 1 /\ at(j) = i * SPARSE_STEP + 1
        BY <3>7, <3>13
      <4>2. i * SPARSE_STEP = (i - 1) * SPARSE_STEP + SPARSE_STEP
        BY <3>4, <3>7
      <4>3. at(j) - at(i) = SPARSE_STEP
        BY <3>4, <3>7, <4>1, <4>2
      <4>4. at(i) \in 1..c /\ at(j) \in 1..c
        BY <3>7
      <4> HIDE DEF at
      <4> QED
        BY <3>3, <3>4, <3>10, <4>3, <4>4
    <3>14. ASSUME NEW i \in 1..c
           PROVE  \E j \in 1..s, d \in 1..SPARSE_STEP :
                    /\ x[j].file_offset + d \in DOMAIN file
                    /\ file[x[j].file_offset + d] = Field("entry", n.buf[i])
      <4>1. PICK j \in 1..s, d \in 1..SPARSE_STEP : i = at(j) + d - 1
        BY <3>7
      <4>2. at(j) \in 1..c
        BY <3>7
      <4> HIDE DEF at
      <4>3. x[j].file_offset = 5 + b + at(j) - 1
        BY <3>10
      <4>4. x[j].file_offset + d = 5 + b + i
        BY <3>3, <3>4, <4>1, <4>2, <4>3
      <4>5. 5 + b + i \in DOMAIN file
        BY <3>3, <3>4, <3>7, <3>11
      <4> QED
        BY <3>11, <4>4, <4>5
    <3> QED
      BY <2>1, <3>3, <3>8, <3>9, <3>12, <3>13, <3>14 DEF c
  <2>2. CASE read_file(file, FALSE) = {} /\ read_file(file, TRUE) = {}
    BY <2>2 DEF IndexPoints
  <2>3. ASSUME NEW n, Ready(n), file = Image(n), Full(n).buf = n.buf,
               read_file(file, FALSE) = {Header(n)}, read_file(file, TRUE) = {Full(n)}
        PROVE  IndexPoints
    <3>1. \A m \in read_file(file, TRUE) : m = Full(n)
      BY <2>3
    <3>2. Points(Full(n))
      BY <2>1, <2>3
    <3> HIDE DEF Points
    <3>3. \A m \in read_file(file, TRUE) : Points(m)
      BY <3>1, <3>2
    <3> QED
      BY <3>3, Zenon DEF IndexPoints, Points
  <2> QED
    BY <1>1, <2>2, <2>3, FileReads
<1> QED
  BY <1>1, NodeInvariant, PTL
=============================================================================
