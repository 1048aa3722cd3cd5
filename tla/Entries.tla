------------------------------ MODULE Entries ------------------------------
(***************************************************************************)
(* Entries, sorted buffers and the pure functions GravTree builds its      *)
(* flushes from: Entry::operator< (types.h), merge_sorted_entries and      *)
(* partition_entries (flush.cpp), sort_buffer, get and buffer_size_bytes   *)
(* of an SSTNode (node.cpp), insert and find_key of the SkipList, and the  *)
(* child choice of find_path (tree.cpp).                                   *)
(*                                                                         *)
(* Keys are positive integers in string order; 0 is the empty string,      *)
(* which the code uses for "no key range yet".  The value of an entry is   *)
(* the number of the write that made it, del marks a tombstone.            *)
(***************************************************************************)
EXTENDS Integers, Sequences, FiniteSets, SequencesExt

CONSTANT BufferThreshold  \* BUFFER_THRESHOLD, in units of one ordinary entry

ASSUME ThresholdAssumption == BufferThreshold \in Nat \ {0}

NoValue == 0
NoKey == 0

\* struct Entry; sz is its contribution to buffer_size_bytes.
Entry(k, v, s, d, sz) == [key |-> k, val |-> v, seq |-> s, del |-> d, sz |-> sz]

-----------------------------------------------------------------------------
\* Entry::operator<: key ascending, then seq_no descending (newest first).
Less(e, f) ==
  \/ e.key < f.key
  \/ e.key = f.key /\ e.seq > f.seq

\* std::stable_sort: an element goes after every smaller one and after the
\* equivalent ones that stood before it.
StableSort(s) ==
  LET Precedes(i, j) == Less(s[i], s[j]) \/ (~Less(s[j], s[i]) /\ i < j)
      Place(i) == 1 + Cardinality({j \in DOMAIN s : Precedes(j, i)})
  IN  [p \in DOMAIN s |-> s[CHOOSE i \in DOMAIN s : Place(i) = p]]

\* The elements of s at some of its positions, in their order.
Subsequence(s, at) ==
  LET Place(i) == 1 + Cardinality({j \in at : j < i})
  IN  [p \in 1..Cardinality(at) |-> s[CHOOSE i \in at : Place(i) = p]]

\* The deduplication loop of sort_buffer: an entry whose key is that of the entry
\* before it (and so of the last one that stays) is dropped.
KeepFirst(s) == Subsequence(s, {i \in DOMAIN s : i = 1 \/ s[i - 1].key # s[i].key})

\* SSTNode::sort_buffer.
sort_buffer(s) == KeepFirst(StableSort(s))

\* SSTNode::get on a sorted buffer: std::lower_bound with the greatest
\* sequence number lands on the first entry whose key is not below k.
\* The result is a set of at most one entry.
node_get(buf, k) ==
  LET atOrAfter == {i \in DOMAIN buf : buf[i].key >= k}
  IN  {buf[i] : i \in {j \in atOrAfter : j = Min(atOrAfter) /\ buf[j].key = k}}

\* SkipList::insert and SkipList::find_key, on the sorted sequence that the list
\* represents: the new entry goes in front of the first that is not below it, and
\* a lookup is that of a sorted buffer.
skiplist_insert(s, e) ==
  LET n == Cardinality({i \in DOMAIN s : Less(s[i], e)})
  IN  SubSeq(s, 1, n) \o <<e>> \o SubSeq(s, n + 1, Len(s))

skiplist_find(s, k) == node_get(s, k)

buffer_size_bytes(buf) == FoldLeft(LAMBDA n, e : n + e.sz, 0, buf)

buffer_full(buf) == buffer_size_bytes(buf) >= BufferThreshold

-----------------------------------------------------------------------------
\* Mutant: the older entry stays.
BadLeftWins(e, f) == e.seq <= f.seq

\* What merge_sorted_entries does when both heads carry the same key: the
\* first input's entry stays when its sequence number is not lower.
LeftWins(e, f) == e.seq >= f.seq

\* A round of the two-way merge loop: s has the positions i and j reached in a
\* and b and what was appended so far; at the end of an input nothing happens.
MergeRound(a, b, s) ==
  IF s.i > Len(a) \/ s.j > Len(b) THEN s
  ELSE IF a[s.i].key < b[s.j].key
  THEN [i |-> s.i + 1, j |-> s.j, out |-> Append(s.out, a[s.i])]
  ELSE IF b[s.j].key < a[s.i].key
  THEN [i |-> s.i, j |-> s.j + 1, out |-> Append(s.out, b[s.j])]
  ELSE [i |-> s.i + 1, j |-> s.j + 1,
        out |-> Append(s.out, IF LeftWins(a[s.i], b[s.j]) THEN a[s.i] ELSE b[s.j])]

\* merge_sorted_entries: the merge loop, then the two loops that copy the rest.
merge_sorted_entries(a, b) ==
  LET rounds == Len(a) + Len(b)
      run[n \in 0..rounds] == IF n = 0 THEN [i |-> 1, j |-> 1, out |-> <<>>]
                              ELSE MergeRound(a, b, run[n - 1])
      end == run[rounds]
  IN  end.out \o SubSeq(a, end.i, Len(a)) \o SubSeq(b, end.j, Len(b))

-----------------------------------------------------------------------------
\* Mutant: a key equal to a child's min_key goes to the child on its left.
BadRightmost(k, mins) ==
  LET fits == {i \in DOMAIN mins : k > mins[i]}
  IN  IF fits = {} THEN 1 ELSE Max(fits)

\* Where partition_entries sends key k: the rightmost child whose min_key is
\* not above k, the first child when there is none.
Rightmost(k, mins) ==
  LET fits == {i \in DOMAIN mins : k >= mins[i]}
  IN  IF fits = {} THEN 1 ELSE Max(fits)

\* Where find_path descends for key k: it scans from the left and stops at
\* the first child whose min_key is above k.
LeftScan(k, mins) ==
  LET fits == {i \in DOMAIN mins : \A j \in 1..i : k >= mins[j]}
  IN  IF fits = {} THEN 1 ELSE Max(fits)

\* Mutant: entries below the first child's range are dropped.
BadPartition(entries, mins) ==
  [i \in DOMAIN mins |->
     Subsequence(entries, {j \in DOMAIN entries : /\ entries[j].key >= mins[i]
                                                  /\ Rightmost(entries[j].key, mins) = i})]

\* partition_entries: one bucket per child, order kept.
partition_entries(entries, mins) ==
  [i \in DOMAIN mins |->
     Subsequence(entries, {j \in DOMAIN entries : Rightmost(entries[j].key, mins) = i})]
=============================================================================
