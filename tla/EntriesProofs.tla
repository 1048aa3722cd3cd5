--------------------------- MODULE EntriesProofs ---------------------------
(***************************************************************************)
(* Proofs about the operators of Entries: what sorting, deduplication,     *)
(* lookup and partitioning compute, for buffers of any length, any keys    *)
(* and any number of children.  They rest on induction over the natural    *)
(* numbers, as facts about sets of numbers, and on the ranks that a strict *)
(* total order gives to the elements of a finite set.                      *)
(***************************************************************************)
EXTENDS Entries, FiniteSetTheorems, SequenceTheorems, WellFoundedInduction, TLAPS

-----------------------------------------------------------------------------
(* Sets of numbers *)

\* A set of natural numbers has a least element.
LEMMA LeastNatural ==
  ASSUME NEW T, T \subseteq Nat, T # {}
  PROVE  \E x \in T : \A y \in T : x <= y
<1> DEFINE R == {ss \in Nat \X Nat : ss[1] < ss[2]}
<1>1. R = OpToRel(<, Nat)
  BY DEF OpToRel
<1>2. IsWellFoundedOn(R, Nat)
  BY <1>1, NatLessThanWellFounded
<1> HIDE DEF R
<1>3. \E x \in T : \A y \in T : ~ (<<y, x>> \in R)
  BY <1>2, WFMin
<1>4. \A x, y \in Nat : <<y, x>> \notin R => x <= y
  BY DEF R
<1> QED
  BY <1>3, <1>4

\* A bounded one has a greatest.
LEMMA GreatestNatural ==
  ASSUME NEW T, T \subseteq Nat, T # {}, NEW b \in Nat, \A y \in T : y <= b
  PROVE  \E x \in T : \A y \in T : y <= x
<1> DEFINE U == {b - y : y \in T}
<1>1. U \subseteq Nat /\ U # {}
  <2>1. \A y \in T : b - y \in Nat
    OBVIOUS
  <2> QED
    BY <2>1
<1>2. PICK u \in U : \A v \in U : u <= v
  BY <1>1, LeastNatural
<1>3. PICK x \in T : u = b - x
  BY <1>2
<1>4. \A y \in T : b - x <= b - y
  BY <1>2, <1>3
<1> QED
  BY <1>4

\* Induction: a set that holds 0 and the successor of each number in it holds all.
LEMMA SetInduction ==
  ASSUME NEW T, 0 \in T, \A n \in Nat : n \in T => n + 1 \in T
  PROVE  Nat \subseteq T
<1> SUFFICES ASSUME Nat \ T # {} PROVE FALSE
  OBVIOUS
<1>1. PICK x \in Nat \ T : \A y \in Nat \ T : x <= y
  BY LeastNatural, Nat \ T \subseteq Nat
<1>2. x # 0 /\ x - 1 \in Nat
  BY <1>1
<1>3. x - 1 \in T
  BY <1>1, <1>2
<1> QED
  BY <1>2, <1>3

-----------------------------------------------------------------------------
(* Ranks *)

\* R, a set of pairs, is a strict total order on D.
StrictOrder(R, D) ==
  /\ \A i \in D : <<i, i>> \notin R
  /\ \A i, j \in D : i # j => <<i, j>> \in R \/ <<j, i>> \in R
  /\ \A i, j, k \in D : <<i, j>> \in R /\ <<j, k>> \in R => <<i, k>> \in R

\* One more than the number of elements before an element.
Rank(R, D) == [i \in D |-> 1 + Cardinality({j \in D : <<j, i>> \in R})]

\* Ranks grow with the order and number the elements from 1 on without gaps.
LEMMA Ranking ==
  ASSUME NEW D, IsFiniteSet(D), NEW R, StrictOrder(R, D)
  PROVE  /\ Rank(R, D) \in [D -> 1..Cardinality(D)]
         /\ \A i, j \in D : <<i, j>> \in R <=> Rank(R, D)[i] < Rank(R, D)[j]
         /\ \A p \in 1..Cardinality(D) : \E i \in D : Rank(R, D)[i] = p
<1> DEFINE Before(i) == {j \in D : <<j, i>> \in R}
           rank == Rank(R, D)
           n == Cardinality(D)
<1>1. n \in Nat
  BY FS_CardinalityType
<1>2. \A i \in D : IsFiniteSet(Before(i)) /\ Cardinality(Before(i)) \in Nat
  <2> SUFFICES ASSUME NEW i \in D PROVE IsFiniteSet(Before(i)) /\ Cardinality(Before(i)) \in Nat
    OBVIOUS
  <2>1. Before(i) \in SUBSET D
    OBVIOUS
  <2> QED
    BY <2>1, FS_Subset, FS_CardinalityType
<1>3. ASSUME NEW i \in D PROVE Cardinality(Before(i)) < n
  <2>1. Before(i) \in SUBSET D /\ Before(i) # D
    BY DEF StrictOrder
  <2>2. Cardinality(Before(i)) <= n /\ Cardinality(Before(i)) # n
    BY <2>1, FS_Subset
  <2> QED
    BY <1>1, <1>2, <2>2
<1>4. ASSUME NEW i \in D, NEW j \in D, <<i, j>> \in R
      PROVE  Cardinality(Before(i)) < Cardinality(Before(j))
  <2>1. Before(i) \in SUBSET Before(j) /\ Before(i) # Before(j)
    BY <1>4 DEF StrictOrder
  <2>2. /\ Cardinality(Before(i)) <= Cardinality(Before(j))
        /\ Cardinality(Before(j)) # Cardinality(Before(i))
    BY <1>2, <2>1, FS_Subset
  <2> QED
    BY <1>2, <2>2
<1>5. \A i \in D : rank[i] = 1 + Cardinality(Before(i))
  BY DEF Rank
<1> HIDE DEF Before
<1>6. rank \in [D -> 1..n]
  <2>1. \A i \in D : rank[i] \in 1..n
    BY <1>1, <1>2, <1>3, <1>5
  <2> QED
    BY <2>1 DEF Rank
<1>7. \A i, j \in D : <<i, j>> \in R => rank[i] < rank[j]
  BY <1>2, <1>4, <1>5
<1>8. \A i, j \in D : rank[i] < rank[j] => <<i, j>> \in R
  <2> SUFFICES ASSUME NEW i \in D, NEW j \in D, rank[i] < rank[j], <<i, j>> \notin R
               PROVE  FALSE
    OBVIOUS
  <2>1. i = j \/ <<j, i>> \in R
    BY DEF StrictOrder
  <2>2. rank[j] <= rank[i]
    BY <1>6, <1>7, <2>1
  <2> QED
    BY <1>6, <2>2
<1>9. rank \in Injection(D, 1..n)
  <2>1. \A i, j \in D : rank[i] = rank[j] => i = j
    <3> SUFFICES ASSUME NEW i \in D, NEW j \in D, rank[i] = rank[j], i # j PROVE FALSE
      OBVIOUS
    <3>1. rank[i] < rank[j] \/ rank[j] < rank[i]
      BY <1>7 DEF StrictOrder
    <3> QED
      BY <1>6, <3>1
  <2> QED
    BY <1>6, <2>1 DEF Injection, IsInjective
<1>10. rank \in Surjection(D, 1..n)
  <2>1. IsFiniteSet(1..n) /\ Cardinality(1..n) = n
    BY <1>1, FS_Interval
  <2> QED
    BY <1>9, <2>1, FS_Injection
<1>11. \A p \in 1..n : \E i \in D : rank[i] = p
  BY <1>10 DEF Surjection
<1> QED
  BY <1>6, <1>7, <1>8, <1>11

\* f lists the elements of D, each once and in the order R.
Lists(f, R, D) ==
  /\ f \in [1..Cardinality(D) -> D]
  /\ \A p, q \in 1..Cardinality(D) : p < q => <<f[p], f[q]>> \in R
  /\ \A i \in D : \E p \in 1..Cardinality(D) : f[p] = i

\* A function that leads from every rank to an element that has it does so.
LEMMA Listing ==
  ASSUME NEW D, IsFiniteSet(D), NEW R, StrictOrder(R, D), NEW f,
         f = [p \in 1..Cardinality(D) |-> f[p]],
         \A p \in 1..Cardinality(D) : (\E i \in D : Rank(R, D)[i] = p) =>
                                        f[p] \in D /\ Rank(R, D)[f[p]] = p
  PROVE  Lists(f, R, D)
<1> DEFINE rank == Rank(R, D)
           n == Cardinality(D)
<1>1. /\ rank \in [D -> 1..n]
      /\ \A i, j \in D : <<i, j>> \in R <=> rank[i] < rank[j]
      /\ \A p \in 1..n : \E i \in D : rank[i] = p
  BY Ranking
<1>2. n \in Nat
  BY FS_CardinalityType
<1> HIDE DEF rank, n
<1>3. \A p \in 1..n : f[p] \in D /\ rank[f[p]] = p
  BY <1>1 DEF rank, n
<1>4. \A p, q \in 1..n : p < q => <<f[p], f[q]>> \in R
  BY <1>1, <1>3, ZenonT(30)
<1>5. ASSUME NEW i \in D PROVE rank[i] \in 1..n /\ f[rank[i]] = i
  <2>1. /\ rank[i] \in 1..n /\ f[rank[i]] \in D
        /\ rank[f[rank[i]]] = rank[i]
    BY <1>1, <1>3
  <2>2. <<i, f[rank[i]]>> \notin R /\ <<f[rank[i]], i>> \notin R
    BY <1>1, <1>2, <2>1
  <2> QED
    BY <2>1, <2>2 DEF StrictOrder
<1>6. f \in [1..n -> D]
  BY <1>3 DEF n
<1> QED
  BY <1>4, <1>5, <1>6 DEF n, Lists

\* A set of positions that has, with each, all that come before it.
LEMMA InitialPositions ==
  ASSUME NEW m \in Nat, NEW L, L \subseteq 1..m,
         \A i \in L, j \in 1..m : j < i => j \in L
  PROVE  Cardinality(L) \in 0..m /\ L = 1..Cardinality(L)
<1>1. CASE L = {}
  <2>1. Cardinality(L) = 0
    BY <1>1, FS_EmptySet
  <2> QED
    BY <1>1, <2>1
<1>2. CASE L # {}
  <2>1. L \subseteq Nat /\ \A y \in L : y <= m
    OBVIOUS
  <2>2. PICK g \in L : \A y \in L : y <= g
    BY <1>2, <2>1, GreatestNatural
  <2>3. g \in 1..m /\ L = 1..g
    <3>1. g \in 1..m /\ \A y \in L : y \in 1..g
      BY <2>1, <2>2
    <3>2. \A y \in 1..g : y \in 1..m /\ (y < g \/ y = g)
      BY <3>1
    <3>3. \A y \in 1..g : y \in L
      BY <3>2
    <3> QED
      BY <3>1, <3>3
  <2>4. g \in Nat
    BY <2>3
  <2>5. Cardinality(1..g) = g
    BY <2>3, <2>4, FS_Interval
  <2> QED
    BY <2>3, <2>5
<1> QED
  BY <1>1, <1>2

-----------------------------------------------------------------------------
(* Routing *)

\* Children in the order of their min_key, which local_flush assumes and
\* split_leaf and insert_child keep.
Ordered(mins) == \A i, j \in DOMAIN mins : i < j => mins[i] <= mins[j]

\* Routing agrees with placement (flush.cpp:26, tree.cpp:178): with the children
\* in order, the child that partition_entries picks by scanning from the right
\* is the one that find_path reaches by scanning from the left.  (The order is
\* needed: with mins <<1, 3, 2>> key 2 is placed in the third child and looked
\* up in the first.)
THEOREM RoutingAgrees ==
  ASSUME NEW mins \in Seq(Nat), Ordered(mins), NEW k \in Nat
  PROVE  Rightmost(k, mins) = LeftScan(k, mins)
<1> DEFINE right == {i \in DOMAIN mins : k >= mins[i]}
           left  == {i \in DOMAIN mins : \A j \in 1..i : k >= mins[j]}
<1>1. left \subseteq right
  OBVIOUS
<1>2. ASSUME NEW i \in right, NEW j \in 1..i PROVE k >= mins[j]
  <2>1. j \in DOMAIN mins /\ i \in DOMAIN mins /\ j <= i
    OBVIOUS
  <2>2. mins[j] <= mins[i]
    BY <2>1 DEF Ordered
  <2>3. mins[i] \in Nat /\ mins[j] \in Nat /\ mins[i] <= k
    BY <2>1
  <2> QED
    BY <2>2, <2>3
<1>3. right = left
  BY <1>1, <1>2
<1> QED
  BY <1>3 DEF Rightmost, LeftScan

-----------------------------------------------------------------------------
(* Sorting and deduplication *)

\* A set of entries, as far as their order is concerned.
IsEntries(E) == \A e \in E : e.key \in Nat /\ e.seq \in Nat

\* A buffer as std::stable_sort leaves it.
InOrder(s) == \A i, j \in DOMAIN s : i < j => ~Less(s[j], s[i])

\* f lists the positions at, each once and in ascending order.
Ascends(f, at) ==
  /\ f \in [1..Cardinality(at) -> at]
  /\ \A p, q \in 1..Cardinality(at) : p < q => f[p] < f[q]
  /\ \A i \in at : \E p \in 1..Cardinality(at) : f[p] = i

\* t has the elements of s at the positions at, in their order.
Picks(t, s, at) ==
  \E f : Ascends(f, at) /\ t = [p \in 1..Cardinality(at) |-> s[f[p]]]

\* A subsequence lists the elements at the positions it is given, each once and
\* in their order.
LEMMA SubsequenceFacts ==
  ASSUME NEW s, NEW n \in Nat, NEW at, at \subseteq 1..n
  PROVE  Cardinality(at) \in Nat /\ Picks(Subsequence(s, at), s, at)
<1> DEFINE R == {pr \in at \X at : pr[1] < pr[2]}
           Place(i) == 1 + Cardinality({j \in at : j < i})
           m == Cardinality(at)
           f == [p \in 1..m |-> CHOOSE i \in at : Place(i) = p]
<1>1. IsFiniteSet(at) /\ m \in Nat
  <2>1. IsFiniteSet(1..n)
    BY FS_Interval
  <2>2. IsFiniteSet(at)
    BY <2>1, FS_Subset
  <2> QED
    BY <2>2, FS_CardinalityType
<1>2. \A i, j \in at : <<i, j>> \in R <=> i < j
  OBVIOUS
<1>3. StrictOrder(R, at)
  BY <1>2 DEF StrictOrder
<1>4. \A i \in at : Rank(R, at)[i] = Place(i)
  <2> SUFFICES ASSUME NEW i \in at PROVE Rank(R, at)[i] = Place(i)
    OBVIOUS
  <2>1. {j \in at : <<j, i>> \in R} = {j \in at : j < i}
    BY <1>2
  <2> QED
    BY <2>1, Zenon DEF Rank
<1>5. Subsequence(s, at) = [p \in 1..m |-> s[f[p]]]
  BY DEF Subsequence
<1> HIDE DEF R, Place
<1>6. f = [p \in 1..m |-> f[p]]
  OBVIOUS
<1>7. \A p \in 1..m : (\E i \in at : Rank(R, at)[i] = p) => f[p] \in at /\ Rank(R, at)[f[p]] = p
  BY <1>4
<1> HIDE DEF f
<1>8. Lists(f, R, at)
  BY <1>1, <1>3, <1>6, <1>7, Listing
<1>9. \A p, q \in 1..m : p < q => f[p] < f[q]
  BY <1>2, <1>8 DEF Lists
<1>10. Ascends(f, at)
  BY <1>8, <1>9 DEF Lists, Ascends
<1> QED
  BY <1>1, <1>5, <1>10 DEF Picks

\* A sort rearranges a buffer into order; elements of equal rank keep theirs.
LEMMA StableSortFacts ==
  ASSUME NEW E, IsEntries(E), NEW s \in Seq(E)
  PROVE  \E f \in [1..Len(s) -> 1..Len(s)] :
           /\ \A p, q \in 1..Len(s) : p < q =>
                /\ ~Less(s[f[q]], s[f[p]])
                /\ Less(s[f[p]], s[f[q]]) \/ f[p] < f[q]
           /\ \A i \in 1..Len(s) : \E p \in 1..Len(s) : f[p] = i
           /\ StableSort(s) = [p \in 1..Len(s) |-> s[f[p]]]
<1> DEFINE D == 1..Len(s)
           Precedes(i, j) == Less(s[i], s[j]) \/ (~Less(s[j], s[i]) /\ i < j)
           R == {pr \in D \X D : Precedes(pr[1], pr[2])}
           Place(i) == 1 + Cardinality({j \in D : Precedes(j, i)})
           f == [p \in D |-> CHOOSE i \in D : Place(i) = p]
<1>1. IsFiniteSet(D) /\ Cardinality(D) = Len(s) /\ Len(s) \in Nat
  <2>1. Len(s) \in Nat
    OBVIOUS
  <2> QED
    BY <2>1, FS_Interval, SMTT(30)
<1>2. \A i, j \in D : <<i, j>> \in R <=> Precedes(i, j)
  OBVIOUS
<1>3. \A i \in D : s[i].key \in Nat /\ s[i].seq \in Nat
  BY DEF IsEntries
<1>4. /\ \A i \in D : ~Precedes(i, i)
      /\ \A i, j \in D : i # j => Precedes(i, j) \/ Precedes(j, i)
  BY <1>3 DEF Less
<1>5. \A i, j, k \in D : Precedes(i, j) /\ Precedes(j, k) => Precedes(i, k)
  BY <1>3, SMTT(30) DEF Less
<1>6. StrictOrder(R, D)
  <2> HIDE DEF R, Precedes, D
  <2> QED
    BY <1>2, <1>4, <1>5 DEF StrictOrder
<1>7. \A i \in D : Rank(R, D)[i] = Place(i)
  <2> SUFFICES ASSUME NEW i \in D PROVE Rank(R, D)[i] = Place(i)
    OBVIOUS
  <2>1. {j \in D : <<j, i>> \in R} = {j \in D : Precedes(j, i)}
    BY <1>2
  <2> QED
    BY <2>1, Zenon DEF Rank
<1>8. StableSort(s) = [p \in D |-> s[f[p]]]
  <2>1. DOMAIN s = D
    OBVIOUS
  <2> QED
    BY <2>1 DEF StableSort
<1> HIDE DEF R, Place, Precedes
<1>9. f = [p \in 1..Cardinality(D) |-> f[p]]
  BY <1>1
<1>10. \A p \in 1..Cardinality(D) : (\E i \in D : Rank(R, D)[i] = p) =>
                                      f[p] \in D /\ Rank(R, D)[f[p]] = p
  BY <1>1, <1>7
<1> HIDE DEF f
<1>11. Lists(f, R, D)
  <2> HIDE DEF D
  <2> QED
    BY <1>1, <1>6, <1>9, <1>10, Listing
<1>12. /\ f \in [D -> D]
       /\ \A p, q \in D : p < q => <<f[p], f[q]>> \in R
       /\ \A i \in D : \E p \in D : f[p] = i
  BY <1>1, <1>11 DEF Lists
<1>13. \A i, j \in D : Precedes(i, j) =>
         ~Less(s[j], s[i]) /\ (Less(s[i], s[j]) \/ i < j)
  BY <1>3 DEF Precedes, Less
<1>14. \A p, q \in D : p < q => /\ ~Less(s[f[q]], s[f[p]])
                                /\ Less(s[f[p]], s[f[q]]) \/ f[p] < f[q]
  BY <1>2, <1>12, <1>13
<1> QED
  BY <1>8, <1>12, <1>14

\* std::stable_sort: the result is sorted and has the same elements.
LEMMA SortFacts ==
  ASSUME NEW E, IsEntries(E), NEW s \in Seq(E)
  PROVE  /\ StableSort(s) \in Seq(E) /\ Len(StableSort(s)) = Len(s)
         /\ InOrder(StableSort(s)) /\ ToSet(StableSort(s)) = ToSet(s)
<1> DEFINE n == Len(s)
           t == StableSort(s)
<1>1. PICK f \in [1..n -> 1..n] :
        /\ \A p, q \in 1..n : p < q => ~Less(s[f[q]], s[f[p]])
        /\ \A i \in 1..n : \E p \in 1..n : f[p] = i
        /\ t = [p \in 1..n |-> s[f[p]]]
  BY StableSortFacts, ZenonT(30)
<1>2. /\ n \in Nat /\ DOMAIN s = 1..n
      /\ \A i \in 1..n : s[i] \in E
  OBVIOUS
<1> HIDE DEF n, t
<1>3. t \in Seq(E) /\ Len(t) = n /\ DOMAIN t = 1..n
  BY <1>1, <1>2
<1>4. \A p \in 1..n : t[p] = s[f[p]]
  BY <1>1
<1>5. InOrder(t)
  BY <1>1, <1>3, <1>4 DEF InOrder
<1>6. ToSet(t) = ToSet(s)
  BY <1>1, <1>2, <1>3, <1>4 DEF ToSet
<1> QED
  BY <1>3, <1>5, <1>6 DEF n, t

\* In a sorted buffer keys ascend, and the versions of a key descend by age.
LEMMA SortedOrder ==
  ASSUME NEW E, IsEntries(E), NEW s \in Seq(E), InOrder(s),
         NEW i \in DOMAIN s, NEW j \in DOMAIN s, i <= j
  PROVE  s[i].key <= s[j].key /\ (s[i].key = s[j].key => s[j].seq <= s[i].seq)
<1>1. /\ s[i].key \in Nat /\ s[i].seq \in Nat
      /\ s[j].key \in Nat /\ s[j].seq \in Nat
      /\ i \in Nat /\ j \in Nat
  BY DEF IsEntries
<1>2. CASE i = j
  BY <1>1, <1>2
<1>3. CASE i < j
  <2>1. ~Less(s[j], s[i])
    BY <1>3 DEF InOrder
  <2> QED
    BY <1>1, <2>1 DEF Less
<1> QED
  BY <1>1, <1>2, <1>3

\* Keys strictly ascend: one entry for each key.
IsDeduped(t) == \A i, j \in DOMAIN t : i < j => t[i].key < t[j].key

\* t holds, for every key of the entries S, one of its newest entries.
KeepsNewest(t, S) ==
  /\ \A e \in ToSet(t) : e \in S /\ \A g \in S : g.key = e.key => g.seq <= e.seq
  /\ \A g \in S : \E e \in ToSet(t) : e.key = g.key

\* The deduplication of a sorted buffer leaves the newest entry of every key.
LEMMA KeepFirstFacts ==
  ASSUME NEW E, IsEntries(E), NEW s \in Seq(E), InOrder(s)
  PROVE  /\ KeepFirst(s) \in Seq(E) /\ IsDeduped(KeepFirst(s))
         /\ KeepsNewest(KeepFirst(s), ToSet(s))
<1> DEFINE n == Len(s)
           at == {i \in DOMAIN s : i = 1 \/ s[i - 1].key # s[i].key}
           m == Cardinality(at)
           t == KeepFirst(s)
<1>1. /\ n \in Nat /\ DOMAIN s = 1..n
      /\ \A i \in 1..n : s[i] \in E /\ s[i].key \in Nat /\ s[i].seq \in Nat
  BY DEF IsEntries
<1>2. at \subseteq 1..n
  BY <1>1
<1>3. t = Subsequence(s, at)
  BY DEF KeepFirst
<1>4. Cardinality(at) \in Nat /\ Picks(Subsequence(s, at), s, at)
  <2> HIDE DEF n, at
  <2>1. n \in Nat /\ at \subseteq 1..n
    BY <1>1, <1>2
  <2> QED
    BY <2>1, SubsequenceFacts
<1>5. PICK f : Ascends(f, at) /\ t = [p \in 1..m |-> s[f[p]]]
  <2> HIDE DEF at
  <2> QED
    BY <1>3, <1>4 DEF Picks
<1>5a. m \in Nat
  BY <1>4
<1>5b. /\ f \in [1..m -> at]
       /\ \A p, q \in 1..m : p < q => f[p] < f[q]
       /\ \A i \in at : \E p \in 1..m : f[p] = i
  <2> HIDE DEF at
  <2> QED
    BY <1>5 DEF Ascends
<1> HIDE DEF n, m, t
<1>6. \A i, j \in 1..n : i <= j =>
        s[i].key <= s[j].key /\ (s[i].key = s[j].key => s[j].seq <= s[i].seq)
  BY <1>1, SortedOrder
<1>7. ASSUME NEW i \in at, NEW j \in 1..n, s[j].key = s[i].key PROVE i <= j
  <2> SUFFICES ASSUME j < i PROVE FALSE
    BY <1>1, <1>2
  <2>1. i # 1 /\ s[i - 1].key # s[i].key /\ i - 1 \in 1..n /\ j <= i - 1 /\ i - 1 <= i
    BY <1>1, <1>2
  <2>2. s[j].key <= s[i - 1].key /\ s[i - 1].key <= s[i].key
    BY <1>2, <1>6, <2>1
  <2> QED
    BY <1>1, <1>2, <1>7, <2>1, <2>2
<1>8. ASSUME NEW j \in 1..n PROVE \E i \in at : s[i].key = s[j].key
  <2> DEFINE T == {i \in 1..n : s[i].key = s[j].key}
  <2>1. T \subseteq Nat /\ T # {}
    BY <1>1
  <2>2. PICK i \in T : \A h \in T : i <= h
    BY <2>1, LeastNatural
  <2>3. i # 1 => i - 1 \in 1..n /\ i - 1 \notin T
    BY <1>1, <2>2
  <2>4. i \in at
    BY <1>1, <2>2, <2>3
  <2> QED
    BY <2>2, <2>4
<1>9. t \in Seq(E) /\ DOMAIN t = 1..m
  <2> HIDE DEF at
  <2>1. \A p \in 1..m : f[p] \in 1..n
    BY <1>2, <1>5b
  <2>2. \A p \in 1..m : s[f[p]] \in E
    BY <1>1, <2>1
  <2> QED
    BY <1>5, <1>5a, <2>2
<1> HIDE DEF at
<1>10. \A p \in 1..m : f[p] \in at /\ f[p] \in 1..n /\ t[p] = s[f[p]]
  BY <1>2, <1>5, <1>5b
<1>11. IsDeduped(t)
  <2> SUFFICES ASSUME NEW p \in 1..m, NEW q \in 1..m, p < q PROVE t[p].key < t[q].key
    BY <1>9 DEF IsDeduped
  <2>1. f[p] < f[q]
    BY <1>5b
  <2>2. s[f[p]].key <= s[f[q]].key
    BY <1>1, <1>6, <1>10, <2>1
  <2>3. s[f[p]].key # s[f[q]].key
    <3> SUFFICES ASSUME s[f[p]].key = s[f[q]].key PROVE FALSE
      OBVIOUS
    <3>1. f[q] <= f[p]
      BY <1>7, <1>10
    <3> QED
      BY <1>1, <1>10, <2>1, <3>1
  <2> QED
    BY <1>1, <1>10, <2>2, <2>3
<1>12. KeepsNewest(t, ToSet(s))
  <2>1. ToSet(s) = {s[i] : i \in 1..n} /\ ToSet(t) = {t[p] : p \in 1..m}
    BY <1>1, <1>9 DEF ToSet
  <2>2. ASSUME NEW p \in 1..m, NEW j \in 1..n, s[j].key = t[p].key PROVE s[j].seq <= t[p].seq
    BY <1>6, <1>7, <1>10, <2>2
  <2>3. ASSUME NEW j \in 1..n PROVE \E p \in 1..m : t[p].key = s[j].key
    BY <1>8, <1>10, <1>5b
  <2>4. \A e \in ToSet(t) : e \in ToSet(s) /\ \A g \in ToSet(s) : g.key = e.key => g.seq <= e.seq
    BY <1>10, <2>1, <2>2
  <2>5. \A g \in ToSet(s) : \E e \in ToSet(t) : e.key = g.key
    BY <2>1, <2>3
  <2> QED
    BY <2>4, <2>5 DEF KeepsNewest
<1> QED
  BY <1>9, <1>11, <1>12 DEF t

\* SSTNode::sort_buffer (node.cpp:180) leaves, in key order, exactly one entry of
\* every key in the buffer, and no entry of that key was newer ("keep only the
\* highest seq_no per key").
THEOREM SortBufferKeepsNewest ==
  ASSUME NEW E, IsEntries(E), NEW s \in Seq(E)
  PROVE  /\ sort_buffer(s) \in Seq(E) /\ IsDeduped(sort_buffer(s))
         /\ KeepsNewest(sort_buffer(s), ToSet(s))
<1>1. /\ StableSort(s) \in Seq(E)
      /\ InOrder(StableSort(s)) /\ ToSet(StableSort(s)) = ToSet(s)
  BY SortFacts
<1>2. /\ KeepFirst(StableSort(s)) \in Seq(E) /\ IsDeduped(KeepFirst(StableSort(s)))
      /\ KeepsNewest(KeepFirst(StableSort(s)), ToSet(StableSort(s)))
  BY <1>1, KeepFirstFacts
<1> QED
  BY <1>1, <1>2 DEF sort_buffer

\* A buffer with ascending keys is sorted.
LEMMA DedupedSorted ==
  ASSUME NEW E, IsEntries(E), NEW s \in Seq(E), IsDeduped(s)
  PROVE  InOrder(s)
<1> SUFFICES ASSUME NEW i \in DOMAIN s, NEW j \in DOMAIN s, i < j PROVE ~Less(s[j], s[i])
  BY DEF InOrder
<1>1. s[i].key \in Nat /\ s[j].key \in Nat /\ s[i].key < s[j].key
  BY DEF IsEntries, IsDeduped
<1> QED
  BY <1>1 DEF Less

-----------------------------------------------------------------------------
(* Lookups *)

\* SSTNode::get (node.cpp:160) and SkipList::find_key, on a sorted buffer: nothing
\* if the buffer has no entry of the key, else one of its newest.
THEOREM NodeGetNewest ==
  ASSUME NEW E, IsEntries(E), NEW s \in Seq(E), InOrder(s), NEW k \in Nat
  PROVE  /\ node_get(s, k) = {} <=> \A e \in ToSet(s) : e.key # k
         /\ \A e \in ToSet(s) : e.key = k =>
              \E g \in ToSet(s) : /\ node_get(s, k) = {g} /\ g.key = k
                                  /\ \A f \in ToSet(s) : f.key = k => f.seq <= g.seq
<1> DEFINE n == Len(s)
           from == {i \in DOMAIN s : s[i].key >= k}
<1>1. /\ n \in Nat /\ DOMAIN s = 1..n /\ ToSet(s) = {s[i] : i \in 1..n}
      /\ \A i \in 1..n : s[i] \in E /\ s[i].key \in Nat /\ s[i].seq \in Nat
  BY DEF IsEntries, ToSet
<1>2. \A i, j \in 1..n : i <= j =>
        s[i].key <= s[j].key /\ (s[i].key = s[j].key => s[j].seq <= s[i].seq)
  BY <1>1, SortedOrder
<1> HIDE DEF n
<1>3. from \subseteq Nat
  BY <1>1
<1>4. node_get(s, k) = {s[i] : i \in {j \in from : j = Min(from) /\ s[j].key = k}}
  BY DEF node_get
<1>5. ASSUME NEW i \in from, s[i].key = k
      PROVE  /\ Min(from) \in from /\ s[Min(from)].key = k
             /\ \A j \in 1..n : s[j].key = k => s[j].seq <= s[Min(from)].seq
  <2>1. \E x \in from : \A y \in from : x <= y
    BY <1>3, LeastNatural
  <2>2. Min(from) \in from /\ \A y \in from : Min(from) <= y
    BY <2>1 DEF Min
  <2> DEFINE x == Min(from)
  <2> HIDE DEF x
  <2>3. x \in 1..n /\ s[x].key >= k /\ \A y \in from : x <= y
    BY <1>1, <2>2 DEF x
  <2>4. s[x].key <= s[i].key
    BY <1>1, <1>2, <2>3
  <2>5. s[x].key = k
    BY <1>1, <1>5, <2>3, <2>4
  <2>6. ASSUME NEW j \in 1..n, s[j].key = k PROVE s[j].seq <= s[x].seq
    <3>1. j \in from
      BY <1>1, <2>6
    <3> QED
      BY <1>2, <2>3, <2>5, <2>6, <3>1
  <2> QED
    BY <2>2, <2>5, <2>6 DEF x
<1>6. ASSUME NEW e \in ToSet(s), e.key = k
      PROVE  \E g \in ToSet(s) : /\ node_get(s, k) = {g} /\ g.key = k
                                 /\ \A f \in ToSet(s) : f.key = k => f.seq <= g.seq
  <2>1. PICK i \in 1..n : e = s[i]
    BY <1>1
  <2>2. i \in from /\ s[i].key = k
    BY <1>1, <1>6, <2>1
  <2>3. /\ Min(from) \in from /\ s[Min(from)].key = k
        /\ \A j \in 1..n : s[j].key = k => s[j].seq <= s[Min(from)].seq
    BY <1>5, <2>2
  <2> HIDE DEF from
  <2>4. node_get(s, k) = {s[Min(from)]}
    BY <1>4, <2>3
  <2>5. Min(from) \in 1..n
    BY <1>1, <2>3 DEF from
  <2> QED
    BY <1>1, <2>3, <2>4, <2>5
<1>7. ASSUME \A e \in ToSet(s) : e.key # k PROVE node_get(s, k) = {}
  <2>1. \A j \in from : s[j].key # k
    BY <1>1, <1>7
  <2> HIDE DEF from
  <2> QED
    BY <1>4, <2>1
<1> QED
  BY <1>6, <1>7

-----------------------------------------------------------------------------
(* Elements of sequences *)

LEMMA ToSetFacts ==
  ASSUME NEW E, NEW s \in Seq(E)
  PROVE  /\ ToSet(s) \subseteq E /\ s \in Seq(ToSet(s))
         /\ ToSet(s) = {s[i] : i \in 1..Len(s)}
         /\ ToSet(s) = {} <=> s = <<>>
<1>1. ToSet(s) = {s[i] : i \in 1..Len(s)}
  BY DEF ToSet
<1>2. \A i \in 1..Len(s) : s[i] \in ToSet(s)
  BY <1>1
<1>3. s \in Seq(ToSet(s))
  BY <1>2, SeqDef
<1>4. ToSet(s) = {} => s = <<>>
  BY <1>2, EmptySeq
<1>5. s = <<>> => ToSet(s) = {}
  BY <1>1
<1>6. ToSet(s) \subseteq E
  BY <1>1
<1> QED
  BY <1>1, <1>3, <1>4, <1>5, <1>6

LEMMA ToSetConcat ==
  ASSUME NEW E, NEW s \in Seq(E), NEW t \in Seq(E)
  PROVE  s \o t \in Seq(E) /\ ToSet(s \o t) = ToSet(s) \cup ToSet(t)
<1>1. /\ s \o t \in Seq(E) /\ Len(s \o t) = Len(s) + Len(t)
      /\ \A i \in 1..Len(s) : (s \o t)[i] = s[i]
      /\ \A i \in 1..Len(t) : (s \o t)[Len(s) + i] = t[i]
      /\ Len(s) \in Nat /\ Len(t) \in Nat
  OBVIOUS
<1> DEFINE u == s \o t
<1> HIDE DEF u
<1>2. /\ ToSet(s) = {s[i] : i \in 1..Len(s)} /\ ToSet(t) = {t[i] : i \in 1..Len(t)}
      /\ ToSet(u) = {u[i] : i \in 1..Len(u)}
  BY <1>1, ToSetFacts DEF u
<1>3. ASSUME NEW i \in 1..Len(u) PROVE u[i] \in ToSet(s) \cup ToSet(t)
  <2>1. i <= Len(s) \/ (i - Len(s) \in 1..Len(t) /\ i = Len(s) + (i - Len(s)))
    BY <1>1 DEF u
  <2> QED
    BY <1>1, <1>2, <2>1 DEF u
<1>4. \A i \in 1..Len(s) : s[i] \in ToSet(u)
  <2>1. \A i \in 1..Len(s) : i \in 1..Len(u) /\ u[i] = s[i]
    BY <1>1 DEF u
  <2> QED
    BY <1>2, <2>1
<1>5. \A i \in 1..Len(t) : t[i] \in ToSet(u)
  <2>1. \A i \in 1..Len(t) : Len(s) + i \in 1..Len(u) /\ u[Len(s) + i] = t[i]
    BY <1>1 DEF u
  <2> QED
    BY <1>2, <2>1
<1>6. ToSet(u) \subseteq ToSet(s) \cup ToSet(t)
  BY <1>2, <1>3
<1>7. ToSet(s) \subseteq ToSet(u) /\ ToSet(t) \subseteq ToSet(u)
  BY <1>2, <1>4, <1>5
<1>8. ToSet(u) = ToSet(s) \cup ToSet(t)
  BY <1>6, <1>7
<1> QED
  BY <1>1, <1>8 DEF u

LEMMA ToSetAppend ==
  ASSUME NEW E, NEW s \in Seq(E), NEW x \in E
  PROVE  Append(s, x) \in Seq(E) /\ ToSet(Append(s, x)) = ToSet(s) \cup {x}
<1>1. Append(s, x) = s \o <<x>> /\ <<x>> \in Seq(E)
  OBVIOUS
<1>2. ToSet(<<x>>) = {x}
  BY DEF ToSet
<1> DEFINE y == <<x>>
<1> HIDE DEF y
<1>3. y \in Seq(E) /\ Append(s, x) = s \o y /\ ToSet(y) = {x}
  BY <1>1, <1>2 DEF y
<1>4. s \o y \in Seq(E) /\ ToSet(s \o y) = ToSet(s) \cup ToSet(y)
  BY <1>3, ToSetConcat
<1> QED
  BY <1>3, <1>4

LEMMA ToSetSubSeq ==
  ASSUME NEW E, NEW s \in Seq(E), NEW m \in Nat \ {0}, NEW n \in Nat, n <= Len(s)
  PROVE  /\ SubSeq(s, m, n) \in Seq(E)
         /\ ToSet(SubSeq(s, m, n)) = {s[i] : i \in m..n}
<1> DEFINE t == SubSeq(s, m, n)
<1>1. /\ t \in Seq(E) /\ Len(t) = IF m <= n THEN n - m + 1 ELSE 0
      /\ \A i \in 1..n - m + 1 : t[i] = s[m + i - 1]
  BY SubSeqProperties
<1> HIDE DEF t
<1>2. ToSet(t) = {t[i] : i \in 1..Len(t)}
  BY <1>1, ToSetFacts
<1>3. \A i \in 1..Len(t) : m + i - 1 \in m..n /\ t[i] = s[m + i - 1]
  <2> SUFFICES ASSUME NEW i \in 1..Len(t) PROVE m + i - 1 \in m..n /\ t[i] = s[m + i - 1]
    OBVIOUS
  <2>1. m <= n /\ i \in 1..n - m + 1
    BY <1>1
  <2> QED
    BY <1>1, <2>1
<1>4. \A i \in m..n : i - m + 1 \in 1..Len(t) /\ t[i - m + 1] = s[i]
  <2> SUFFICES ASSUME NEW i \in m..n PROVE i - m + 1 \in 1..Len(t) /\ t[i - m + 1] = s[i]
    OBVIOUS
  <2>1. i - m + 1 \in 1..n - m + 1 /\ m + (i - m + 1) - 1 = i /\ m <= n
    OBVIOUS
  <2>2. t[i - m + 1] = s[m + (i - m + 1) - 1]
    BY <1>1, <2>1
  <2> QED
    BY <1>1, <2>1, <2>2
<1>5. ToSet(t) = {s[i] : i \in m..n}
  <2>1. ToSet(t) \subseteq {s[i] : i \in m..n}
    BY <1>2, <1>3
  <2>2. {s[i] : i \in m..n} \subseteq ToSet(t)
    BY <1>2, <1>4
  <2> QED
    BY <2>1, <2>2
<1> QED
  BY <1>1, <1>5 DEF t

-----------------------------------------------------------------------------
(* Merging *)

\* S has, for every entry of T, one of the same key that is not older.
Covers(S, T) == \A g \in T : \E e \in S : e.key = g.key /\ g.seq <= e.seq

\* The states of the merge loop after each of n rounds.
Rounds(run, a, b, n) ==
  run = [m \in 0..n |-> IF m = 0 THEN [i |-> 1, j |-> 1, out |-> <<>>]
                         ELSE MergeRound(a, b, run[m - 1])]

LEMMA RoundsExist ==
  ASSUME NEW a, NEW b, NEW n \in Nat
  PROVE  \E run : Rounds(run, a, b, n)
<1> DEFINE start == [i |-> 1, j |-> 1, out |-> <<>>]
           T == {m \in Nat : \E run : Rounds(run, a, b, m)}
<1>1. 0 \in T
  <2> DEFINE f == [m \in 0..0 |-> start]
  <2>1. \A m \in 0..0 : m = 0
    OBVIOUS
  <2> HIDE DEF start
  <2>2. f = [m \in 0..0 |-> IF m = 0 THEN start ELSE MergeRound(a, b, f[m - 1])]
    BY <2>1
  <2>3. Rounds(f, a, b, 0)
    BY <2>2, Zenon DEF Rounds, start
  <2> QED
    BY <2>3
<1>2. ASSUME NEW m \in Nat, m \in T PROVE m + 1 \in T
  <2>1. PICK f : Rounds(f, a, b, m)
    BY <1>2
  <2>2. f = [p \in 0..m |-> IF p = 0 THEN start ELSE MergeRound(a, b, f[p - 1])]
    BY <2>1, Zenon DEF Rounds
  <2> HIDE DEF start
  <2> DEFINE g == [p \in 0..m + 1 |-> IF p = m + 1 THEN MergeRound(a, b, f[m]) ELSE f[p]]
  <2>3. \A p \in 0..m : g[p] = f[p]
    OBVIOUS
  <2>4. ASSUME NEW p \in 0..m + 1
        PROVE  g[p] = IF p = 0 THEN start ELSE MergeRound(a, b, g[p - 1])
    <3>1. CASE p = m + 1
      <4>1. p # 0 /\ p - 1 = m /\ m \in 0..m
        BY <3>1
      <4>2. g[p - 1] = f[m]
        BY <2>3, <4>1
      <4> QED
        BY <3>1, <4>1, <4>2
    <3>2. CASE p \in 0..m /\ p # 0
      <4>1. p - 1 \in 0..m
        BY <3>2
      <4>2. g[p] = f[p] /\ g[p - 1] = f[p - 1]
        BY <2>3, <3>2, <4>1
      <4> HIDE DEF g
      <4> QED
        BY <2>2, <3>2, <4>2
    <3>3. CASE p = 0
      <4>1. 0 \in 0..m
        OBVIOUS
      <4>2. g[0] = f[0] /\ f[0] = start
        BY <2>2, <2>3, <4>1
      <4> QED
        BY <3>3, <4>2
    <3> QED
      BY <3>1, <3>2, <3>3
  <2>5. g = [p \in 0..m + 1 |-> g[p]]
    OBVIOUS
  <2> HIDE DEF g
  <2>6. g = [p \in 0..m + 1 |-> IF p = 0 THEN start ELSE MergeRound(a, b, g[p - 1])]
    BY <2>4, <2>5
  <2>7. Rounds(g, a, b, m + 1)
    BY <2>6, Zenon DEF Rounds, start
  <2> QED
    BY <2>7
<1> HIDE DEF T
<1>3. Nat \subseteq T
  BY <1>1, <1>2, SetInduction
<1> QED
  BY <1>3 DEF T

\* The elements of s before position i.
Passed(s, i) == {s[p] : p \in 1..i - 1}

\* What holds after every round: all that was passed in a and b is covered by what
\* was appended, and that came from a and b.
MergeInv(a, b, s) ==
  /\ s.i \in 1..Len(a) + 1 /\ s.j \in 1..Len(b) + 1
  /\ s.out \in Seq(ToSet(a) \cup ToSet(b))
  /\ Covers(ToSet(s.out), Passed(a, s.i))
  /\ Covers(ToSet(s.out), Passed(b, s.j))

\* The position in s moves from i to j; if it moves, past an entry x covers.
Moves(s, i, j, x) ==
  j = i \/ (j = i + 1 /\ x.key = s[i].key /\ s[i].seq <= x.seq)

LEMMA CoversMore ==
  ASSUME NEW S, NEW x, NEW s, NEW i \in Nat \ {0}, NEW j, Moves(s, i, j, x),
         Covers(S, Passed(s, i))
  PROVE  Covers(S \cup {x}, Passed(s, j))
<1> SUFFICES ASSUME NEW p \in 1..j - 1
             PROVE  \E e \in S \cup {x} : e.key = s[p].key /\ s[p].seq <= e.seq
  BY DEF Covers, Passed
<1>1. p \in 1..i - 1 \/ (j = i + 1 /\ p = i)
  BY DEF Moves
<1>2. CASE p \in 1..i - 1
  BY <1>2 DEF Covers, Passed
<1>3. CASE j = i + 1 /\ p = i
  BY <1>3 DEF Moves
<1> QED
  BY <1>1, <1>2, <1>3

LEMMA MergeRoundKeeps ==
  ASSUME NEW E, IsEntries(E), NEW a \in Seq(E), NEW b \in Seq(E), NEW s, MergeInv(a, b, s)
  PROVE  MergeInv(a, b, MergeRound(a, b, s))
<1> DEFINE t == MergeRound(a, b, s)
           F == ToSet(a) \cup ToSet(b)
<1>1. CASE s.i > Len(a) \/ s.j > Len(b)
  BY <1>1 DEF MergeRound
<1>2. CASE ~(s.i > Len(a) \/ s.j > Len(b))
  <2> DEFINE e == a[s.i]
             f == b[s.j]
  <2>1. /\ s.i \in 1..Len(a) /\ s.j \in 1..Len(b) /\ Len(a) \in Nat /\ Len(b) \in Nat
        /\ s.i \in Nat \ {0} /\ s.j \in Nat \ {0}
    BY <1>2 DEF MergeInv
  <2>2. e \in F /\ f \in F
    BY <2>1 DEF ToSet
  <2>3. e.key \in Nat /\ e.seq \in Nat /\ f.key \in Nat /\ f.seq \in Nat
    BY <2>1 DEF IsEntries
  <2> DEFINE Round(i, j, x) == /\ t = [i |-> i, j |-> j, out |-> Append(s.out, x)]
                               /\ x \in {e, f}
                               /\ Moves(a, s.i, i, x) /\ Moves(b, s.j, j, x)
  <2>4. PICK i, j, x : Round(i, j, x)
    <3>1. CASE e.key < f.key
      <4>1. t = [i |-> s.i + 1, j |-> s.j, out |-> Append(s.out, e)]
        BY <1>2, <3>1 DEF MergeRound
      <4>2. Moves(a, s.i, s.i + 1, e) /\ Moves(b, s.j, s.j, e)
        BY <2>3 DEF Moves
      <4>3. Round(s.i + 1, s.j, e)
        BY <4>1, <4>2, Zenon
      <4> QED
        BY <4>3, Zenon
    <3>2. CASE f.key < e.key
      <4>1. t = [i |-> s.i, j |-> s.j + 1, out |-> Append(s.out, f)]
        BY <1>2, <2>3, <3>2 DEF MergeRound
      <4>2. Moves(a, s.i, s.i, f) /\ Moves(b, s.j, s.j + 1, f)
        BY <2>3 DEF Moves
      <4>3. Round(s.i, s.j + 1, f)
        BY <4>1, <4>2, Zenon
      <4> QED
        BY <4>3, Zenon
    <3>3. CASE e.key = f.key /\ f.seq <= e.seq
      <4>1. t = [i |-> s.i + 1, j |-> s.j + 1, out |-> Append(s.out, e)]
        BY <1>2, <2>3, <3>3 DEF MergeRound, LeftWins
      <4>2. Moves(a, s.i, s.i + 1, e) /\ Moves(b, s.j, s.j + 1, e)
        BY <2>3, <3>3 DEF Moves
      <4>3. Round(s.i + 1, s.j + 1, e)
        BY <4>1, <4>2, Zenon
      <4> QED
        BY <4>3, Zenon
    <3>4. CASE e.key = f.key /\ e.seq < f.seq
      <4>1. t = [i |-> s.i + 1, j |-> s.j + 1, out |-> Append(s.out, f)]
        <5>1. ~(e.key < f.key) /\ ~(f.key < e.key) /\ ~LeftWins(e, f)
          BY <2>3, <3>4 DEF LeftWins
        <5> QED
          BY <1>2, <5>1 DEF MergeRound
      <4>2. Moves(a, s.i, s.i + 1, f) /\ Moves(b, s.j, s.j + 1, f)
        BY <2>3, <3>4 DEF Moves
      <4>3. Round(s.i + 1, s.j + 1, f)
        BY <4>1, <4>2, Zenon
      <4> QED
        BY <4>3, Zenon
    <3> HIDE DEF Round
    <3> QED
      BY <2>3, <3>1, <3>2, <3>3, <3>4
  <2>5. t.i = i /\ t.j = j /\ t.out = Append(s.out, x)
    BY <2>4
  <2>6. i \in 1..Len(a) + 1 /\ j \in 1..Len(b) + 1
    BY <2>1, <2>4 DEF Moves
  <2>7. x \in F /\ s.out \in Seq(F)
    BY <2>2, <2>4 DEF MergeInv
  <2>8. Append(s.out, x) \in Seq(F) /\ ToSet(Append(s.out, x)) = ToSet(s.out) \cup {x}
    <3> HIDE DEF F
    <3> QED
      BY <2>7, ToSetAppend
  <2>9. Covers(ToSet(s.out) \cup {x}, Passed(a, i))
    <3>1. Covers(ToSet(s.out), Passed(a, s.i))
      BY DEF MergeInv
    <3> QED
      BY <2>1, <2>4, <3>1, CoversMore
  <2>10. Covers(ToSet(s.out) \cup {x}, Passed(b, j))
    <3>1. Covers(ToSet(s.out), Passed(b, s.j))
      BY DEF MergeInv
    <3> QED
      BY <2>1, <2>4, <3>1, CoversMore
  <2> HIDE DEF t
  <2> QED
    BY <2>5, <2>6, <2>8, <2>9, <2>10 DEF MergeInv, t
<1> QED
  BY <1>1, <1>2

LEMMA ToSetSplit ==
  ASSUME NEW E, NEW s \in Seq(E), NEW i \in 1..Len(s) + 1
  PROVE  /\ SubSeq(s, i, Len(s)) \in Seq(E)
         /\ ToSet(s) = Passed(s, i) \cup ToSet(SubSeq(s, i, Len(s)))
<1>1. Len(s) \in Nat /\ i \in Nat \ {0} /\ i <= Len(s) + 1
  OBVIOUS
<1>2. /\ SubSeq(s, i, Len(s)) \in Seq(E)
      /\ ToSet(SubSeq(s, i, Len(s))) = {s[p] : p \in i..Len(s)}
  BY <1>1, ToSetSubSeq
<1>3. ToSet(s) = {s[p] : p \in 1..Len(s)}
  BY ToSetFacts
<1>4. 1..Len(s) = (1..i - 1) \cup (i..Len(s))
  BY <1>1
<1> QED
  BY <1>2, <1>3, <1>4 DEF Passed

\* merge_sorted_entries (flush.cpp:42), on any two buffers: it makes up no entry,
\* and for every entry of either buffer it has one of the same key that is not
\* older ("the entry with the higher seq_no wins"), also when a buffer has several
\* versions of a key or is not sorted.
THEOREM MergeCovers ==
  ASSUME NEW E, IsEntries(E), NEW a \in Seq(E), NEW b \in Seq(E)
  PROVE  /\ merge_sorted_entries(a, b) \in Seq(E)
         /\ ToSet(merge_sorted_entries(a, b)) \subseteq ToSet(a) \cup ToSet(b)
         /\ Covers(ToSet(merge_sorted_entries(a, b)), ToSet(a) \cup ToSet(b))
<1> DEFINE n == Len(a) + Len(b)
           run == CHOOSE f : Rounds(f, a, b, n)
           end == run[n]
           F == ToSet(a) \cup ToSet(b)
           ra == SubSeq(a, end.i, Len(a))
           rb == SubSeq(b, end.j, Len(b))
<1>1. n \in Nat /\ Len(a) \in Nat /\ Len(b) \in Nat
  OBVIOUS
<1>2. merge_sorted_entries(a, b) = end.out \o ra \o rb
  BY Zenon DEF merge_sorted_entries, Rounds
<1> HIDE DEF n
<1>3. Rounds(run, a, b, n)
  BY <1>1, RoundsExist
<1> HIDE DEF run
<1>4. ASSUME NEW m \in 0..n
      PROVE  run[m] = IF m = 0 THEN [i |-> 1, j |-> 1, out |-> <<>>]
                      ELSE MergeRound(a, b, run[m - 1])
  <2> DEFINE g == [q \in 0..n |-> IF q = 0 THEN [i |-> 1, j |-> 1, out |-> <<>>]
                                  ELSE MergeRound(a, b, run[q - 1])]
  <2>1. run = g
    BY <1>3, Zenon DEF Rounds
  <2>2. g[m] = IF m = 0 THEN [i |-> 1, j |-> 1, out |-> <<>>]
               ELSE MergeRound(a, b, run[m - 1])
    BY Zenon
  <2> HIDE DEF g
  <2> QED
    BY <2>1, <2>2
<1>5. MergeInv(a, b, end)
  <2> DEFINE T == {m \in Nat : m <= n => MergeInv(a, b, run[m])}
  <2>1. 0 \in T
    <3>1. 0 \in 0..n
      BY <1>1
    <3>2. run[0] = [i |-> 1, j |-> 1, out |-> <<>>]
      BY <1>4, <3>1
    <3> DEFINE s == run[0]
    <3> HIDE DEF s
    <3>3. s.i = 1 /\ s.j = 1 /\ s.out = <<>>
      BY <3>2 DEF s
    <3>4. Passed(a, 1) = {} /\ Passed(b, 1) = {}
      BY DEF Passed
    <3>5. MergeInv(a, b, s)
      BY <1>1, <3>3, <3>4 DEF MergeInv, Covers
    <3> QED
      BY <3>5 DEF s
  <2>2. ASSUME NEW m \in Nat, m \in T PROVE m + 1 \in T
    <3> SUFFICES ASSUME m + 1 <= n PROVE MergeInv(a, b, run[m + 1])
      OBVIOUS
    <3>1. MergeInv(a, b, run[m]) /\ m + 1 \in 0..n /\ m + 1 # 0 /\ (m + 1) - 1 = m
      BY <1>1, <2>2
    <3>2. run[m + 1] = MergeRound(a, b, run[m])
      BY <1>4, <3>1
    <3> QED
      BY <3>1, <3>2, MergeRoundKeeps
  <2> HIDE DEF T
  <2>3. Nat \subseteq T
    BY <2>1, <2>2, SetInduction
  <2> QED
    BY <1>1, <2>3 DEF T
<1> HIDE DEF end
<1>6. end.i \in 1..Len(a) + 1 /\ end.j \in 1..Len(b) + 1
  BY <1>5 DEF MergeInv
<1>7. a \in Seq(F) /\ b \in Seq(F) /\ F \subseteq E
  BY ToSetFacts
<1> DEFINE out == end.out
<1> HIDE DEF F
<1>8. /\ ra \in Seq(F) /\ ToSet(a) = Passed(a, end.i) \cup ToSet(ra)
      /\ rb \in Seq(F) /\ ToSet(b) = Passed(b, end.j) \cup ToSet(rb)
  BY <1>6, <1>7, ToSetSplit
<1>9. /\ out \in Seq(F) /\ Covers(ToSet(out), Passed(a, end.i))
      /\ Covers(ToSet(out), Passed(b, end.j))
  BY <1>5 DEF MergeInv, F
<1> HIDE DEF ra, rb, out
<1>10. out \o ra \in Seq(F) /\ ToSet(out \o ra) = ToSet(out) \cup ToSet(ra)
  BY <1>8, <1>9, ToSetConcat
<1> DEFINE u == out \o ra
<1> HIDE DEF u
<1>11. u \o rb \in Seq(F) /\ ToSet(u \o rb) = ToSet(out) \cup ToSet(ra) \cup ToSet(rb)
  <2>1. u \in Seq(F) /\ ToSet(u) = ToSet(out) \cup ToSet(ra)
    BY <1>10 DEF u
  <2>2. u \o rb \in Seq(F) /\ ToSet(u \o rb) = ToSet(u) \cup ToSet(rb)
    BY <1>8, <2>1, ToSetConcat
  <2> QED
    BY <2>1, <2>2
<1> DEFINE v == merge_sorted_entries(a, b)
<1>12. v = u \o rb
  BY <1>2 DEF u, out
<1> HIDE DEF v
<1>13. v \in Seq(F) /\ ToSet(v) = ToSet(out) \cup ToSet(ra) \cup ToSet(rb)
  BY <1>11, <1>12
<1>14. ToSet(v) \subseteq F /\ v \in Seq(E)
  <2>1. ToSet(v) \subseteq F
    BY <1>13, ToSetFacts
  <2> QED
    BY <1>7, <1>13, <2>1
<1>15. \A g \in ToSet(a) \cup ToSet(b) : g.seq <= g.seq
  BY <1>7 DEF IsEntries, F
<1>16. Covers(ToSet(v), ToSet(a) \cup ToSet(b))
  BY <1>8, <1>9, <1>13, <1>15 DEF Covers
<1> QED
  BY <1>14, <1>16 DEF v, F

\* What a child holds after a local_flush gave it entries (flush.cpp:108): merged and
\* then sorted by SSTNode::create, exactly one entry of every key of either buffer,
\* and none of that key was newer.
THEOREM MergeKeepsNewestEntries ==
  ASSUME NEW E, IsEntries(E), NEW a \in Seq(E), NEW b \in Seq(E)
  PROVE  LET t == sort_buffer(merge_sorted_entries(a, b))
         IN  t \in Seq(E) /\ IsDeduped(t) /\ KeepsNewest(t, ToSet(a) \cup ToSet(b))
<1> DEFINE m == merge_sorted_entries(a, b)
           t == sort_buffer(m)
           S == ToSet(a) \cup ToSet(b)
<1>1. m \in Seq(E) /\ ToSet(m) \subseteq S /\ Covers(ToSet(m), S)
  BY MergeCovers
<1> HIDE DEF m
<1>2. t \in Seq(E) /\ IsDeduped(t) /\ KeepsNewest(t, ToSet(m))
  BY <1>1, SortBufferKeepsNewest
<1>3. ToSet(t) \subseteq E /\ ToSet(m) \subseteq E /\ S \subseteq E
  BY <1>1, <1>2, ToSetFacts
<1> HIDE DEF t, S
<1>4. ASSUME NEW e \in ToSet(t) PROVE e \in S /\ \A g \in S : g.key = e.key => g.seq <= e.seq
  <2>1. e \in ToSet(m) /\ \A g \in ToSet(m) : g.key = e.key => g.seq <= e.seq
    BY <1>2 DEF KeepsNewest
  <2>2. ASSUME NEW g \in S, g.key = e.key PROVE g.seq <= e.seq
    <3>1. PICK f \in ToSet(m) : f.key = g.key /\ g.seq <= f.seq
      BY <1>1 DEF Covers
    <3>2. f.seq <= e.seq
      BY <2>1, <2>2, <3>1
    <3>3. g.seq \in Nat /\ f.seq \in Nat /\ e.seq \in Nat
      BY <1>3 DEF IsEntries
    <3> QED
      BY <3>1, <3>2, <3>3
  <2> QED
    BY <1>1, <2>1, <2>2
<1>5. ASSUME NEW g \in S PROVE \E e \in ToSet(t) : e.key = g.key
  <2>1. PICK f \in ToSet(m) : f.key = g.key
    BY <1>1 DEF Covers
  <2> QED
    BY <1>2, <2>1 DEF KeepsNewest
<1>6. KeepsNewest(t, S)
  BY <1>4, <1>5 DEF KeepsNewest
<1> QED
  BY <1>2, <1>6 DEF t, S, m

-----------------------------------------------------------------------------
(* Partitioning *)

LEMMA ToSetSubsequence ==
  ASSUME NEW E, NEW s \in Seq(E), NEW at, at \subseteq DOMAIN s
  PROVE  /\ Subsequence(s, at) \in Seq(E)
         /\ ToSet(Subsequence(s, at)) = {s[i] : i \in at}
<1> DEFINE m == Cardinality(at)
           t == Subsequence(s, at)
<1>1. Len(s) \in Nat /\ DOMAIN s = 1..Len(s) /\ at \subseteq 1..Len(s)
  OBVIOUS
<1>2. m \in Nat /\ Picks(t, s, at)
  BY <1>1, SubsequenceFacts
<1> HIDE DEF m, t
<1>3. PICK f : Ascends(f, at) /\ t = [p \in 1..m |-> s[f[p]]]
  BY <1>2 DEF Picks, m
<1>4. f \in [1..m -> at] /\ \A i \in at : \E p \in 1..m : f[p] = i
  BY <1>3 DEF Ascends, m
<1>5. t \in Seq(E) /\ Len(t) = m
  BY <1>1, <1>2, <1>3, <1>4
<1>6. ToSet(t) = {t[p] : p \in 1..m}
  BY <1>5, ToSetFacts
<1>7. \A p \in 1..m : t[p] = s[f[p]] /\ f[p] \in at
  BY <1>3, <1>4
<1>8. ToSet(t) \subseteq {s[i] : i \in at}
  BY <1>6, <1>7
<1>9. {s[i] : i \in at} \subseteq ToSet(t)
  <2> SUFFICES ASSUME NEW i \in at PROVE s[i] \in ToSet(t)
    OBVIOUS
  <2>1. PICK p \in 1..m : f[p] = i
    BY <1>4
  <2> QED
    BY <1>6, <1>7, <2>1
<1>10. ToSet(t) = {s[i] : i \in at}
  BY <1>8, <1>9
<1> QED
  BY <1>5, <1>10 DEF t

\* Every key has a child, whatever the children's ranges are.
LEMMA RightmostExists ==
  ASSUME NEW k, NEW mins, NEW n \in Nat \ {0}, DOMAIN mins = 1..n
  PROVE  Rightmost(k, mins) \in 1..n
<1> DEFINE fits == {i \in DOMAIN mins : k >= mins[i]}
<1>1. CASE fits = {}
  BY <1>1 DEF Rightmost
<1>2. CASE fits # {}
  <2>1. fits \subseteq Nat /\ \A y \in fits : y <= n
    OBVIOUS
  <2>2. \E x \in fits : \A y \in fits : x >= y
    <3> HIDE DEF fits
    <3>1. \E x \in fits : \A y \in fits : y <= x
      BY <1>2, <2>1, GreatestNatural
    <3> QED
      BY <2>1, <3>1
  <2>3. Max(fits) \in fits
    BY <2>2 DEF Max
  <2>4. Rightmost(k, mins) = Max(fits)
    BY <1>2 DEF Rightmost
  <2> QED
    BY <2>3, <2>4
<1> QED
  BY <1>1, <1>2

\* partition_entries (flush.cpp:14): every entry goes to exactly one child.
THEOREM PartitionComplete ==
  ASSUME NEW E, NEW s \in Seq(E), NEW mins, NEW n \in Nat \ {0}, DOMAIN mins = 1..n
  PROVE  /\ \A i \in 1..n :
              /\ partition_entries(s, mins)[i] \in Seq(E)
              /\ ToSet(partition_entries(s, mins)[i]) =
                   {e \in ToSet(s) : Rightmost(e.key, mins) = i}
         /\ \A e \in ToSet(s) : Rightmost(e.key, mins) \in 1..n
<1>1. ASSUME NEW i \in 1..n
      PROVE  /\ partition_entries(s, mins)[i] \in Seq(E)
             /\ ToSet(partition_entries(s, mins)[i]) =
                  {e \in ToSet(s) : Rightmost(e.key, mins) = i}
  <2> DEFINE at == {j \in DOMAIN s : Rightmost(s[j].key, mins) = i}
             t == Subsequence(s, at)
  <2>1. partition_entries(s, mins)[i] = t
    BY Zenon DEF partition_entries
  <2>2. at \subseteq DOMAIN s
    OBVIOUS
  <2>3. t \in Seq(E) /\ ToSet(t) = {s[j] : j \in at}
    <3> HIDE DEF at
    <3> QED
      BY <2>2, ToSetSubsequence
  <2>4. ToSet(s) = {s[j] : j \in DOMAIN s}
    BY DEF ToSet
  <2>5. {s[j] : j \in at} = {e \in ToSet(s) : Rightmost(e.key, mins) = i}
    BY <2>4
  <2> QED
    BY <2>1, <2>3, <2>5
<1> QED
  BY <1>1, RightmostExists
=============================================================================
