---------------------------- MODULE BatchProofs ----------------------------
(***************************************************************************)
(* Proofs about the way of a batch: the skip list is the sorted list of    *)
(* its contents whatever the towers are, and a flush of the drained batch  *)
(* keeps the newest versions and sends every entry where lookups go.  For  *)
(* any keys, tower heights, numbers of entries and of children.            *)
(***************************************************************************)
EXTENDS WriteBatch, EntriesProofs

-----------------------------------------------------------------------------
(* Sorted lists of sets of entries *)

\* The sets of entries in which key and sequence number tell entries apart.
Versions(S) ==
  /\ IsEntries(S)
  /\ \A e, f \in S : e.key = f.key /\ e.seq = f.seq => e = f

Ascending(s) == \A i, j \in DOMAIN s : i < j => Less(s[i], s[j])

\* s is the sorted list of the entries S.
Sorts(s, S) == s \in Seq(S) /\ ToSet(s) = S /\ Ascending(s)

\* Less is a strict total order on versions.
LEMMA LessOrder ==
  ASSUME NEW S, Versions(S)
  PROVE  /\ \A e \in S : ~Less(e, e)
         /\ \A e, f \in S : e # f => Less(e, f) \/ Less(f, e)
         /\ \A e, f \in S : ~(Less(e, f) /\ Less(f, e))
         /\ \A e, f, g \in S : Less(e, f) /\ Less(f, g) => Less(e, g)
<1>1. \A e \in S : e.key \in Nat /\ e.seq \in Nat
  BY DEF Versions, IsEntries
<1>2. \A e, f \in S : e # f => e.key # f.key \/ e.seq # f.seq
  BY DEF Versions
<1> QED
  BY <1>1, <1>2 DEF Less

\* In a sorted list the entry at position i has i - 1 entries before it.
LEMMA SortsRank ==
  ASSUME NEW S, Versions(S), NEW s, Sorts(s, S), NEW i \in 1..Len(s)
  PROVE  i - 1 = Cardinality({e \in S : Less(e, s[i])})
<1> DEFINE B == {e \in S : Less(e, s[i])}
           f == [j \in 1..i - 1 |-> s[j]]
<1>1. /\ Len(s) \in Nat /\ DOMAIN s = 1..Len(s) /\ s \in [1..Len(s) -> S]
      /\ S = {s[j] : j \in 1..Len(s)}
  BY ToSetFacts DEF Sorts
<1>2. \A j, k \in 1..Len(s) : j < k => Less(s[j], s[k])
  BY <1>1 DEF Sorts, Ascending
<1>3. i - 1 \in Nat /\ 1..i - 1 \subseteq 1..Len(s) /\ i \in 1..Len(s)
  BY <1>1
<1>4. \A j \in 1..i - 1 : f[j] \in B
  <2> SUFFICES ASSUME NEW j \in 1..i - 1 PROVE f[j] \in B
    OBVIOUS
  <2>1. f[j] = s[j]
    OBVIOUS
  <2>2. j \in 1..Len(s) /\ j < i
    BY <1>3
  <2>3. s[j] \in S
    BY <1>1, <2>2
  <2>4. Less(s[j], s[i])
    BY <1>2, <1>3, <2>2
  <2> QED
    BY <2>1, <2>3, <2>4
<1>5. \A j, k \in 1..i - 1 : f[j] = f[k] => j = k
  <2> SUFFICES ASSUME NEW j \in 1..i - 1, NEW k \in 1..i - 1, f[j] = f[k], j # k PROVE FALSE
    OBVIOUS
  <2>1. Less(s[j], s[k]) \/ Less(s[k], s[j])
    BY <1>2, <1>3
  <2>2. s[j] = s[k] /\ s[j] \in S
    BY <1>1, <1>3
  <2> QED
    BY <2>1, <2>2, LessOrder
<1>6. \A e \in B : \E j \in 1..i - 1 : f[j] = e
  <2> SUFFICES ASSUME NEW e \in B PROVE \E j \in 1..i - 1 : f[j] = e
    OBVIOUS
  <2>1. PICK j \in 1..Len(s) : s[j] = e
    BY <1>1
  <2>2. ~(i < j) /\ i # j
    <3>1. s[i] \in S /\ e \in S /\ Less(e, s[i])
      BY <1>1
    <3> QED
      BY <1>2, <2>1, <3>1, LessOrder
  <2>3. j \in 1..i - 1
    BY <1>1, <2>2
  <2> QED
    BY <2>1, <2>3
<1>7. f \in [1..i - 1 -> B]
  BY <1>4
<1> HIDE DEF f, B
<1>8. f \in Bijection(1..i - 1, B)
  BY <1>5, <1>6, <1>7 DEF Bijection, Injection, Surjection, IsInjective
<1>9. IsFiniteSet(1..i - 1) /\ Cardinality(1..i - 1) = i - 1
  BY <1>3, FS_Interval
<1> DEFINE D == 1..i - 1
<1> HIDE DEF D
<1>10. Cardinality(B) = Cardinality(D)
  <2>1. IsFiniteSet(D) /\ f \in Bijection(D, B)
    BY <1>8, <1>9 DEF D
  <2>2. ExistsBijection(D, B)
    BY <2>1 DEF ExistsBijection
  <2> QED
    BY <2>1, <2>2, FS_Bijection
<1> QED
  BY <1>9, <1>10 DEF B, D

\* There is at most one sorted list of a set.
LEMMA SortsUnique ==
  ASSUME NEW S, Versions(S), NEW s, Sorts(s, S), NEW t, Sorts(t, S)
  PROVE  s = t
<1>1. ASSUME NEW a, Sorts(a, S), NEW b, Sorts(b, S), NEW i \in 1..Len(a)
      PROVE  i \in 1..Len(b) /\ a[i] = b[i]
  <2>1. /\ Len(a) \in Nat /\ a \in [1..Len(a) -> S]
        /\ Len(b) \in Nat /\ S = {b[j] : j \in 1..Len(b)}
    <3>1. a \in Seq(S) /\ b \in Seq(S) /\ ToSet(b) = S
      BY <1>1 DEF Sorts
    <3>2. ToSet(b) = {b[j] : j \in 1..Len(b)}
      BY <3>1, ToSetFacts
    <3> QED
      BY <3>1, <3>2
  <2>2. PICK j \in 1..Len(b) : b[j] = a[i]
    BY <2>1
  <2>3. i - 1 = Cardinality({e \in S : Less(e, a[i])})
    BY <1>1, SortsRank
  <2>4. j - 1 = Cardinality({e \in S : Less(e, b[j])})
    BY <1>1, SortsRank
  <2>5. i = j
    BY <2>1, <2>2, <2>3, <2>4
  <2> QED
    BY <2>2, <2>5
<1>2. /\ Len(s) \in Nat /\ Len(t) \in Nat
      /\ s \in [1..Len(s) -> S] /\ t \in [1..Len(t) -> S]
  BY DEF Sorts
<1>3. \A i \in 1..Len(s) : i \in 1..Len(t) /\ s[i] = t[i]
  BY <1>1
<1>4. \A i \in 1..Len(t) : i \in 1..Len(s) /\ s[i] = t[i]
  BY <1>1
<1>5. Len(s) = Len(t)
  <2>1. \A m, n \in Nat : (\A i \in 1..m : i \in 1..n) => m <= n
    <3> SUFFICES ASSUME NEW m \in Nat, NEW n \in Nat, \A i \in 1..m : i \in 1..n, m # 0
                 PROVE  m <= n
      OBVIOUS
    <3>1. m \in 1..m
      OBVIOUS
    <3> QED
      BY <3>1
  <2>2. Len(s) <= Len(t)
    BY <1>2, <1>3, <2>1
  <2>3. Len(t) <= Len(s)
    BY <1>2, <1>4, <2>1
  <2>4. \A m, n \in Nat : m <= n /\ n <= m => m = n
    OBVIOUS
  <2> QED
    BY <1>2, <2>2, <2>3, <2>4, Zenon
<1> QED
  BY <1>2, <1>3, <1>5

\* A finite set of versions has a sorted list.
LEMMA SortsExists ==
  ASSUME NEW S, Versions(S), IsFiniteSet(S)
  PROVE  \E s : Sorts(s, S)
<1> DEFINE R == {pr \in S \X S : Less(pr[1], pr[2])}
           n == Cardinality(S)
           f == [p \in 1..n |-> CHOOSE e \in S : Rank(R, S)[e] = p]
<1>1. \A e, g \in S : <<e, g>> \in R <=> Less(e, g)
  OBVIOUS
<1>2. StrictOrder(R, S)
  <2> HIDE DEF R
  <2> QED
    BY <1>1, LessOrder DEF StrictOrder
<1>3. f = [p \in 1..n |-> f[p]]
  OBVIOUS
<1>4. \A p \in 1..n : (\E e \in S : Rank(R, S)[e] = p) => f[p] \in S /\ Rank(R, S)[f[p]] = p
  OBVIOUS
<1> HIDE DEF f, R
<1>5. Lists(f, R, S)
  BY <1>2, <1>3, <1>4, Listing
<1>6. n \in Nat
  BY FS_CardinalityType
<1> HIDE DEF n
<1>7. /\ f \in [1..n -> S] /\ \A e \in S : \E p \in 1..n : f[p] = e
      /\ \A p, q \in 1..n : p < q => <<f[p], f[q]>> \in R
  BY <1>5 DEF Lists, n
<1>8. f \in Seq(S) /\ Len(f) = n /\ DOMAIN f = 1..n
  BY <1>6, <1>7
<1>9. Ascending(f)
  BY <1>1, <1>7, <1>8 DEF Ascending
<1>10. ToSet(f) = S
  BY <1>7, <1>8 DEF ToSet
<1> QED
  BY <1>8, <1>9, <1>10 DEF Sorts

\* A sorted list is as long as its set is large.
LEMMA SortsLength ==
  ASSUME NEW S, Versions(S), NEW s, Sorts(s, S)
  PROVE  IsFiniteSet(S) /\ Len(s) = Cardinality(S)
<1> DEFINE n == Len(s)
           D == 1..n
<1>1. /\ n \in Nat /\ DOMAIN s = D /\ s \in [D -> S]
      /\ S = {s[j] : j \in D}
  BY ToSetFacts DEF Sorts
<1>2. \A j, k \in D : j < k => Less(s[j], s[k])
  BY <1>1 DEF Sorts, Ascending
<1>3. \A j, k \in D : s[j] = s[k] => j = k
  <2> SUFFICES ASSUME NEW j \in D, NEW k \in D, s[j] = s[k], j # k PROVE FALSE
    OBVIOUS
  <2>1. Less(s[j], s[k]) \/ Less(s[k], s[j])
    BY <1>1, <1>2
  <2>2. s[j] \in S
    BY <1>1
  <2> QED
    BY <2>1, <2>2, LessOrder
<1> HIDE DEF n
<1>4. IsFiniteSet(D) /\ Cardinality(D) = n
  <2>1. n \in Nat
    BY <1>1
  <2> QED
    BY <2>1, FS_Interval
<1> HIDE DEF D
<1>5. s \in Bijection(D, S)
  BY <1>1, <1>3 DEF Bijection, Injection, Surjection, IsInjective
<1>6. ExistsBijection(D, S)
  BY <1>5 DEF ExistsBijection
<1> QED
  BY <1>4, <1>6, FS_Bijection DEF n

LEMMA SortsNothing ==
  ASSUME NEW s
  PROVE  Sorts(s, {}) <=> s = <<>>
<1>1. <<>> \in Seq({}) /\ ToSet(<<>>) = {} /\ Ascending(<<>>)
  BY DEF ToSet, Ascending
<1>2. Sorts(<<>>, {})
  BY <1>1 DEF Sorts
<1>3. Sorts(s, {}) => s = <<>>
  BY ToSetFacts DEF Sorts
<1> QED
  BY <1>2, <1>3

\* Concatenation of sorted lists, all of the first below all of the second.
LEMMA SortsConcat ==
  ASSUME NEW S, NEW T, NEW s, Sorts(s, S), NEW t, Sorts(t, T),
         \A e \in S, f \in T : Less(e, f)
  PROVE  Sorts(s \o t, S \cup T)
<1> DEFINE u == s \o t
           m == Len(s)
<1>1. s \in Seq(S \cup T) /\ t \in Seq(S \cup T) /\ ToSet(s) = S /\ ToSet(t) = T
  BY DEF Sorts
<1>2. u \in Seq(S \cup T) /\ ToSet(u) = S \cup T
  BY <1>1, ToSetConcat
<1>3. /\ m \in Nat /\ Len(t) \in Nat /\ DOMAIN s = 1..m /\ DOMAIN t = 1..Len(t)
      /\ DOMAIN u = 1..m + Len(t)
      /\ \A i \in DOMAIN u : i <= m => u[i] = s[i]
      /\ \A i \in DOMAIN u : i > m => u[i] = t[i - m]
  BY <1>1
<1>4. \A i \in DOMAIN s : s[i] \in S
  BY DEF Sorts
<1>5. \A i \in DOMAIN t : t[i] \in T
  BY DEF Sorts
<1> HIDE DEF u, m
<1>6. ASSUME NEW i \in DOMAIN u, NEW j \in DOMAIN u, i < j PROVE Less(u[i], u[j])
  <2>1. CASE j <= m
    <3>1. i \in DOMAIN s /\ j \in DOMAIN s /\ u[i] = s[i] /\ u[j] = s[j]
      BY <1>3, <1>6, <2>1
    <3> QED
      BY <1>6, <3>1 DEF Sorts, Ascending
  <2>2. CASE i > m
    <3>1. /\ i - m \in DOMAIN t /\ j - m \in DOMAIN t /\ u[i] = t[i - m] /\ u[j] = t[j - m]
          /\ i - m < j - m
      BY <1>3, <1>6, <2>2
    <3> QED
      BY <3>1 DEF Sorts, Ascending
  <2>3. CASE i <= m /\ j > m
    <3>1. i \in DOMAIN s /\ j - m \in DOMAIN t /\ u[i] = s[i] /\ u[j] = t[j - m]
      BY <1>3, <1>6, <2>3
    <3> QED
      BY <1>4, <1>5, <3>1
  <2> QED
    BY <1>3, <2>1, <2>2, <2>3
<1>7. Ascending(u)
  BY <1>6 DEF Ascending
<1> QED
  BY <1>2, <1>7 DEF Sorts, u

LEMMA SortsOne ==
  ASSUME NEW e
  PROVE  Sorts(<<e>>, {e})
<1>1. <<e>> \in Seq({e}) /\ Len(<<e>>) = 1 /\ DOMAIN <<e>> = {1} /\ <<e>>[1] = e
  OBVIOUS
<1>2. ToSet(<<e>>) = {e}
  BY DEF ToSet
<1>3. Ascending(<<e>>)
  BY <1>1 DEF Ascending
<1> QED
  BY <1>1, <1>2, <1>3 DEF Sorts

\* A stretch of a sorted list sorts its entries.
LEMMA SortsSubsequence ==
  ASSUME NEW S, Versions(S), NEW s, Sorts(s, S), NEW at, at \subseteq DOMAIN s
  PROVE  Sorts(Subsequence(s, at), {s[i] : i \in at})
<1> DEFINE m == Cardinality(at)
           t == Subsequence(s, at)
           T == {s[i] : i \in at}
<1>1. s \in Seq(S) /\ Len(s) \in Nat /\ DOMAIN s = 1..Len(s) /\ at \subseteq 1..Len(s)
  BY DEF Sorts
<1>2. t \in Seq(S) /\ ToSet(t) = T
  BY <1>1, ToSetSubsequence
<1>3. m \in Nat /\ Picks(t, s, at)
  BY <1>1, SubsequenceFacts
<1> HIDE DEF t, T, m
<1>4. PICK f : Ascends(f, at) /\ t = [p \in 1..m |-> s[f[p]]]
  BY <1>3 DEF Picks, m
<1>5. \A p \in 1..m : f[p] \in at
  BY <1>4 DEF Ascends, m
<1>6. \A p, q \in 1..m : p < q => f[p] < f[q]
  BY <1>4 DEF Ascends, m
<1>7. Ascending(t)
  <2> SUFFICES ASSUME NEW p \in 1..m, NEW q \in 1..m, p < q PROVE Less(t[p], t[q])
    BY <1>4 DEF Ascending
  <2>1. f[p] \in DOMAIN s /\ f[q] \in DOMAIN s /\ f[p] < f[q]
    BY <1>5, <1>6
  <2>2. t[p] = s[f[p]] /\ t[q] = s[f[q]]
    BY <1>4
  <2> QED
    BY <2>1, <2>2 DEF Sorts, Ascending
<1>8. t \in Seq(T)
  BY <1>2, ToSetFacts
<1> QED
  BY <1>2, <1>7, <1>8 DEF Sorts, t, T

\* Sorting a buffer without repetitions.
LEMMA SortsStably ==
  ASSUME NEW S, Versions(S), NEW s \in Seq(S), ToSet(s) = S,
         \A i, j \in DOMAIN s : s[i] = s[j] => i = j
  PROVE  Sorts(StableSort(s), S)
<1> DEFINE n == Len(s)
           D == 1..n
           t == StableSort(s)
<1>1. n \in Nat /\ DOMAIN s = D /\ s \in [D -> S] /\ S = {s[j] : j \in D}
  BY ToSetFacts
<1>2. t \in Seq(S) /\ Len(t) = n /\ InOrder(t) /\ ToSet(t) = S
  BY SortFacts DEF Versions
<1> HIDE DEF n, t
<1>3. t \in [D -> S] /\ S = {t[j] : j \in D}
  BY <1>2, ToSetFacts
<1>4. IsFiniteSet(D)
  <2>1. n \in Nat
    BY <1>1
  <2> QED
    BY <2>1, FS_Interval
<1> HIDE DEF D
<1>5. s \in Bijection(D, S)
  BY <1>1 DEF Bijection, Injection, Surjection, IsInjective
<1>6. ExistsBijection(D, S)
  BY <1>5 DEF ExistsBijection
<1>7. Cardinality(D) = Cardinality(S)
  BY <1>4, <1>6, FS_Bijection
<1>8. t \in Surjection(D, S)
  BY <1>3 DEF Surjection
<1>9. t \in Injection(D, S)
  BY <1>4, <1>7, <1>8, FS_SurjSameCardinalityImpliesInj
<1>10. DOMAIN t = D /\ D \subseteq Nat
  BY <1>1, <1>3 DEF D
<1>11. ASSUME NEW i \in D, NEW j \in D, i < j PROVE Less(t[i], t[j])
  <2>1. t[i] # t[j]
    BY <1>9, <1>10, <1>11 DEF Injection, IsInjective
  <2>2. ~Less(t[j], t[i])
    BY <1>2, <1>10, <1>11 DEF InOrder
  <2>3. t[i] \in S /\ t[j] \in S
    BY <1>3
  <2> QED
    BY <2>1, <2>2, <2>3, LessOrder
<1>12. Ascending(t)
  BY <1>10, <1>11 DEF Ascending
<1> QED
  BY <1>2, <1>12 DEF Sorts, t

LEMMA SortsSubSeq ==
  ASSUME NEW S, NEW s, Sorts(s, S), NEW m \in Nat \ {0}, NEW n \in Nat, n <= Len(s)
  PROVE  Sorts(SubSeq(s, m, n), {s[i] : i \in m..n})
<1> DEFINE t == SubSeq(s, m, n)
           T == {s[i] : i \in m..n}
<1>1. s \in Seq(S) /\ Len(s) \in Nat /\ DOMAIN s = 1..Len(s)
  BY DEF Sorts
<1>2. t \in Seq(S) /\ ToSet(t) = T
  BY <1>1, ToSetSubSeq
<1>3. /\ Len(t) = IF m <= n THEN n - m + 1 ELSE 0
      /\ \A i \in 1..n - m + 1 : t[i] = s[m + i - 1]
  BY <1>1, SubSeqProperties
<1>4. DOMAIN t = 1..Len(t) /\ Len(t) \in Nat
  BY <1>2
<1> HIDE DEF t, T
<1>5. Ascending(t)
  <2> SUFFICES ASSUME NEW i \in DOMAIN t, NEW j \in DOMAIN t, i < j PROVE Less(t[i], t[j])
    BY DEF Ascending
  <2>1. /\ i \in 1..n - m + 1 /\ j \in 1..n - m + 1
        /\ m + i - 1 \in DOMAIN s /\ m + j - 1 \in DOMAIN s /\ m + i - 1 < m + j - 1
    BY <1>1, <1>3, <1>4
  <2>2. t[i] = s[m + i - 1] /\ t[j] = s[m + j - 1]
    BY <1>3, <2>1
  <2>3. Less(s[m + i - 1], s[m + j - 1])
    BY <2>1 DEF Sorts, Ascending
  <2> QED
    BY <2>2, <2>3
<1>6. t \in Seq(T)
  BY <1>2, ToSetFacts
<1> QED
  BY <1>2, <1>5, <1>6 DEF Sorts, t, T

\* Putting a new entry in front of the first that is not below it.
LEMMA SortsInsert ==
  ASSUME NEW S, NEW x, x \notin S, Versions(S \cup {x}), NEW s, Sorts(s, S)
  PROVE  Sorts(skiplist_insert(s, x), S \cup {x})
<1> DEFINE m == Len(s)
           L == {i \in DOMAIN s : Less(s[i], x)}
           n == Cardinality(L)
           A == {s[i] : i \in 1..n}
           B == {s[i] : i \in n + 1..m}
           a == SubSeq(s, 1, n)
           b == SubSeq(s, n + 1, m)
           c == <<x>>
           d == a \o c
<1>1. m \in Nat /\ DOMAIN s = 1..m /\ s \in [1..m -> S] /\ S = {s[i] : i \in 1..m}
  BY ToSetFacts DEF Sorts
<1> HIDE DEF m
<1>2. \A i \in L, j \in 1..m : j < i => j \in L
  <2> SUFFICES ASSUME NEW i \in L, NEW j \in 1..m, j < i PROVE Less(s[j], x)
    BY <1>1
  <2>1. i \in 1..m /\ Less(s[i], x) /\ Less(s[j], s[i])
    BY <1>1 DEF Sorts, Ascending
  <2>2. s[i] \in S \cup {x} /\ s[j] \in S \cup {x}
    BY <1>1, <2>1
  <2> QED
    BY <2>1, <2>2, LessOrder
<1>3. n \in 0..m /\ L = 1..n
  <2>1. L \subseteq 1..m
    BY <1>1
  <2> HIDE DEF L
  <2> QED
    BY <1>1, <1>2, <2>1, InitialPositions
<1>4. \A i \in 1..m : Less(s[i], x) <=> i <= n
  BY <1>1, <1>3
<1>5. skiplist_insert(s, x) = d \o b
  BY DEF skiplist_insert, m
<1> HIDE DEF n
<1>6. n \in Nat /\ n <= m /\ n + 1 \in Nat \ {0}
  BY <1>1, <1>3
<1>7. Sorts(a, A)
  BY <1>1, <1>6, SortsSubSeq DEF m
<1>8. Sorts(b, B)
  <2> DEFINE k == n + 1
  <2> HIDE DEF k
  <2>1. k \in Nat \ {0}
    BY <1>6 DEF k
  <2>2. Sorts(SubSeq(s, k, m), {s[i] : i \in k..m})
    BY <1>1, <2>1, SortsSubSeq DEF m
  <2> QED
    BY <2>2 DEF k
<1>9. Sorts(c, {x})
  BY SortsOne
<1>10. \A e \in A : Less(e, x)
  BY <1>1, <1>4, <1>6
<1>11. \A e \in B : Less(x, e)
  <2> SUFFICES ASSUME NEW i \in n + 1..m PROVE Less(x, s[i])
    OBVIOUS
  <2>1. i \in 1..m /\ ~(i <= n)
    BY <1>1, <1>6
  <2>2. ~Less(s[i], x) /\ s[i] \in S /\ s[i] # x
    BY <1>1, <1>4, <2>1
  <2> QED
    BY <2>2, LessOrder
<1>12. S = A \cup B
  <2>1. \A i : i \in 1..m <=> i \in 1..n \/ i \in n + 1..m
    BY <1>1, <1>6
  <2> QED
    BY <1>1, <2>1
<1>13. \A e \in A, f \in B : Less(e, f)
  BY <1>10, <1>11, <1>12, LessOrder
<1> HIDE DEF A, B, a, b, c
<1>14. Sorts(d, A \cup {x})
  BY <1>7, <1>9, <1>10, SortsConcat
<1> HIDE DEF d
<1>15. \A e \in A \cup {x}, f \in B : Less(e, f)
  BY <1>11, <1>13
<1>16. Sorts(d \o b, (A \cup {x}) \cup B)
  BY <1>8, <1>14, <1>15, SortsConcat
<1>17. (A \cup {x}) \cup B = S \cup {x}
  BY <1>12
<1> QED
  BY <1>5, <1>16, <1>17

-----------------------------------------------------------------------------
(* The invariant of the skip list *)

\* The nodes that hold entries, and the nodes on a level, the sentinel included.
Towers == DOMAIN heap \ {head_}
On(lv) == {p \in DOMAIN heap : heap[p].height > lv}

\* The order of the nodes: the sentinel, then by their entries.
Before(p, q) == q # head_ /\ (p = head_ \/ Less(heap[p].val, heap[q].val))

\* n is the node after p on level lv, or there is none.
IsNext(n, p, lv) ==
  \/ n = nullptr /\ \A q \in On(lv) : ~Before(p, q)
  \/ /\ n \in On(lv) /\ Before(p, n)
     /\ \A q \in On(lv) : Before(p, q) => q = n \/ Before(n, q)

ShapeInv ==
  /\ size_ \in Nat /\ DOMAIN heap = 1..size_ + 1 /\ heap = [p \in DOMAIN heap |-> heap[p]]
  /\ \A p \in DOMAIN heap :
       heap[p] \in [val : {heap[p].val}, height : 1..kMaxHeight, next : [Levels -> Nat]]
  /\ heap[head_].height = kMaxHeight /\ cur_height_ \in 1..kMaxHeight
  /\ \A p \in Towers : heap[p].height <= cur_height_

\* The entries that writes make.
Written ==
  {e \in [key : Keys, val : Nat, seq : Nat, del : {FALSE}, sz : {1}] : e.val = e.seq}

ContentsInv ==
  /\ seq_ \in 1..MaxSeq + 1
  /\ contents = {heap[p].val : p \in Towers}
  /\ contents \subseteq Written /\ \A e \in contents : e.seq < seq_
  /\ \A p, q \in Towers : heap[p].val = heap[q].val => p = q

LinksInv ==
  \A lv \in Levels, p \in DOMAIN heap :
    IF p \in On(lv) THEN IsNext(heap[p].next[lv], p, lv) ELSE heap[p].next[lv] = nullptr

ListInv == ShapeInv /\ ContentsInv /\ LinksInv

LEMMA WrittenVersions == Versions(Written)
<1>1. \A e \in Written : e.key \in Nat /\ e.seq \in Nat
  BY SkipListAssumption DEF Written
<1>2. IsEntries(Written)
  BY <1>1 DEF IsEntries
<1>3. \A e, f \in Written : e.key = f.key /\ e.seq = f.seq => e = f
  <2> SUFFICES ASSUME NEW e \in Written, NEW f \in Written, e.key = f.key, e.seq = f.seq
               PROVE  e = f
    OBVIOUS
  <2>1. e.val = f.val /\ e.sz = f.sz
    BY DEF Written
  <2>2. e.del = f.del
    BY DEF Written
  <2>3. /\ e = [key |-> e.key, val |-> e.val, seq |-> e.seq, del |-> e.del, sz |-> e.sz]
        /\ f = [key |-> f.key, val |-> f.val, seq |-> f.seq, del |-> f.del, sz |-> f.sz]
    BY DEF Written
  <2> QED
    BY <2>1, <2>2, <2>3, Zenon
<1> QED
  BY <1>2, <1>3 DEF Versions

LEMMA VersionsWithin ==
  ASSUME NEW S, NEW T, Versions(T), S \subseteq T
  PROVE  Versions(S)
BY DEF Versions, IsEntries

LEMMA HeapFacts ==
  ASSUME ListInv
  PROVE  /\ head_ \in DOMAIN heap /\ DOMAIN heap \subseteq Nat \ {0} /\ IsFiniteSet(DOMAIN heap)
         /\ \A lv \in Levels : head_ \in On(lv)
         /\ \A p \in Towers : heap[p].val \in contents
         /\ Versions(contents) /\ IsFiniteSet(contents)
<1>1. size_ \in Nat /\ DOMAIN heap = 1..size_ + 1
  BY DEF ListInv, ShapeInv
<1>2. head_ \in DOMAIN heap /\ DOMAIN heap \subseteq Nat \ {0}
  BY <1>1 DEF head_
<1>3. IsFiniteSet(1..size_ + 1)
  <2>1. size_ + 1 \in Nat
    BY <1>1
  <2> QED
    BY <2>1, FS_Interval
<1>4. \A lv \in Levels : head_ \in On(lv)
  BY <1>2, SkipListAssumption DEF On, Levels, ListInv, ShapeInv
<1>5. \A p \in Towers : heap[p].val \in contents
  BY DEF ListInv, ContentsInv
<1>6. Versions(contents)
  BY WrittenVersions, VersionsWithin DEF ListInv, ContentsInv
<1>7. IsFiniteSet(contents)
  <2> DEFINE f == [p \in Towers |-> heap[p].val]
  <2>1. f \in Surjection(Towers, contents)
    BY DEF Surjection, ListInv, ContentsInv
  <2>2. IsFiniteSet(Towers)
    BY <1>1, <1>3, FS_Subset DEF Towers
  <2> HIDE DEF f
  <2> QED
    BY <2>1, <2>2, FS_Surjection
<1> QED
  BY <1>1, <1>2, <1>3, <1>4, <1>5, <1>6, <1>7

LEMMA BeforeOrder ==
  ASSUME ListInv
  PROVE  /\ \A p \in DOMAIN heap : ~Before(p, p)
         /\ \A p, q \in DOMAIN heap : p # q => Before(p, q) \/ Before(q, p)
         /\ \A p, q \in DOMAIN heap : ~(Before(p, q) /\ Before(q, p))
         /\ \A p, q, r \in DOMAIN heap : Before(p, q) /\ Before(q, r) => Before(p, r)
<1>1. \A p \in DOMAIN heap : p # head_ => heap[p].val \in contents
  BY HeapFacts DEF Towers
<1>2. \A p, q \in DOMAIN heap : p # head_ /\ q # head_ /\ p # q => heap[p].val # heap[q].val
  BY DEF ListInv, ContentsInv, Towers
<1>3. Versions(contents)
  BY HeapFacts
<1>4. \A p \in DOMAIN heap : ~Before(p, p)
  BY <1>1, <1>3, LessOrder DEF Before
<1>5. \A p, q \in DOMAIN heap : p # q => Before(p, q) \/ Before(q, p)
  BY <1>1, <1>2, <1>3, LessOrder DEF Before
<1>6. \A p, q \in DOMAIN heap : ~(Before(p, q) /\ Before(q, p))
  BY <1>1, <1>3, LessOrder DEF Before
<1>7. \A p, q, r \in DOMAIN heap : Before(p, q) /\ Before(q, r) => Before(p, r)
  BY <1>1, <1>3, LessOrder DEF Before
<1> QED
  BY <1>4, <1>5, <1>6, <1>7

\* Every set of nodes has a last one.
LEMMA LastNode ==
  ASSUME ListInv, NEW Q, Q \subseteq DOMAIN heap, Q # {}
  PROVE  \E q \in Q : \A r \in Q : ~Before(q, r)
<1> DEFINE D == DOMAIN heap
           R == {pr \in D \X D : Before(pr[1], pr[2])}
           n == Cardinality(D)
           T == {Rank(R, D)[q] : q \in Q}
<1>1. IsFiniteSet(D) /\ n \in Nat
  BY HeapFacts, FS_CardinalityType
<1>2. \A p, q \in D : <<p, q>> \in R <=> Before(p, q)
  OBVIOUS
<1> HIDE DEF R, n
<1>3. StrictOrder(R, D)
  BY <1>2, BeforeOrder DEF StrictOrder
<1>4. /\ Rank(R, D) \in [D -> 1..n]
      /\ \A p, q \in D : <<p, q>> \in R <=> Rank(R, D)[p] < Rank(R, D)[q]
  BY <1>1, <1>3, Ranking DEF n
<1>5. T # {} /\ T \subseteq Nat /\ \A y \in T : y <= n
  BY <1>1, <1>4
<1>6. PICK x \in T : \A y \in T : y <= x
  BY <1>1, <1>5, GreatestNatural
<1>7. PICK q \in Q : x = Rank(R, D)[q]
  BY <1>6
<1>8. ASSUME NEW r \in Q PROVE ~Before(q, r)
  <2>1. Rank(R, D)[r] <= Rank(R, D)[q]
    BY <1>6, <1>7
  <2>2. Rank(R, D)[r] \in 1..n /\ Rank(R, D)[q] \in 1..n /\ q \in D /\ r \in D
    BY <1>4
  <2>3. ~(Rank(R, D)[q] < Rank(R, D)[r])
    BY <1>1, <2>1, <2>2
  <2> QED
    BY <1>2, <1>4, <2>2, <2>3
<1> QED
  BY <1>8

-----------------------------------------------------------------------------
(* Searches *)

\* p comes before the place of e.
Below(p, e) == p = head_ \/ Less(heap[p].val, e)

\* p is the last node of level lv before the place of e.
IsPrev(p, lv, e) ==
  /\ p \in On(lv) /\ Below(p, e)
  /\ \A q \in On(lv) : Below(q, e) => q = p \/ Before(q, p)

LEMMA PrevExists ==
  ASSUME ListInv, NEW lv \in Levels, NEW e
  PROVE  \E p : IsPrev(p, lv, e)
<1> DEFINE Q == {q \in On(lv) : Below(q, e)}
<1>1. head_ \in Q
  BY HeapFacts DEF Below
<1>2. Q \subseteq DOMAIN heap
  BY DEF On
<1>3. PICK p \in Q : \A r \in Q : ~Before(p, r)
  BY <1>1, <1>2, LastNode
<1>4. \A q \in Q : q = p \/ Before(q, p)
  BY <1>2, <1>3, BeforeOrder
<1> QED
  BY <1>3, <1>4 DEF IsPrev

\* What comes before a node below e is below e.
LEMMA BelowDown ==
  ASSUME ListInv, NEW e, Versions(contents \cup {e}),
         NEW p \in DOMAIN heap, NEW q \in DOMAIN heap, Before(p, q), Below(q, e)
  PROVE  Below(p, e)
<1>1. \A r \in DOMAIN heap : r # head_ => heap[r].val \in contents \cup {e}
  BY HeapFacts DEF Towers
<1> QED
  BY <1>1, LessOrder DEF Below, Before

\* f is the function that the inner loop of find_prev computes.
IsWalk(f, lv, e) ==
  f = [p \in DOMAIN heap |->
         LET n == heap[p].next[lv]
         IN  IF n = nullptr \/ ~Less(heap[n].val, e) THEN p ELSE f[n]]

\* The walk along a level, from any node before the place of e, ends right in front
\* of it.
LEMMA WalkFinds ==
  ASSUME ListInv, NEW lv \in Levels, NEW e, Versions(contents \cup {e}),
         NEW m, IsPrev(m, lv, e), NEW from \in On(lv), Below(from, e)
  PROVE  Walk(lv, from, e) = m
<1> DEFINE D == DOMAIN heap
           nx(p) == heap[p].next[lv]
           g == [p \in D |-> IF p \in On(lv) /\ Below(p, e) THEN m ELSE p]
           last == CHOOSE f : IsWalk(f, lv, e)
<1>1. Walk(lv, from, e) = last[from]
  BY Zenon DEF Walk, IsWalk
<1>2. On(lv) \subseteq D /\ nullptr \notin D /\ head_ \in D
  BY HeapFacts DEF On, nullptr
<1>3. ASSUME NEW p \in D
      PROVE  \/ p \notin On(lv) /\ nx(p) = nullptr
             \/ p \in On(lv) /\ IsNext(nx(p), p, lv)
  BY DEF ListInv, LinksInv
<1>4. ASSUME NEW p \in On(lv), nx(p) # nullptr
      PROVE  /\ nx(p) \in On(lv) /\ Before(p, nx(p)) /\ nx(p) # head_
             /\ Below(nx(p), e) <=> Less(heap[nx(p)].val, e)
  BY <1>2, <1>3, <1>4 DEF IsNext, Below, Before
<1> HIDE DEF nx
<1>5. ASSUME NEW p \in On(lv), Below(p, e), nx(p) = nullptr \/ ~Less(heap[nx(p)].val, e)
      PROVE  p = m
  <2>1. m \in On(lv) /\ Below(m, e) /\ (p = m \/ Before(p, m))
    BY <1>5 DEF IsPrev
  <2> SUFFICES ASSUME Before(p, m) PROVE FALSE
    BY <2>1
  <2>2. IsNext(nx(p), p, lv)
    BY <1>2, <1>3
  <2>3. nx(p) # nullptr /\ (m = nx(p) \/ Before(nx(p), m))
    BY <1>2, <2>1, <2>2 DEF IsNext
  <2>4. nx(p) \in On(lv) /\ ~Below(nx(p), e)
    BY <1>4, <1>5, <2>3
  <2> QED
    BY <1>2, <2>1, <2>3, <2>4, BelowDown
<1>6. \E f : IsWalk(f, lv, e)
  <2>1. ASSUME NEW p \in D
        PROVE  g[p] = IF nx(p) = nullptr \/ ~Less(heap[nx(p)].val, e) THEN p ELSE g[nx(p)]
    <3>1. CASE p \notin On(lv)
      BY <1>3, <3>1
    <3>2. CASE p \in On(lv) /\ ~Below(p, e)
      <4>1. nx(p) # nullptr => ~Less(heap[nx(p)].val, e)
        BY <1>2, <1>4, <3>2, BelowDown
      <4> QED
        BY <3>2, <4>1
    <3>3. CASE p \in On(lv) /\ Below(p, e)
      <4>1. CASE nx(p) = nullptr \/ ~Less(heap[nx(p)].val, e)
        BY <1>5, <3>3, <4>1
      <4>2. CASE ~(nx(p) = nullptr \/ ~Less(heap[nx(p)].val, e))
        <5>1. nx(p) \in D /\ nx(p) \in On(lv) /\ Below(nx(p), e)
          BY <1>2, <1>4, <3>3, <4>2
        <5> QED
          BY <3>3, <4>2, <5>1
      <4> QED
        BY <4>1, <4>2
    <3> QED
      BY <3>1, <3>2, <3>3
  <2>2. g = [p \in D |-> IF nx(p) = nullptr \/ ~Less(heap[nx(p)].val, e) THEN p ELSE g[nx(p)]]
    BY <2>1
  <2> HIDE DEF g
  <2>3. IsWalk(g, lv, e)
    BY <2>2 DEF IsWalk, nx
  <2> QED
    BY <2>3
<1>7. IsWalk(last, lv, e)
  BY <1>6
<1> HIDE DEF last
<1>8. \A p \in D :
        last[p] = IF nx(p) = nullptr \/ ~Less(heap[nx(p)].val, e) THEN p ELSE last[nx(p)]
  BY <1>7 DEF IsWalk, nx
<1>9. \A p \in On(lv) : Below(p, e) => last[p] = m
  <2> DEFINE Q == {p \in On(lv) : Below(p, e) /\ last[p] # m}
  <2> SUFFICES ASSUME Q # {} PROVE FALSE
    OBVIOUS
  <2>1. PICK q \in Q : \A r \in Q : ~Before(q, r)
    BY <1>2, LastNode
  <2>2. ~(nx(q) = nullptr \/ ~Less(heap[nx(q)].val, e))
    BY <1>2, <1>5, <1>8, <2>1
  <2>3. nx(q) \in On(lv) /\ Before(q, nx(q)) /\ Below(nx(q), e)
    BY <1>4, <2>1, <2>2
  <2>4. last[nx(q)] = last[q]
    BY <1>2, <1>8, <2>1, <2>2
  <2> QED
    BY <2>1, <2>3, <2>4
<1> QED
  BY <1>1, <1>9

\* f has the predecessors that find_prev collects from the top level down.
IsDescent(f, e) ==
  f = [lv \in 0..cur_height_ - 1 |->
         Walk(lv, IF lv = cur_height_ - 1 THEN head_ ELSE f[lv + 1], e)]

\* A node that is the last before e on one level is on the level below and before e
\* there.
LEMMA StepDown ==
  ASSUME ListInv, NEW lv \in Nat, lv + 1 \in Levels, NEW e, NEW p, IsPrev(p, lv + 1, e)
  PROVE  lv \in Levels /\ p \in On(lv) /\ Below(p, e)
<1>1. p \in DOMAIN heap /\ heap[p].height > lv + 1 /\ Below(p, e)
  BY DEF IsPrev, On
<1>2. heap[p].height \in Nat
  BY <1>1, SkipListAssumption DEF ListInv, ShapeInv
<1>3. lv \in Levels
  BY SkipListAssumption DEF Levels
<1> QED
  BY <1>1, <1>2, <1>3 DEF On

\* find_prev: on every level in use, the last node before the place of e.
LEMMA DescentFinds ==
  ASSUME ListInv, NEW e, Versions(contents \cup {e}), NEW lv \in 0..cur_height_ - 1
  PROVE  IsPrev(find_prev(e)[lv], lv, e)
<1> DEFINE top == cur_height_ - 1
           prev == CHOOSE f : IsDescent(f, e)
           g == [l \in 0..top |-> CHOOSE p : IsPrev(p, l, e)]
<1>1. find_prev(e) = prev
  BY Zenon DEF find_prev, IsDescent
<1>2. top \in Nat /\ 0..top \subseteq Levels /\ cur_height_ - 1 = top
  BY SkipListAssumption DEF ListInv, ShapeInv, Levels
<1> HIDE DEF top
<1>3. (\A l \in 0..top : IsPrev(g[l], l, e)) /\ g = [l \in 0..top |-> g[l]]
  BY <1>2, PrevExists
<1> HIDE DEF g
<1>4. ASSUME NEW l \in 0..top, NEW from, NEW m, IsPrev(m, l, e),
             IF l = top THEN from = head_ ELSE IsPrev(from, l + 1, e)
      PROVE  Walk(l, from, e) = m
  <2>1. from \in On(l) /\ Below(from, e)
    <3>1. CASE l = top
      BY <1>2, <1>4, <3>1, HeapFacts DEF Below
    <3>2. CASE l # top
      <4>1. l \in Nat /\ l + 1 \in 0..top
        BY <1>2, <3>2
      <4>2. l + 1 \in Levels /\ IsPrev(from, l + 1, e)
        BY <1>2, <1>4, <3>2, <4>1
      <4> QED
        BY <4>1, <4>2, StepDown
    <3> QED
      BY <3>1, <3>2
  <2> QED
    BY <1>2, <1>4, <2>1, WalkFinds
<1>5. \E f : IsDescent(f, e)
  <2>1. ASSUME NEW l \in 0..top
        PROVE  g[l] = Walk(l, IF l = top THEN head_ ELSE g[l + 1], e)
    <3>1. l # top => l + 1 \in 0..top
      BY <1>2
    <3>2. IF l = top THEN (IF l = top THEN head_ ELSE g[l + 1]) = head_
                     ELSE IsPrev(IF l = top THEN head_ ELSE g[l + 1], l + 1, e)
      BY <1>3, <3>1
    <3> QED
      BY <1>3, <1>4, <3>2
  <2>2. g = [l \in 0..top |-> Walk(l, IF l = top THEN head_ ELSE g[l + 1], e)]
    BY <1>3, <2>1
  <2>3. IsDescent(g, e)
    BY <1>2, <2>2 DEF IsDescent
  <2> QED
    BY <2>3
<1>6. IsDescent(prev, e)
  BY <1>5
<1> HIDE DEF prev
<1>7. \A l \in 0..top : prev[l] = Walk(l, IF l = top THEN head_ ELSE prev[l + 1], e)
  BY <1>2, <1>6 DEF IsDescent
<1> DEFINE T == {d \in Nat : d <= top => IsPrev(prev[top - d], top - d, e)}
<1>8. 0 \in T
  <2>1. prev[top] = Walk(top, head_, e) /\ top \in 0..top
    BY <1>2, <1>7
  <2>2. Walk(top, head_, e) = g[top]
    BY <1>2, <1>3, <1>4
  <2> QED
    BY <1>2, <1>3, <2>1, <2>2
<1>9. ASSUME NEW d \in Nat, d \in T PROVE d + 1 \in T
  <2> SUFFICES ASSUME d + 1 <= top
               PROVE  IsPrev(prev[top - (d + 1)], top - (d + 1), e)
    OBVIOUS
  <2> DEFINE l == top - (d + 1)
  <2>1. l \in 0..top /\ l # top /\ l + 1 = top - d /\ d <= top
    BY <1>2
  <2> HIDE DEF l
  <2>2. IsPrev(prev[l + 1], l + 1, e)
    BY <1>9, <2>1
  <2>3. Walk(l, prev[l + 1], e) = g[l]
    BY <1>3, <1>4, <2>1, <2>2
  <2>4. prev[l] = g[l]
    BY <1>7, <2>1, <2>3
  <2>5. IsPrev(prev[l], l, e)
    BY <1>3, <2>1, <2>4
  <2> QED
    BY <2>5 DEF l
<1> HIDE DEF T
<1>10. Nat \subseteq T
  BY <1>8, <1>9, SetInduction
<1>11. lv \in 0..top /\ top - lv \in Nat /\ top - lv <= top /\ top - (top - lv) = lv
  BY <1>2
<1>12. IsPrev(prev[lv], lv, e)
  BY <1>10, <1>11 DEF T
<1> QED
  BY <1>1, <1>12

\* The nodes an insertion links to are, on all levels of the new tower, the last
\* before the place of e.
LEMMA PrevOfFinds ==
  ASSUME ListInv, NEW e, Versions(contents \cup {e}), NEW h \in 1..kMaxHeight, NEW lv \in 0..h - 1
  PROVE  lv \in Levels /\ IsPrev(PrevOf(e, h)[lv], lv, e)
<1>1. /\ lv \in Levels /\ lv \in Nat /\ cur_height_ \in Nat
      /\ PrevOf(e, h)[lv] = IF lv < cur_height_ THEN find_prev(e)[lv] ELSE head_
  BY SkipListAssumption DEF PrevOf, Levels, ListInv, ShapeInv
<1>2. CASE lv < cur_height_
  <2>1. lv \in 0..cur_height_ - 1
    BY <1>1, <1>2
  <2> QED
    BY <1>1, <1>2, <2>1, DescentFinds
<1>3. CASE ~(lv < cur_height_)
  <2>1. \A p \in On(lv) : p = head_
    <3> SUFFICES ASSUME NEW p \in On(lv), p # head_ PROVE FALSE
      OBVIOUS
    <3>1. p \in Towers /\ heap[p].height > lv
      BY DEF On, Towers
    <3>2. heap[p].height <= cur_height_ /\ heap[p].height \in Nat
      BY <3>1, SkipListAssumption DEF ListInv, ShapeInv, Towers
    <3> QED
      BY <1>1, <1>3, <3>1, <3>2
  <2>2. head_ \in On(lv)
    BY <1>1, HeapFacts
  <2>3. IsPrev(head_, lv, e)
    BY <2>1, <2>2 DEF IsPrev, Below
  <2> QED
    BY <1>1, <1>3, <2>3
<1> QED
  BY <1>2, <1>3

\* The newest version of a key among the contents.
NewestOf(k) ==
  {e \in contents : e.key = k /\ \A f \in contents : f.key = k => f.seq <= e.seq}

\* find_key: the search for a version above all others ends in front of the newest.
LEMMA FindKeyFinds ==
  ASSUME ListInv, NEW k \in Keys
  PROVE  find_key(k) = NewestOf(k)
<1> DEFINE probe == Entry(k, NoValue, MaxSeq + 1, FALSE, 0)
           m == find_prev(probe)[0]
           c == heap[m].next[0]
<1>1. find_key(k) = IF c # nullptr /\ heap[c].val.key = k THEN {heap[c].val} ELSE {}
  BY DEF find_key
<1>2. probe.key = k /\ probe.seq = MaxSeq + 1 /\ k \in Nat /\ MaxSeq \in Nat
  BY SkipListAssumption DEF Entry
<1> HIDE DEF probe
<1>3. \A e \in contents : e.key \in Nat /\ e.seq \in Nat /\ e.seq < probe.seq
  <2>1. IsEntries(contents)
    BY HeapFacts DEF Versions
  <2>2. \A e \in contents : e.seq < seq_ /\ seq_ \in 1..MaxSeq + 1
    BY DEF ListInv, ContentsInv
  <2> QED
    BY <1>2, <2>1, <2>2 DEF IsEntries
<1>4. Versions(contents \cup {probe})
  <2>1. Versions(contents)
    BY HeapFacts
  <2>2. probe.key \in Nat /\ probe.seq \in Nat
    BY <1>2
  <2>3. \A e \in contents : e.seq # probe.seq
    BY <1>2, <1>3
  <2> QED
    BY <2>1, <2>2, <2>3 DEF Versions, IsEntries
<1>5. 0 \in 0..cur_height_ - 1 /\ 0 \in Levels
  BY SkipListAssumption DEF Levels, ListInv, ShapeInv
<1>6. IsPrev(m, 0, probe)
  BY <1>4, <1>5, DescentFinds
<1>7. On(0) = DOMAIN heap
  BY SkipListAssumption DEF On, ListInv, ShapeInv
<1>8. m \in On(0) /\ IsNext(c, m, 0)
  BY <1>5, <1>6, <1>7 DEF ListInv, LinksInv, IsPrev
<1>9. nullptr \notin DOMAIN heap
  BY HeapFacts DEF nullptr
<1> HIDE DEF m, c
<1>10. ASSUME NEW f \in contents, f.key = k
       PROVE  /\ c # nullptr /\ c \in Towers
              /\ heap[c].val = f \/ Less(heap[c].val, f)
  <2>1. PICK q \in Towers : heap[q].val = f
    BY DEF ListInv, ContentsInv
  <2>2. q \in DOMAIN heap /\ q # head_
    BY <2>1 DEF Towers
  <2>3. ~Less(f, probe)
    BY <1>2, <1>3, <1>10 DEF Less
  <2>4. ~Below(q, probe)
    BY <2>1, <2>2, <2>3 DEF Below
  <2>5. q # m /\ ~Before(q, m)
    BY <1>4, <1>6, <1>7, <1>8, <2>2, <2>4, BelowDown DEF IsPrev
  <2>6. Before(m, q)
    BY <1>7, <1>8, <2>2, <2>5, BeforeOrder
  <2>7. c \in On(0) /\ Before(m, c) /\ (q = c \/ Before(c, q))
    BY <1>7, <1>8, <2>2, <2>6 DEF IsNext
  <2>8. c \in Towers /\ c # nullptr
    BY <1>7, <1>9, <2>7 DEF Before, Towers
  <2>9. heap[c].val = f \/ Less(heap[c].val, f)
    BY <2>1, <2>7, <2>8 DEF Before, Towers
  <2> QED
    BY <2>8, <2>9
<1>11. ASSUME c # nullptr
       PROVE  c \in Towers /\ heap[c].val \in contents /\ ~Less(heap[c].val, probe)
  <2>1. c \in On(0) /\ Before(m, c)
    BY <1>8, <1>11 DEF IsNext
  <2>2. c \in Towers
    BY <1>7, <2>1 DEF Before, Towers
  <2>3. ~Below(c, probe)
    BY <1>6, <1>7, <1>8, <2>1, BeforeOrder DEF IsPrev
  <2> QED
    BY <2>2, <2>3, HeapFacts DEF Below
<1>12. CASE c # nullptr /\ heap[c].val.key = k
  <2> DEFINE v == heap[c].val
  <2>1. v \in contents /\ v.key = k
    BY <1>11, <1>12
  <2>2. \A f \in contents : f.key = k => f.seq <= v.seq
    BY <1>3, <1>10, <2>1 DEF Less
  <2>3. \A e \in contents : e.key = k /\ v.seq <= e.seq => e = v
    <3> SUFFICES ASSUME NEW e \in contents, e.key = k, v.seq <= e.seq PROVE e = v
      OBVIOUS
    <3>1. e.seq = v.seq
      BY <1>3, <2>1, <2>2
    <3> QED
      BY <2>1, <3>1, HeapFacts DEF Versions
  <2> HIDE DEF v
  <2>4. NewestOf(k) = {v}
    BY <2>1, <2>2, <2>3 DEF NewestOf
  <2> QED
    BY <1>1, <1>12, <2>4 DEF v
<1>13. CASE ~(c # nullptr /\ heap[c].val.key = k)
  <2>1. \A f \in contents : f.key # k
    <3> SUFFICES ASSUME NEW f \in contents, f.key = k PROVE FALSE
      OBVIOUS
    <3>1. c # nullptr /\ heap[c].val.key # k /\ Less(heap[c].val, f)
      BY <1>10, <1>13
    <3>2. heap[c].val.key < k
      BY <3>1 DEF Less
    <3>3. Less(heap[c].val, probe)
      BY <1>2, <3>2 DEF Less
    <3> QED
      BY <1>11, <3>1, <3>3
  <2> QED
    BY <1>1, <1>13, <2>1 DEF NewestOf
<1> QED
  BY <1>12, <1>13

-----------------------------------------------------------------------------
(* The lists of the levels *)

\* The entries whose towers reach a level.
Up(lv) == {heap[p].val : p \in {q \in DOMAIN heap \ {head_} : heap[q].height > lv}}

\* Those that come after a node.
After(p, lv) == {heap[q].val : q \in {r \in On(lv) : Before(p, r)}}

\* f leads from each node to the entries after it in the order of the pointers.
IsChain(f, lv) ==
  f = [p \in DOMAIN heap |->
         LET n == heap[p].next[lv]
         IN  IF n = nullptr THEN <<>> ELSE <<heap[n].val>> \o f[n]]

LEMMA AfterFacts ==
  ASSUME ListInv, NEW lv \in Levels
  PROVE  /\ \A p \in On(lv) : /\ After(p, lv) \subseteq contents /\ Versions(After(p, lv))
                              /\ IsFiniteSet(After(p, lv))
         /\ After(head_, lv) = Up(lv)
<1>1. ASSUME NEW p \in On(lv) PROVE After(p, lv) \subseteq contents
  BY HeapFacts DEF After, On, Before, Towers
<1>2. \A p \in On(lv) : Versions(After(p, lv)) /\ IsFiniteSet(After(p, lv))
  BY <1>1, HeapFacts, VersionsWithin, FS_Subset
<1>3. After(head_, lv) = Up(lv)
  BY DEF After, Up, On, Before
<1> QED
  BY <1>1, <1>2, <1>3

\* One step along a level.
LEMMA AfterStep ==
  ASSUME ListInv, NEW lv \in Levels, NEW p \in On(lv)
  PROVE  LET n == heap[p].next[lv]
         IN  IF n = nullptr THEN After(p, lv) = {}
             ELSE /\ n \in On(lv) /\ Before(p, n)
                  /\ After(p, lv) = {heap[n].val} \cup After(n, lv)
                  /\ \A e \in After(n, lv) : Less(heap[n].val, e)
<1> DEFINE n == heap[p].next[lv]
<1>1. IsNext(n, p, lv) /\ nullptr \notin On(lv) /\ On(lv) \subseteq DOMAIN heap
  BY HeapFacts DEF ListInv, LinksInv, On, nullptr
<1> HIDE DEF n
<1>2. CASE n = nullptr
  BY <1>1, <1>2 DEF IsNext, After, n
<1>3. CASE n # nullptr
  <2>1. n \in On(lv) /\ Before(p, n) /\ \A q \in On(lv) : Before(p, q) => q = n \/ Before(n, q)
    BY <1>1, <1>3 DEF IsNext
  <2>2. \A q \in On(lv) : Before(p, q) <=> q = n \/ Before(n, q)
    BY <1>1, <2>1, BeforeOrder
  <2>3. After(p, lv) = {heap[n].val} \cup After(n, lv)
    BY <2>1, <2>2 DEF After
  <2>4. \A e \in After(n, lv) : Less(heap[n].val, e)
    BY <2>1 DEF After, Before
  <2> QED
    BY <1>3, <2>1, <2>3, <2>4 DEF n
<1> QED
  BY <1>2, <1>3

LEMMA ChainSorts ==
  ASSUME ListInv, NEW lv \in Levels
  PROVE  Sorts(Chain(lv), Up(lv))
<1> DEFINE D == DOMAIN heap
           nx(p) == heap[p].next[lv]
           g == [p \in D |-> IF p \in On(lv) THEN CHOOSE s : Sorts(s, After(p, lv)) ELSE <<>>]
           from == CHOOSE f : IsChain(f, lv)
<1>1. Chain(lv) = from[head_]
  BY Zenon DEF Chain, IsChain
<1>2. On(lv) \subseteq D /\ head_ \in On(lv) /\ \A p \in D : p \notin On(lv) => nx(p) = nullptr
  BY HeapFacts DEF On, ListInv, LinksInv
<1>3. ASSUME NEW p \in On(lv), nx(p) = nullptr PROVE Sorts(<<>>, After(p, lv))
  BY <1>3, AfterStep, SortsNothing
<1>4. ASSUME NEW p \in On(lv), nx(p) # nullptr, NEW t, Sorts(t, After(nx(p), lv))
      PROVE  Sorts(<<heap[nx(p)].val>> \o t, After(p, lv))
  <2> DEFINE v == heap[nx(p)].val
             u == <<v>>
             A == After(nx(p), lv)
  <2>1. After(p, lv) = {v} \cup A /\ \A e \in A : Less(v, e)
    BY <1>4, AfterStep
  <2>2. Sorts(u, {v}) /\ Sorts(t, A)
    BY <1>4, SortsOne
  <2> HIDE DEF u, A, v
  <2>3. \A d \in {v}, e \in A : Less(d, e)
    BY <2>1
  <2>4. Sorts(u \o t, {v} \cup A)
    BY <2>2, <2>3, SortsConcat
  <2> QED
    BY <2>1, <2>4 DEF u, v
<1>5. \A p \in On(lv) : nx(p) # nullptr => nx(p) \in On(lv) /\ Before(p, nx(p))
  BY AfterStep
<1> HIDE DEF nx
<1>0. g = [p \in D |-> g[p]]
  OBVIOUS
<1>6. \A p \in On(lv) : Sorts(g[p], After(p, lv))
  <2> SUFFICES ASSUME NEW p \in On(lv) PROVE Sorts(g[p], After(p, lv))
    OBVIOUS
  <2>1. \E s : Sorts(s, After(p, lv))
    BY AfterFacts, SortsExists
  <2> QED
    BY <1>2, <2>1
<1>7. \E f : IsChain(f, lv)
  <2>1. ASSUME NEW p \in D
        PROVE  g[p] = IF nx(p) = nullptr THEN <<>> ELSE <<heap[nx(p)].val>> \o g[nx(p)]
    <3>1. CASE p \notin On(lv)
      BY <1>2, <3>1
    <3>2. CASE p \in On(lv)
      <4>1. Versions(After(p, lv)) /\ Sorts(g[p], After(p, lv))
        BY <1>6, <3>2, AfterFacts
      <4> HIDE DEF g
      <4>2. CASE nx(p) = nullptr
        <5>1. Sorts(<<>>, After(p, lv))
          BY <1>3, <3>2, <4>2
        <5> QED
          BY <4>1, <4>2, <5>1, SortsUnique
      <4>3. CASE nx(p) # nullptr
        <5>1. Sorts(g[nx(p)], After(nx(p), lv))
          BY <1>5, <1>6, <3>2, <4>3
        <5>2. Sorts(<<heap[nx(p)].val>> \o g[nx(p)], After(p, lv))
          BY <1>4, <3>2, <4>3, <5>1
        <5> QED
          BY <4>1, <4>3, <5>2, SortsUnique
      <4> QED
        BY <4>2, <4>3
    <3> QED
      BY <3>1, <3>2
  <2>2. g = [p \in D |-> IF nx(p) = nullptr THEN <<>> ELSE <<heap[nx(p)].val>> \o g[nx(p)]]
    <3> HIDE DEF g
    <3> QED
      BY <1>0, <2>1
  <2> HIDE DEF g
  <2>3. IsChain(g, lv)
    BY <2>2 DEF IsChain, nx
  <2> QED
    BY <2>3
<1>8. IsChain(from, lv)
  BY <1>7
<1> HIDE DEF from
<1>9. \A p \in D : from[p] = IF nx(p) = nullptr THEN <<>> ELSE <<heap[nx(p)].val>> \o from[nx(p)]
  BY <1>8 DEF IsChain, nx
<1>10. \A p \in On(lv) : Sorts(from[p], After(p, lv))
  <2> DEFINE Q == {p \in On(lv) : ~Sorts(from[p], After(p, lv))}
  <2> SUFFICES ASSUME Q # {} PROVE FALSE
    OBVIOUS
  <2>1. PICK q \in Q : \A r \in Q : ~Before(q, r)
    BY <1>2, LastNode
  <2>2. q \in D /\ q \in On(lv) /\ ~Sorts(from[q], After(q, lv))
    BY <1>2
  <2>3. nx(q) # nullptr
    BY <1>3, <1>9, <2>2
  <2>4. nx(q) \in On(lv) /\ Before(q, nx(q))
    BY <1>5, <2>2, <2>3
  <2>5. Sorts(from[nx(q)], After(nx(q), lv))
    BY <2>1, <2>4
  <2>6. Sorts(<<heap[nx(q)].val>> \o from[nx(q)], After(q, lv))
    BY <1>4, <2>2, <2>3, <2>5
  <2> QED
    BY <1>9, <2>2, <2>3, <2>6
<1> QED
  BY <1>1, <1>2, <1>10, AfterFacts

-----------------------------------------------------------------------------
(* The steps of the skip list *)

\* What SkipList::insert does to the nodes: x is the new entry, of height h, put
\* into node nd, and prev the nodes that it is linked behind.
Linked(x, h, nd, prev) ==
  /\ DOMAIN heap' = DOMAIN heap \cup {nd} /\ heap' = [p \in DOMAIN heap' |-> heap'[p]]
  /\ heap'[nd] \in [val : {x}, height : {h}, next : [Levels -> Nat]]
  /\ \A lv \in Levels : heap'[nd].next[lv] = IF lv \in 0..h - 1 THEN heap[prev[lv]].next[lv]
                                             ELSE nullptr
  /\ \A p \in DOMAIN heap :
       /\ heap'[p] \in [val : {heap[p].val}, height : {heap[p].height}, next : [Levels -> Nat]]
       /\ \A lv \in Levels : heap'[p].next[lv] = IF lv \in 0..h - 1 /\ prev[lv] = p THEN nd
                                                 ELSE heap[p].next[lv]

LEMMA InsertLinks ==
  ASSUME ListInv, NEW x, Versions(contents \cup {x}), NEW h \in 1..kMaxHeight, insert(x, h)
  PROVE  Linked(x, h, size_ + 2, PrevOf(x, h))
<1> DEFINE prev == PrevOf(x, h)
           nd == Max(DOMAIN heap) + 1
           Tower(lv) == lv \in DOMAIN prev
           nextNew == [lv \in Levels |-> IF Tower(lv) THEN heap[prev[lv]].next[lv] ELSE nullptr]
           nextOld(p) == [lv \in Levels |-> IF Tower(lv) /\ prev[lv] = p THEN nd
                                            ELSE heap[p].next[lv]]
<1>1. size_ \in Nat /\ DOMAIN heap = 1..size_ + 1
  BY DEF ListInv, ShapeInv
<1>2. nd = size_ + 2
  <2>1. size_ + 1 \in DOMAIN heap /\ \A y \in DOMAIN heap : size_ + 1 >= y
    BY <1>1
  <2>2. \A y \in DOMAIN heap : (\A z \in DOMAIN heap : y >= z) => y = size_ + 1
    <3> SUFFICES ASSUME NEW y \in DOMAIN heap, \A z \in DOMAIN heap : y >= z
                 PROVE  y = size_ + 1
      OBVIOUS
    <3>1. y >= size_ + 1 /\ size_ + 1 >= y /\ y \in Nat
      BY <1>1, <2>1
    <3> QED
      BY <1>1, <3>1
  <2>3. Max(DOMAIN heap) = size_ + 1
    BY <2>1, <2>2 DEF Max
  <2> QED
    BY <1>1, <2>3
<1>3. nd \in Nat /\ nd \notin DOMAIN heap
  BY <1>1, <1>2
<1>4. DOMAIN prev = 0..h - 1
  BY DEF PrevOf
<1>5. ASSUME NEW lv \in 0..h - 1 PROVE lv \in Levels /\ prev[lv] \in DOMAIN heap
  BY PrevOfFinds DEF IsPrev, On
<1>6. heap' = [p \in DOMAIN heap \cup {nd} |->
                 IF p = nd THEN [NewNode(x, h) EXCEPT !.next = nextNew]
                 ELSE [heap[p] EXCEPT !.next = nextOld(p)]]
  <2>1. heap' = [p \in DOMAIN heap \cup {nd} |->
                   IF p = nd
                   THEN [NewNode(x, h) EXCEPT !.next = [lv \in Levels |->
                           IF Tower(lv) THEN heap[prev[lv]].next[lv] ELSE nullptr]]
                   ELSE [heap[p] EXCEPT !.next = [lv \in Levels |->
                           IF Tower(lv) /\ prev[lv] = p THEN nd ELSE @[lv]]]]
    BY Zenon DEF insert
  <2> HIDE DEF Tower, prev, nd
  <2> QED
    BY <2>1
<1>7. \A p \in DOMAIN heap :
        heap[p] \in [val : {heap[p].val}, height : 1..kMaxHeight, next : [Levels -> Nat]]
  BY DEF ListInv, ShapeInv
<1>8. nextNew \in [Levels -> Nat] /\ \A p \in DOMAIN heap : nextOld(p) \in [Levels -> Nat]
  <2>1. \A lv \in Levels : (IF Tower(lv) THEN heap[prev[lv]].next[lv] ELSE nullptr) \in Nat
    BY <1>4, <1>5, <1>7 DEF nullptr
  <2>2. \A p \in DOMAIN heap, lv \in Levels :
          (IF Tower(lv) /\ prev[lv] = p THEN nd ELSE heap[p].next[lv]) \in Nat
    BY <1>3, <1>7
  <2> QED
    BY <2>1, <2>2
<1> HIDE DEF nd, prev
<1>9. /\ \A lv \in Levels : nextNew[lv] = IF lv \in 0..h - 1 THEN heap[prev[lv]].next[lv]
                                          ELSE nullptr
      /\ \A p \in DOMAIN heap, lv \in Levels :
           nextOld(p)[lv] = IF lv \in 0..h - 1 /\ prev[lv] = p THEN nd ELSE heap[p].next[lv]
  BY <1>4
<1> HIDE DEF nextNew, nextOld
<1>10. /\ heap'[nd] \in [val : {x}, height : {h}, next : [Levels -> Nat]]
       /\ heap'[nd].next = nextNew
  <2>1. heap'[nd] = [NewNode(x, h) EXCEPT !.next = nextNew]
    BY <1>6
  <2>2. NewNode(x, h) = [val |-> x, height |-> h, next |-> [lv \in Levels |-> nullptr]]
    BY DEF NewNode
  <2>3. heap'[nd] = [val |-> x, height |-> h, next |-> nextNew]
    BY <2>1, <2>2
  <2> QED
    BY <1>8, <2>3
<1>11. ASSUME NEW p \in DOMAIN heap
       PROVE  /\ heap'[p] \in [val : {heap[p].val}, height : {heap[p].height}, next : [Levels -> Nat]]
              /\ heap'[p].next = nextOld(p)
  <2>1. heap'[p] = [heap[p] EXCEPT !.next = nextOld(p)]
    BY <1>3, <1>6
  <2> QED
    BY <1>7, <1>8, <2>1
<1>12. DOMAIN heap' = DOMAIN heap \cup {nd} /\ heap' = [p \in DOMAIN heap' |-> heap'[p]]
  BY <1>6
<1>13. Linked(x, h, nd, prev)
  BY <1>9, <1>10, <1>11, <1>12 DEF Linked
<1> QED
  BY <1>2, <1>13 DEF prev

\* The new node takes its place in the order.
LEMMA NewPlace ==
  ASSUME ListInv, NEW x, Versions(contents \cup {x}), x \notin contents,
         NEW h \in 1..kMaxHeight, NEW nd, nd \notin DOMAIN heap, NEW prev, Linked(x, h, nd, prev)
  PROVE  /\ \A lv \in Levels : On(lv)' = IF lv \in 0..h - 1 THEN On(lv) \cup {nd} ELSE On(lv)
         /\ \A p, q \in DOMAIN heap : Before(p, q)' <=> Before(p, q)
         /\ \A p \in DOMAIN heap : Before(p, nd)' <=> Below(p, x)
         /\ \A p \in DOMAIN heap : Before(nd, p)' <=> ~Below(p, x)
         /\ ~Before(nd, nd)'
<1>1. /\ DOMAIN heap' = DOMAIN heap \cup {nd}
      /\ heap'[nd].val = x /\ heap'[nd].height = h
      /\ \A p \in DOMAIN heap : heap'[p].val = heap[p].val /\ heap'[p].height = heap[p].height
  BY DEF Linked
<1>2. nd # head_ /\ h \in Nat
  BY HeapFacts, SkipListAssumption
<1>3. \A p \in DOMAIN heap : p # head_ => heap[p].val \in contents
  BY HeapFacts DEF Towers
<1>4. \A lv \in Levels : h > lv <=> lv \in 0..h - 1
  BY SkipListAssumption DEF Levels
<1>5. \A lv \in Levels : On(lv)' = IF lv \in 0..h - 1 THEN On(lv) \cup {nd} ELSE On(lv)
  <2> SUFFICES ASSUME NEW lv \in Levels
               PROVE  On(lv)' = IF lv \in 0..h - 1 THEN On(lv) \cup {nd} ELSE On(lv)
    OBVIOUS
  <2>1. On(lv)' = {p \in DOMAIN heap' : heap'[p].height > lv}
    BY DEF On
  <2>2. h > lv <=> lv \in 0..h - 1
    BY <1>4
  <2> QED
    BY <1>1, <2>1, <2>2 DEF On
<1>6. \A p, q \in DOMAIN heap : Before(p, q)' <=> Before(p, q)
  BY <1>1 DEF Before, head_
<1>7. \A p \in DOMAIN heap : Before(p, nd)' <=> Below(p, x)
  BY <1>1, <1>2 DEF Before, Below, head_
<1>8. \A e \in contents : Less(x, e) <=> ~Less(e, x)
  <2>1. \A e \in contents : e \in contents \cup {x} /\ x \in contents \cup {x} /\ e # x
    OBVIOUS
  <2> QED
    BY <2>1, LessOrder
<1>9. \A p \in DOMAIN heap : Before(nd, p)' <=> ~Below(p, x)
  <2> SUFFICES ASSUME NEW p \in DOMAIN heap PROVE Before(nd, p)' <=> ~Below(p, x)
    OBVIOUS
  <2>1. Before(nd, p)' <=> p # head_ /\ Less(x, heap[p].val)
    BY <1>1, <1>2 DEF Before, head_
  <2>2. p # head_ => (Less(x, heap[p].val) <=> ~Less(heap[p].val, x))
    BY <1>3, <1>8
  <2> QED
    BY <2>1, <2>2 DEF Below
<1>10. ~Before(nd, nd)'
  <2>1. ~Less(x, x)
    BY LessOrder
  <2> QED
    BY <1>1, <1>2, <2>1 DEF Before, head_
<1> QED
  BY <1>5, <1>6, <1>7, <1>9, <1>10

\* Every pointer leads to the next node of its level after an insertion too.
LEMMA InsertKeepsLinks ==
  ASSUME ListInv, NEW x, Versions(contents \cup {x}), x \notin contents,
         NEW h \in 1..kMaxHeight, NEW nd, nd \notin DOMAIN heap,
         Linked(x, h, nd, PrevOf(x, h))
  PROVE  LinksInv'
<1> DEFINE prev == PrevOf(x, h)
<1> SUFFICES ASSUME NEW lv \in Levels, NEW p \in DOMAIN heap', NEW t, t = heap'[p].next[lv]
             PROVE  IF p \in On(lv)' THEN IsNext(t, p, lv)' ELSE t = nullptr
  BY DEF LinksInv, Levels, nullptr, IsNext, Before, On, head_
<1>1. /\ DOMAIN heap' = DOMAIN heap \cup {nd}
      /\ heap'[nd].next[lv] = IF lv \in 0..h - 1 THEN heap[prev[lv]].next[lv] ELSE nullptr
      /\ \A q \in DOMAIN heap : heap'[q].next[lv] = IF lv \in 0..h - 1 /\ prev[lv] = q THEN nd
                                                    ELSE heap[q].next[lv]
  BY DEF Linked
<1>2. /\ On(lv)' = IF lv \in 0..h - 1 THEN On(lv) \cup {nd} ELSE On(lv)
      /\ \A q, r \in DOMAIN heap : Before(q, r)' <=> Before(q, r)
      /\ \A q \in DOMAIN heap : Before(q, nd)' <=> Below(q, x)
      /\ \A q \in DOMAIN heap : Before(nd, q)' <=> ~Below(q, x)
      /\ ~Before(nd, nd)'
  BY NewPlace
<1>3. On(lv) \subseteq DOMAIN heap /\ nullptr \notin DOMAIN heap
  BY HeapFacts DEF On, nullptr
<1>4. \A q \in On(lv) : IsNext(heap[q].next[lv], q, lv)
  BY <1>3 DEF ListInv, LinksInv
<1>5. \A q \in DOMAIN heap : q \notin On(lv) => heap[q].next[lv] = nullptr
  BY DEF ListInv, LinksInv
<1>6. ASSUME NEW n, NEW q
      PROVE  IsNext(n, q, lv)' <=>
               \/ n = nullptr /\ \A r \in On(lv)' : ~Before(q, r)'
               \/ /\ n \in On(lv)' /\ Before(q, n)'
                  /\ \A r \in On(lv)' : Before(q, r)' => r = n \/ Before(n, r)'
  BY DEF IsNext, nullptr
<1> HIDE DEF prev
<1>7. CASE lv \notin 0..h - 1
  <2>1. On(lv)' = On(lv)
    BY <1>2, <1>7
  <2>2. CASE p = nd
    <3>1. p \notin On(lv)' /\ heap'[p].next[lv] = nullptr
      BY <1>1, <1>3, <1>7, <2>1, <2>2
    <3> QED
      BY <3>1
  <2>3. CASE p \in On(lv)
    <3>1. IsNext(t, p, lv)
      BY <1>1, <1>3, <1>4, <1>7, <2>3
    <3>2. IsNext(t, p, lv)'
      BY <1>2, <1>3, <1>6, <2>1, <2>3, <3>1 DEF IsNext
    <3> QED
      BY <2>1, <2>3, <3>1, <3>2
  <2>4. CASE p \in DOMAIN heap /\ p \notin On(lv)
    <3>1. heap'[p].next[lv] = nullptr
      BY <1>1, <1>5, <1>7, <2>4
    <3> QED
      BY <2>1, <2>4, <3>1
  <2> QED
    BY <1>1, <2>2, <2>3, <2>4
<1>8. CASE lv \in 0..h - 1
  <2>0. PICK m, n : m = prev[lv] /\ n = heap[m].next[lv]
    OBVIOUS
  <2>1. IsPrev(m, lv, x)
    BY <1>8, <2>0, PrevOfFinds DEF prev
  <2>2. m \in On(lv) /\ Below(m, x) /\ \A q \in On(lv) : Below(q, x) => q = m \/ Before(q, m)
    BY <2>1 DEF IsPrev
  <2>3. IsNext(n, m, lv)
    BY <1>4, <2>0, <2>2
  <2>4. On(lv)' = On(lv) \cup {nd}
    BY <1>2, <1>8
  <2>5. heap'[nd].next[lv] = n /\ heap'[m].next[lv] = nd
    BY <1>1, <1>3, <1>8, <2>0, <2>2
  <2>6. \A q \in DOMAIN heap : q # m => heap'[q].next[lv] = heap[q].next[lv]
    BY <1>1, <2>0
  <2>7. \A q \in On(lv) : ~Below(q, x) <=> Before(m, q)
    <3> SUFFICES ASSUME NEW q \in On(lv) PROVE ~Below(q, x) <=> Before(m, q)
      OBVIOUS
    <3>1. ASSUME Before(m, q) PROVE ~Below(q, x)
      BY <1>3, <2>2, <3>1, BeforeOrder
    <3>2. ASSUME ~Below(q, x) PROVE Before(m, q)
      <4>1. q # m /\ ~Before(q, m)
        BY <1>3, <2>2, <3>2, BelowDown
      <4> QED
        BY <1>3, <2>2, <4>1, BeforeOrder
    <3> QED
      BY <3>1, <3>2
  <2>8. CASE p = nd
    <3>1. CASE n = nullptr
      <4>1. \A r \in On(lv)' : ~Before(nd, r)'
        BY <1>2, <1>3, <2>2, <2>3, <2>4, <2>7, <3>1 DEF IsNext
      <4> QED
        BY <1>6, <2>4, <2>5, <2>8, <3>1, <4>1
    <3>2. CASE n # nullptr
      <4>1. n \in On(lv) /\ Before(m, n) /\ \A q \in On(lv) : Before(m, q) => q = n \/ Before(n, q)
        BY <2>3, <3>2 DEF IsNext
      <4>2. n \in On(lv)' /\ Before(nd, n)'
        BY <1>2, <1>3, <2>4, <2>7, <4>1
      <4>3. \A r \in On(lv)' : Before(nd, r)' => r = n \/ Before(n, r)'
        BY <1>2, <1>3, <2>4, <2>7, <4>1
      <4> QED
        BY <1>6, <2>4, <2>5, <2>8, <4>2, <4>3
    <3> QED
      BY <3>1, <3>2
  <2>9. CASE p = m
    <3>1. nd \in On(lv)' /\ Before(m, nd)'
      BY <1>2, <1>3, <2>2, <2>4
    <3>2. \A r \in On(lv)' : Before(m, r)' => r = nd \/ Before(nd, r)'
      BY <1>2, <1>3, <2>2, <2>4, <2>7
    <3> QED
      BY <1>6, <2>2, <2>4, <2>5, <2>9, <3>1, <3>2
  <2>10. CASE p \in On(lv) /\ p # m
    <3>1. IsNext(t, p, lv)
      BY <1>3, <1>4, <2>6, <2>10
    <3>2. CASE Below(p, x)
      <4>1. Before(p, m)
        BY <2>2, <2>10, <3>2
      <4>2. t \in On(lv) /\ Before(p, t) /\ \A q \in On(lv) : Before(p, q) => q = t \/ Before(t, q)
        BY <2>2, <3>1, <4>1 DEF IsNext
      <4>3. Below(t, x)
        BY <1>3, <2>2, <4>1, <4>2, BelowDown
      <4>4. \A r \in On(lv)' : Before(p, r)' => r = t \/ Before(t, r)'
        BY <1>2, <1>3, <2>4, <2>10, <4>2, <4>3
      <4>5. t \in On(lv)' /\ Before(p, t)'
        BY <1>2, <1>3, <2>4, <2>10, <4>2
      <4> QED
        BY <1>6, <2>4, <2>10, <3>1, <4>4, <4>5
    <3>3. CASE ~Below(p, x)
      <4>1. IsNext(t, p, lv)'
        BY <1>2, <1>3, <1>6, <2>4, <2>10, <3>1, <3>3 DEF IsNext
      <4> QED
        BY <2>4, <2>10, <3>1, <4>1
    <3> QED
      BY <3>2, <3>3
  <2>11. CASE p \in DOMAIN heap /\ p \notin On(lv)
    <3>1. heap'[p].next[lv] = nullptr /\ p # nd
      BY <1>5, <2>2, <2>6, <2>11
    <3> QED
      BY <2>4, <2>11, <3>1
  <2> QED
    BY <1>1, <2>8, <2>9, <2>10, <2>11
<1> QED
  BY <1>7, <1>8

LEMMA MaxOfTwo ==
  ASSUME NEW a \in Nat, NEW b \in Nat
  PROVE  Max({a, b}) = IF a >= b THEN a ELSE b
<1>1. CASE a >= b
  <2>1. \A x \in {a, b} : (\A y \in {a, b} : x >= y) => x = a
    BY <1>1
  <2>2. a \in {a, b} /\ \A y \in {a, b} : a >= y
    BY <1>1
  <2> QED
    BY <1>1, <2>1, <2>2 DEF Max
<1>2. CASE ~(a >= b)
  <2>1. \A x \in {a, b} : (\A y \in {a, b} : x >= y) => x = b
    BY <1>2
  <2>2. b \in {a, b} /\ \A y \in {a, b} : b >= y
    BY <1>2
  <2> QED
    BY <1>2, <2>1, <2>2 DEF Max
<1> QED
  BY <1>1, <1>2

\* The entry that a write makes next.
NextEntry(k) == Entry(k, seq_, seq_, FALSE, 1)

\* It is new.
LEMMA NextEntryNew ==
  ASSUME ListInv, NEW k \in Keys
  PROVE  /\ NextEntry(k) \in Written /\ NextEntry(k).seq = seq_ /\ NextEntry(k) \notin contents
         /\ contents \cup {NextEntry(k)} \subseteq Written
         /\ Versions(contents \cup {NextEntry(k)})
<1>1. seq_ \in Nat
  BY SkipListAssumption DEF ListInv, ContentsInv
<1>2. NextEntry(k) \in Written /\ NextEntry(k).seq = seq_
  <2>1. NextEntry(k) \in Written
    BY <1>1 DEF NextEntry, Entry, Written
  <2>2. NextEntry(k).seq = seq_
    BY DEF NextEntry, Entry
  <2> QED
    BY <2>1, <2>2
<1>3. \A e \in contents : e.seq # seq_
  <2>1. \A e \in contents : e.seq < seq_ /\ e.seq \in Nat
    BY HeapFacts DEF ListInv, ContentsInv, Versions, IsEntries
  <2> QED
    BY <1>1, <2>1
<1>4. contents \subseteq Written
  BY DEF ListInv, ContentsInv
<1>5. contents \cup {NextEntry(k)} \subseteq Written
  BY <1>2, <1>4
<1>6. Versions(contents \cup {NextEntry(k)})
  BY <1>5, WrittenVersions, VersionsWithin
<1> QED
  BY <1>2, <1>3, <1>5, <1>6

LEMMA InsertKeeps ==
  ASSUME ListInv, NEW k \in Keys, NEW h \in 1..kMaxHeight, Insert(k, h)
  PROVE  ListInv'
<1> DEFINE nd == size_ + 2
<1>0. PICK x : x = NextEntry(k)
  OBVIOUS
<1>1. /\ seq_ <= MaxSeq /\ seq_' = seq_ + 1 /\ contents' = contents \cup {x} /\ insert(x, h)
  BY <1>0 DEF Insert, NextEntry
<1>2. /\ x \in Written /\ x.seq = seq_ /\ x \notin contents
      /\ contents \cup {x} \subseteq Written /\ Versions(contents \cup {x})
  BY <1>0, NextEntryNew
<1>3. size_' = size_ + 1 /\ cur_height_' = Max({cur_height_, h})
  BY <1>1 DEF insert
<1>4. size_ \in Nat /\ DOMAIN heap = 1..size_ + 1 /\ nd \notin DOMAIN heap /\ nd \in Nat
  BY DEF ListInv, ShapeInv
<1>5. Linked(x, h, nd, PrevOf(x, h))
  BY <1>1, <1>2, InsertLinks
<1> HIDE DEF nd
<1>6. LinksInv'
  BY <1>2, <1>4, <1>5, InsertKeepsLinks
<1>7. /\ DOMAIN heap' = DOMAIN heap \cup {nd} /\ heap' = [p \in DOMAIN heap' |-> heap'[p]]
      /\ heap'[nd] \in [val : {x}, height : {h}, next : [Levels -> Nat]]
      /\ \A p \in DOMAIN heap :
           heap'[p] \in [val : {heap[p].val}, height : {heap[p].height}, next : [Levels -> Nat]]
  BY <1>5 DEF Linked
<1>8. nd # head_ /\ head_ \in DOMAIN heap /\ Towers' = Towers \cup {nd}
  BY <1>4, <1>7, HeapFacts DEF Towers, head_
<1>9. ShapeInv'
  <2>1. size_' \in Nat /\ DOMAIN heap' = 1..size_' + 1
    BY <1>3, <1>4, <1>7 DEF nd
  <2>2. \A p \in DOMAIN heap :
          /\ heap[p].height \in 1..kMaxHeight
          /\ heap'[p].height = heap[p].height /\ heap'[p].val = heap[p].val
    BY <1>7 DEF ListInv, ShapeInv
  <2>3. \A p \in DOMAIN heap' :
          heap'[p] \in [val : {heap'[p].val}, height : 1..kMaxHeight, next : [Levels -> Nat]]
    BY <1>7, <2>2
  <2>4. cur_height_ \in 1..kMaxHeight /\ cur_height_ \in Nat /\ h \in Nat
    BY SkipListAssumption DEF ListInv, ShapeInv
  <2>5. cur_height_' = IF cur_height_ >= h THEN cur_height_ ELSE h
    BY <1>3, <2>4, MaxOfTwo
  <2>6. heap'[head_].height = kMaxHeight
    BY <1>8, <2>2 DEF ListInv, ShapeInv
  <2>7. \A p \in Towers' : heap'[p].height <= cur_height_'
    <3>1. \A p \in Towers : heap[p].height <= cur_height_ /\ heap[p].height \in Nat
      BY SkipListAssumption DEF ListInv, ShapeInv, Towers
    <3>2. \A p \in Towers : heap'[p].height = heap[p].height
      BY <2>2 DEF Towers
    <3>3. heap'[nd].height = h
      BY <1>7
    <3> QED
      BY <1>8, <2>4, <2>5, <3>1, <3>2, <3>3
  <2> QED
    BY <1>7, <2>1, <2>3, <2>4, <2>5, <2>6, <2>7 DEF ShapeInv, Levels, head_
<1>10. ContentsInv'
  <2>1. seq_' \in 1..MaxSeq + 1
    BY <1>1, SkipListAssumption DEF ListInv, ContentsInv
  <2>2. heap'[nd].val = x /\ \A p \in Towers : heap'[p].val = heap[p].val
    BY <1>7 DEF Towers
  <2>3. contents = {heap[p].val : p \in Towers}
    BY DEF ListInv, ContentsInv
  <2>4. contents' = {heap'[p].val : p \in Towers'}
    BY <1>1, <1>8, <2>2, <2>3
  <2>5. \A e \in contents' : e.seq < seq_'
    <3>1. \A e \in contents : e.seq < seq_ /\ e.seq \in Nat /\ seq_ \in Nat
      BY HeapFacts, SkipListAssumption DEF ListInv, ContentsInv, Versions, IsEntries
    <3>2. seq_ \in Nat
      BY SkipListAssumption DEF ListInv, ContentsInv
    <3> QED
      BY <1>1, <1>2, <3>1, <3>2
  <2>6. contents' \subseteq Written
    BY <1>1, <1>2
  <2>7. \A p, q \in Towers : heap[p].val = heap[q].val => p = q
    BY DEF ListInv, ContentsInv
  <2>8. \A p \in Towers : heap[p].val # x
    BY <1>2, <2>3
  <2>9. \A p, q \in Towers' : heap'[p].val = heap'[q].val => p = q
    BY <1>8, <2>2, <2>7, <2>8
  <2> QED
    BY <2>1, <2>4, <2>5, <2>6, <2>9 DEF ContentsInv
<1> QED
  BY <1>6, <1>9, <1>10 DEF ListInv

\* An empty list: only the sentinel, without pointers.
EmptyList ==
  /\ DOMAIN heap = {head_} /\ heap = [p \in DOMAIN heap |-> heap[p]]
  /\ heap[head_] \in [val : {heap[head_].val}, height : {kMaxHeight}, next : [Levels -> {nullptr}]]
  /\ cur_height_ = 1 /\ size_ = 0 /\ contents = {} /\ seq_ \in 1..MaxSeq + 1

LEMMA EmptyListKeeps == EmptyList => ListInv
<1> SUFFICES ASSUME EmptyList PROVE ListInv
  OBVIOUS
<1>1. Towers = {}
  BY DEF Towers, EmptyList
<1>2. ShapeInv
  <2>1. DOMAIN heap = 1..size_ + 1
    BY DEF head_, EmptyList
  <2>2. heap[head_].height \in 1..kMaxHeight /\ 1 \in 1..kMaxHeight
    BY SkipListAssumption DEF EmptyList
  <2>3. heap[head_].next \in [Levels -> Nat]
    BY DEF nullptr, EmptyList
  <2>4. \A p \in DOMAIN heap :
          heap[p] \in [val : {heap[p].val}, height : 1..kMaxHeight, next : [Levels -> Nat]]
    BY <2>2, <2>3 DEF EmptyList
  <2> QED
    BY <1>1, <2>1, <2>2, <2>4 DEF ShapeInv, EmptyList
<1>3. ContentsInv
  BY <1>1 DEF ContentsInv, EmptyList
<1>4. LinksInv
  <2>1. \A lv \in Levels : heap[head_].next[lv] = nullptr
    BY DEF EmptyList
  <2>2. \A lv \in Levels : \A p \in On(lv) : ~Before(head_, p)
    BY DEF On, Before, EmptyList
  <2> QED
    BY <2>1, <2>2 DEF LinksInv, IsNext, EmptyList
<1> QED
  BY <1>2, <1>3, <1>4 DEF ListInv

LEMMA ListInit == Init => ListInv
<1> SUFFICES ASSUME Init PROVE ListInv
  OBVIOUS
<1>1. heap = [p \in {head_} |-> Sentinel]
  BY DEF Init
<1>2. DOMAIN heap = {head_} /\ heap = [p \in DOMAIN heap |-> heap[p]] /\ heap[head_] = Sentinel
  BY <1>1
<1>3. Sentinel \in [val : {Sentinel.val}, height : {kMaxHeight}, next : [Levels -> {nullptr}]]
  BY DEF Sentinel, NewNode
<1>4. EmptyList
  BY <1>2, <1>3, SkipListAssumption DEF Init, EmptyList
<1> QED
  BY <1>4, EmptyListKeeps

LEMMA DrainEmpties ==
  ASSUME ListInv, Drain
  PROVE  EmptyList'
<1>1. heap' = [p \in {head_} |-> Emptied]
  BY DEF Drain, clear
<1>2. heap[head_] \in [val : {heap[head_].val}, height : 1..kMaxHeight, next : [Levels -> Nat]]
  BY HeapFacts DEF ListInv, ShapeInv
<1>3. heap[head_].height = kMaxHeight
  BY DEF ListInv, ShapeInv
<1>4. heap'[head_] \in [val : {heap'[head_].val}, height : {kMaxHeight}, next : [Levels -> {nullptr}]]
  BY <1>1, <1>2, <1>3 DEF Emptied
<1>5. cur_height_' = 1 /\ size_' = 0 /\ contents' = {} /\ seq_' = seq_
  BY DEF Drain, clear
<1>6. seq_' \in 1..MaxSeq + 1
  BY <1>5 DEF ListInv, ContentsInv
<1>7. DOMAIN heap' = {head_} /\ heap' = [p \in DOMAIN heap' |-> heap'[p]]
  BY <1>1
<1> QED
  BY <1>4, <1>5, <1>6, <1>7 DEF EmptyList, head_, Levels, nullptr

LEMMA DrainKeeps == ListInv /\ Drain => ListInv'
<1>1. ListInv /\ Drain => EmptyList'
  BY DrainEmpties
<1>2. EmptyList => ListInv
  BY EmptyListKeeps
<1> QED
  BY <1>1, <1>2, PTL

\* A write that goes elsewhere only takes a sequence number.
LEMMA SeqKeeps ==
  ASSUME ListInv, UNCHANGED <<heap, cur_height_, size_, contents>>,
         seq_' \in {seq_, seq_ + 1}, seq_' <= MaxSeq + 1
  PROVE  ListInv'
<1>1. ShapeInv'
  BY DEF ListInv, ShapeInv, Towers, Levels
<1>2. LinksInv'
  BY DEF ListInv, LinksInv, IsNext, On, Before, Levels
<1>3. ContentsInv'
  <2>1. seq_ \in 1..MaxSeq + 1 /\ \A e \in contents : e.seq < seq_ /\ e.seq \in Nat
    BY HeapFacts DEF ListInv, ContentsInv, Versions, IsEntries
  <2>2. seq_' \in 1..MaxSeq + 1 /\ \A e \in contents : e.seq < seq_'
    BY <2>1, SkipListAssumption
  <2> QED
    BY <2>2 DEF ListInv, ContentsInv, Towers
<1> QED
  BY <1>1, <1>2, <1>3 DEF ListInv

-----------------------------------------------------------------------------
(* The batch *)

\* The sorted union of two sorted lists.
LEMMA SortsMerge ==
  ASSUME NEW S, NEW T, Versions(S \cup T), S \cap T = {}, NEW s, Sorts(s, S), NEW t, Sorts(t, T)
  PROVE  Sorts(StableSort(s \o t), S \cup T)
<1> DEFINE u == s \o t
           m == Len(s)
<1>1. /\ s \in Seq(S \cup T) /\ t \in Seq(S \cup T) /\ ToSet(s) = S /\ ToSet(t) = T
      /\ s \in Seq(S) /\ t \in Seq(T)
  BY DEF Sorts
<1>2. u \in Seq(S \cup T) /\ ToSet(u) = S \cup T
  BY <1>1, ToSetConcat
<1>3. /\ m \in Nat /\ Len(t) \in Nat /\ DOMAIN s = 1..m /\ DOMAIN t = 1..Len(t)
      /\ DOMAIN u = 1..m + Len(t)
      /\ \A i \in DOMAIN u : i <= m => u[i] = s[i]
      /\ \A i \in DOMAIN u : i > m => u[i] = t[i - m]
  BY <1>1
<1>4. (\A i \in DOMAIN s : s[i] \in S) /\ (\A i \in DOMAIN t : t[i] \in T)
  BY <1>1
<1>5. \A e \in S \cup T : ~Less(e, e)
  BY LessOrder
<1>6. \A i, j \in DOMAIN s : s[i] = s[j] => ~(i < j)
  BY <1>4, <1>5 DEF Sorts, Ascending
<1>7. \A i, j \in DOMAIN t : t[i] = t[j] => ~(i < j)
  BY <1>4, <1>5 DEF Sorts, Ascending
<1> HIDE DEF u, m
<1>8. ASSUME NEW i \in DOMAIN u, NEW j \in DOMAIN u, u[i] = u[j] PROVE ~(i < j)
  <2> SUFFICES ASSUME i < j PROVE FALSE
    OBVIOUS
  <2>1. CASE j <= m
    <3>1. i \in DOMAIN s /\ j \in DOMAIN s /\ u[i] = s[i] /\ u[j] = s[j]
      BY <1>3, <2>1
    <3> QED
      BY <1>6, <1>8, <3>1
  <2>2. CASE i > m
    <3>1. /\ i - m \in DOMAIN t /\ j - m \in DOMAIN t /\ u[i] = t[i - m] /\ u[j] = t[j - m]
          /\ i - m < j - m
      BY <1>3, <2>2
    <3> QED
      BY <1>7, <1>8, <3>1
  <2>3. CASE i <= m /\ j > m
    <3>1. i \in DOMAIN s /\ j - m \in DOMAIN t /\ u[i] = s[i] /\ u[j] = t[j - m]
      BY <1>3, <2>3
    <3> QED
      BY <1>4, <1>8, <3>1
  <2> QED
    BY <1>3, <2>1, <2>2, <2>3
<1>9. \A i, j \in DOMAIN u : u[i] = u[j] => i = j
  <2> SUFFICES ASSUME NEW i \in DOMAIN u, NEW j \in DOMAIN u, u[i] = u[j] PROVE i = j
    OBVIOUS
  <2>1. ~(i < j) /\ ~(j < i)
    BY <1>8
  <2> QED
    BY <1>3, <2>1
<1>10. Sorts(StableSort(u), S \cup T)
  BY <1>2, <1>9, SortsStably
<1> QED
  BY <1>10 DEF u

\* A sorted list is left alone by a sort.
LEMMA SortsAgain ==
  ASSUME NEW S, Versions(S), NEW s, Sorts(s, S)
  PROVE  StableSort(s) = s
<1>1. s \in Seq(S) /\ ToSet(s) = S /\ \A i \in DOMAIN s : s[i] \in S
  BY DEF Sorts
<1>2. \A i, j \in DOMAIN s : s[i] = s[j] => i = j
  <2> SUFFICES ASSUME NEW i \in DOMAIN s, NEW j \in DOMAIN s, s[i] = s[j], i # j PROVE FALSE
    OBVIOUS
  <2>1. Less(s[i], s[j]) \/ Less(s[j], s[i])
    BY <1>1 DEF Sorts, Ascending
  <2> QED
    BY <1>1, <2>1, LessOrder
<1>3. Sorts(StableSort(s), S)
  BY <1>1, <1>2, SortsStably
<1> QED
  BY <1>3, SortsUnique

\* The entries on their way: the buffer of the parent is a sorted list of written
\* entries, none of which is still in the skip list, and the outcome of a local
\* flush is what its functions return.
FlowInv ==
  /\ Sorts(parent, ToSet(parent)) /\ ToSet(parent) \subseteq Written
  /\ \A e \in ToSet(parent) : e.seq < seq_
  /\ contents \cap ToSet(parent) = {}
  /\ child \in Seq(Written)
  /\ Ran => /\ mins \in Ranges /\ parts = partition_entries(StableSort(parent), mins)
            /\ merged = sort_buffer(merge_sorted_entries(StableSort(parent), child))

BatchInv == ListInv /\ FlowInv

LEMMA VectorSorts ==
  ASSUME ListInv
  PROVE  Sorts(to_sorted_vector, contents)
<1>1. 0 \in Levels
  BY SkipListAssumption DEF Levels
<1>2. Sorts(Chain(0), Up(0))
  BY <1>1, ChainSorts
<1>3. Up(0) = contents
  <2>1. \A p \in DOMAIN heap : heap[p].height > 0
    BY SkipListAssumption DEF ListInv, ShapeInv
  <2> QED
    BY <2>1 DEF Up, Towers, ListInv, ContentsInv
<1> QED
  BY <1>2, <1>3 DEF to_sorted_vector

LEMMA BatchInitial == BatchInit => BatchInv
<1> SUFFICES ASSUME BatchInit PROVE BatchInv
  OBVIOUS
<1>1. ListInv
  BY ListInit DEF BatchInit
<1>2. ToSet(parent) = {} /\ Sorts(parent, {})
  BY SortsNothing DEF BatchInit, ToSet
<1>3. child \in Seq(Written) /\ ~Ran
  BY DEF BatchInit, Ran
<1> QED
  BY <1>1, <1>2, <1>3 DEF BatchInv, FlowInv

LEMMA BatchStep == BatchInv /\ [BatchNext]_batchVars => BatchInv'
<1> SUFFICES ASSUME BatchInv, [BatchNext]_batchVars PROVE BatchInv'
  OBVIOUS
<1> USE DEF BatchInv
<1>1. ASSUME NEW k \in Keys, ChildHas(k) PROVE BatchInv'
  <2>1. /\ UNCHANGED <<heap, cur_height_, size_, contents, parent, parts, mins, merged>>
        /\ seq_' = seq_ + 1 /\ seq_ <= MaxSeq /\ parts = <<>>
        /\ child' = sort_buffer(Append(child, NextEntry(k)))
    BY <1>1 DEF ChildHas, NextEntry
  <2>2. seq_ \in Nat
    BY SkipListAssumption DEF ListInv, ContentsInv
  <2>3. ListInv'
    <3>1. seq_' <= MaxSeq + 1
      BY <2>1, <2>2, SkipListAssumption
    <3> QED
      BY <2>1, <3>1, SeqKeeps
  <2>4. child' \in Seq(Written)
    <3> DEFINE c == Append(child, NextEntry(k))
    <3>0. NextEntry(k) \in Written /\ child \in Seq(Written)
      BY NextEntryNew DEF FlowInv
    <3>1. c \in Seq(Written)
      BY <3>0
    <3> HIDE DEF c
    <3>2. sort_buffer(c) \in Seq(Written)
      BY <3>1, WrittenVersions, SortBufferKeepsNewest DEF Versions
    <3> QED
      BY <2>1, <3>2 DEF c
  <2>5. \A e \in ToSet(parent) : e.seq < seq_'
    <3>1. \A e \in ToSet(parent) : e.seq < seq_ /\ e.seq \in Nat
      BY WrittenVersions DEF FlowInv, Versions, IsEntries
    <3> QED
      BY <2>1, <2>2, <3>1
  <2>6. FlowInv'
    BY <2>1, <2>4, <2>5 DEF FlowInv, Ran
  <2> QED
    BY <2>3, <2>6
<1>2. ASSUME NEW k \in Keys, NEW h \in 1..kMaxHeight, Write(k, h) PROVE BatchInv'
  <2>1. /\ UNCHANGED <<parent, child, parts, mins, merged>> /\ Insert(k, h) /\ parts = <<>>
        /\ seq_' = seq_ + 1 /\ contents' = contents \cup {NextEntry(k)}
    BY <1>2 DEF Write, Insert, NextEntry
  <2>2. ListInv'
    BY <2>1, InsertKeeps
  <2>3. seq_ \in Nat
    BY SkipListAssumption DEF ListInv, ContentsInv
  <2>4. \A e \in ToSet(parent) : e.seq < seq_ /\ e.seq \in Nat
    BY WrittenVersions DEF FlowInv, Versions, IsEntries
  <2>5. NextEntry(k) \notin ToSet(parent)
    <3>1. NextEntry(k).seq = seq_
      BY NextEntryNew
    <3>2. \A e \in ToSet(parent) : e.seq # seq_
      BY <2>3, <2>4
    <3> QED
      BY <3>1, <3>2
  <2>6. \A e \in ToSet(parent) : e.seq < seq_'
    BY <2>1, <2>3, <2>4
  <2>7. FlowInv'
    BY <2>1, <2>5, <2>6 DEF FlowInv, Ran
  <2> QED
    BY <2>2, <2>7
<1>3. CASE DrainInto
  <2>1. /\ UNCHANGED <<child, parts, mins, merged>> /\ Drain /\ parts = <<>>
        /\ parent' = StableSort(parent \o to_sorted_vector) /\ seq_' = seq_ /\ contents' = {}
    BY <1>3 DEF DrainInto, Drain
  <2>2. ListInv'
    BY <2>1, DrainKeeps
  <2> DEFINE P == ToSet(parent)
  <2>3. Sorts(parent, P) /\ Sorts(to_sorted_vector, contents) /\ P \cap contents = {}
    BY VectorSorts DEF FlowInv
  <2>4. P \cup contents \subseteq Written
    BY DEF FlowInv, ListInv, ContentsInv
  <2> HIDE DEF P
  <2>5. Sorts(parent', P \cup contents)
    <3>1. Versions(P \cup contents)
      BY <2>4, WrittenVersions, VersionsWithin
    <3> QED
      BY <2>1, <2>3, <3>1, SortsMerge
  <2>6. ToSet(parent') = P \cup contents
    BY <2>5 DEF Sorts
  <2>7. \A e \in P \cup contents : e.seq < seq_'
    BY <2>1 DEF P, FlowInv, ListInv, ContentsInv
  <2>8. FlowInv'
    BY <2>1, <2>4, <2>5, <2>6, <2>7 DEF FlowInv, Ran
  <2> QED
    BY <2>2, <2>8
<1>4. CASE local_flush
  <2>1. UNCHANGED <<heap, cur_height_, size_, seq_, contents, parent, child>>
    BY <1>4 DEF local_flush, vars
  <2>2. seq_' \in {seq_, seq_ + 1} /\ seq_' <= MaxSeq + 1
    BY <2>1, SkipListAssumption DEF ListInv, ContentsInv
  <2>3. ListInv'
    BY <2>1, <2>2, SeqKeeps
  <2>4. /\ mins' \in Ranges /\ parts' = partition_entries(StableSort(parent), mins')
        /\ merged' = sort_buffer(merge_sorted_entries(StableSort(parent), child))
    BY <1>4 DEF local_flush
  <2>5. FlowInv'
    BY <2>1, <2>4 DEF FlowInv, Ran
  <2> QED
    BY <2>3, <2>5
<1>5. CASE UNCHANGED batchVars
  <2>1. UNCHANGED <<heap, cur_height_, size_, seq_, contents, parent, child, mins, parts, merged>>
    BY <1>5 DEF batchVars, vars
  <2>2. seq_' \in {seq_, seq_ + 1} /\ seq_' <= MaxSeq + 1
    BY <2>1, SkipListAssumption DEF ListInv, ContentsInv
  <2>3. ListInv'
    BY <2>1, <2>2, SeqKeeps
  <2>4. FlowInv'
    BY <2>1 DEF FlowInv, Ran
  <2> QED
    BY <2>3, <2>4
<1> QED
  BY <1>1, <1>2, <1>3, <1>4, <1>5 DEF BatchNext

LEMMA BatchInvariant == BatchSpec => []BatchInv
<1>1. BatchInit => BatchInv
  BY BatchInitial
<1>2. BatchInv /\ [BatchNext]_batchVars => BatchInv'
  BY BatchStep
<1> QED
  BY <1>1, <1>2, PTL DEF BatchSpec

-----------------------------------------------------------------------------
(* The properties *)

\* Every level of the skip list is the sorted list of exactly the entries whose
\* towers reach it, after any number of inserts, of any heights, and clears
\* (skiplist.cpp: insert, clear).
THEOREM LevelsAlwaysSorted == BatchSpec => []LevelsSorted
<1>1. BatchInv => LevelsSorted
  <2> SUFFICES ASSUME BatchInv PROVE LevelsSorted
    OBVIOUS
  <2>0. ListInv
    BY DEF BatchInv
  <2>1. ASSUME NEW p \in DOMAIN heap, NEW lv \in Levels
        PROVE  heap[p].next[lv] \in DOMAIN heap \cup {nullptr}
    BY <2>0 DEF ListInv, LinksInv, IsNext, On
  <2>2. ASSUME NEW lv \in Levels
        PROVE  /\ Len(Chain(lv)) = Cardinality(Up(lv)) /\ ToSet(Chain(lv)) = Up(lv)
               /\ \A i, j \in DOMAIN Chain(lv) : i < j => Less(Chain(lv)[i], Chain(lv)[j])
               /\ Up(lv) # {} => lv < cur_height_
    <3>1. Sorts(Chain(lv), Up(lv))
      BY <2>0, ChainSorts
    <3>2. Versions(Up(lv))
      <4>1. head_ \in On(lv) /\ After(head_, lv) = Up(lv)
        BY <2>0, HeapFacts, AfterFacts
      <4> QED
        BY <2>0, <4>1, AfterFacts
    <3>3. Len(Chain(lv)) = Cardinality(Up(lv))
      BY <3>1, <3>2, SortsLength
    <3>4. Up(lv) # {} => lv < cur_height_
      <4> SUFFICES ASSUME NEW q \in Towers, heap[q].height > lv PROVE lv < cur_height_
        BY DEF Up, Towers
      <4>1. heap[q].height <= cur_height_ /\ heap[q].height \in Nat /\ cur_height_ \in Nat
        BY <2>0, SkipListAssumption DEF ListInv, ShapeInv, Towers
      <4>2. lv \in Nat
        BY SkipListAssumption DEF Levels
      <4> QED
        BY <4>1, <4>2
    <3> QED
      BY <3>1, <3>3, <3>4 DEF Sorts, Ascending
  <2> QED
    BY <2>1, <2>2 DEF LevelsSorted, Up
<1> QED
  BY <1>1, BatchInvariant, PTL

\* find_key answers with the newest version of a key, however the towers fell
\* (skiplist.cpp: find_key).
THEOREM FindKeyNewest == BatchSpec => []FindsNewest
<1>1. BatchInv => FindsNewest
  <2> SUFFICES ASSUME BatchInv, NEW k \in Keys PROVE find_key(k) = NewestOf(k)
    BY DEF FindsNewest, NewestOf
  <2> QED
    BY FindKeyFinds DEF BatchInv
<1> QED
  BY <1>1, BatchInvariant, PTL

\* The skip list implements the sorted sequence that module GravTree takes the
\* write buffer to be: an insert puts one entry in its place, a clear empties it.
THEOREM ListImplementsSequence == BatchSpec => ImplementsSorted
<1> DEFINE Vector == Sorts(to_sorted_vector, contents)
<1>1. BatchInv => Vector
  BY VectorSorts DEF BatchInv
<1>2. BatchInit => Sorted!Init
  <2> SUFFICES ASSUME BatchInit PROVE to_sorted_vector = <<>>
    BY DEF Sorted!Init
  <2>1. ListInv /\ contents = {}
    BY ListInit DEF BatchInit, Init
  <2> QED
    BY <2>1, VectorSorts, SortsNothing
<1>3. BatchInv /\ Vector /\ Vector' /\ [BatchNext]_batchVars => [Sorted!Next]_to_sorted_vector
  <2> SUFFICES ASSUME BatchInv, Vector, Vector', [BatchNext]_batchVars
               PROVE  Sorted!Next \/ to_sorted_vector' = to_sorted_vector
    OBVIOUS
  <2>0. ListInv
    BY DEF BatchInv
  <2>1. PICK s, t : s = to_sorted_vector /\ t = to_sorted_vector'
    OBVIOUS
  <2>2. Sorts(s, contents) /\ Sorts(t, contents')
    BY <2>1 DEF Sorts
  <2>3. ASSUME heap' = heap PROVE to_sorted_vector' = to_sorted_vector
    BY <2>3 DEF to_sorted_vector, Chain, nullptr, head_
  <2>4. ASSUME NEW k \in Keys, NEW h \in 1..kMaxHeight, Write(k, h) PROVE Sorted!Next
    <3>1. PICK x : x = NextEntry(k)
      OBVIOUS
    <3>2. contents' = contents \cup {x}
      BY <2>4, <3>1 DEF Write, Insert, NextEntry
    <3>3. x \notin contents /\ Versions(contents \cup {x})
      BY <2>0, <3>1, NextEntryNew
    <3>4. Sorts(skiplist_insert(s, x), contents \cup {x})
      BY <2>2, <3>3, SortsInsert
    <3>5. t = skiplist_insert(s, x)
      BY <2>2, <3>2, <3>3, <3>4, SortsUnique
    <3>6. x \in ToSet(t)
      BY <2>2, <3>2 DEF Sorts
    <3>7. Sorted!skiplist_insert(s, x) = skiplist_insert(s, x)
      <4>1. \A e, f : Sorted!Less(e, f) = Less(e, f)
        BY Zenon DEF Sorted!Less, Less
      <4>2. {i \in DOMAIN s : Sorted!Less(s[i], x)} = {i \in DOMAIN s : Less(s[i], x)}
        BY <4>1, Zenon
      <4>3. \A S : Sorted!Cardinality(S) = Cardinality(S)
        BY Zenon DEF Sorted!Cardinality, Cardinality
      <4>4. PICK n : /\ n = Sorted!Cardinality({i \in DOMAIN s : Sorted!Less(s[i], x)})
                     /\ n = Cardinality({i \in DOMAIN s : Less(s[i], x)})
        BY <4>2, <4>3, Zenon
      <4> QED
        BY <4>4, Zenon DEF Sorted!skiplist_insert, skiplist_insert
    <3>8. x \in Sorted!ToSet(t)
      BY <3>6 DEF Sorted!ToSet, ToSet
    <3> QED
      BY <2>1, <3>5, <3>7, <3>8 DEF Sorted!Next, Sorted!Put
  <2>5. CASE DrainInto
    <3>1. contents' = {}
      BY <2>5 DEF DrainInto, Drain
    <3>2. t = <<>>
      BY <2>2, <3>1, SortsNothing
    <3> QED
      BY <2>1, <3>2 DEF Sorted!Next, Sorted!Empty
  <2>6. ASSUME NEW k \in Keys, ChildHas(k) PROVE heap' = heap
    BY <2>6 DEF ChildHas
  <2>7. CASE local_flush
    BY <2>3, <2>7 DEF local_flush, vars
  <2>8. CASE UNCHANGED batchVars
    BY <2>3, <2>8 DEF batchVars, vars
  <2> QED
    BY <2>3, <2>4, <2>5, <2>6, <2>7, <2>8 DEF BatchNext
<1> HIDE DEF Vector
<1> QED
  BY <1>1, <1>2, <1>3, BatchInvariant, PTL DEF BatchSpec, ImplementsSorted, Sorted!Spec

\* The parent's buffer and its entries.
LEMMA ParentFacts ==
  ASSUME BatchInv
  PROVE  /\ Versions(ToSet(parent)) /\ Sorts(parent, ToSet(parent)) /\ StableSort(parent) = parent
         /\ parent \in Seq(Written) /\ IsEntries(Written)
<1>1. Sorts(parent, ToSet(parent)) /\ ToSet(parent) \subseteq Written
  BY DEF BatchInv, FlowInv
<1>2. Versions(ToSet(parent)) /\ IsEntries(Written)
  BY <1>1, WrittenVersions, VersionsWithin DEF Versions
<1>3. parent \in Seq(Written)
  BY <1>1 DEF Sorts
<1> QED
  BY <1>1, <1>2, <1>3, SortsAgain

\* A local flush leaves the child with exactly the newest version of every key that
\* it or the parent held, in key order (flush.cpp: merge_sorted_entries).
THEOREM MergeAlwaysKeepsNewest == BatchSpec => []MergeKeepsNewest
<1>1. BatchInv => MergeKeepsNewest
  <2> SUFFICES ASSUME BatchInv, Ran
               PROVE  LET all == ToSet(parent) \cup ToSet(child)
                      IN  /\ ToSet(merged) = {e \in all : \A f \in all : f.key = e.key => f.seq <= e.seq}
                          /\ \A i, j \in DOMAIN merged : i < j => merged[i].key < merged[j].key
    BY DEF MergeKeepsNewest
  <2> DEFINE all == ToSet(parent) \cup ToSet(child)
  <2>1. parent \in Seq(Written) /\ IsEntries(Written) /\ StableSort(parent) = parent
    BY ParentFacts
  <2>2. child \in Seq(Written) /\ merged = sort_buffer(merge_sorted_entries(parent, child))
    BY <2>1 DEF BatchInv, FlowInv
  <2>3. IsDeduped(merged) /\ KeepsNewest(merged, all)
    BY <2>1, <2>2, MergeKeepsNewestEntries
  <2>4. all \subseteq Written
    BY <2>1, <2>2, ToSetFacts
  <2> HIDE DEF all
  <2>5. \A e \in ToSet(merged) : e \in all /\ \A f \in all : f.key = e.key => f.seq <= e.seq
    BY <2>3 DEF KeepsNewest
  <2>6. ASSUME NEW e \in all, \A f \in all : f.key = e.key => f.seq <= e.seq
        PROVE  e \in ToSet(merged)
    <3>1. PICK g \in ToSet(merged) : g.key = e.key
      BY <2>3 DEF KeepsNewest
    <3>2. g \in all /\ e.seq <= g.seq /\ g.seq <= e.seq
      BY <2>5, <2>6, <3>1
    <3>3. e.seq \in Nat /\ g.seq \in Nat
      BY <2>1, <2>4, <3>2 DEF IsEntries
    <3>4. e.seq = g.seq
      BY <3>2, <3>3
    <3>5. e = g
      BY <2>4, <3>1, <3>2, <3>4, WrittenVersions DEF Versions
    <3> QED
      BY <3>1, <3>5
  <2>7. ToSet(merged) = {e \in all : \A f \in all : f.key = e.key => f.seq <= e.seq}
    BY <2>5, <2>6
  <2> QED
    BY <2>3, <2>7 DEF IsDeduped, all
<1> QED
  BY <1>1, BatchInvariant, PTL

\* What is routed further to the right has the greater key.
LEMMA RightmostOrder ==
  ASSUME NEW ms, NEW n \in Nat \ {0}, ms \in [1..n -> Nat], NEW k \in Nat, NEW l \in Nat,
         Rightmost(k, ms) < Rightmost(l, ms)
  PROVE  k < l
<1> DEFINE Fits(x) == {i \in DOMAIN ms : x >= ms[i]}
<1>1. ASSUME NEW x \in Nat, Fits(x) # {}
      PROVE  /\ Rightmost(x, ms) = Max(Fits(x)) /\ Max(Fits(x)) \in Fits(x)
             /\ \A y \in Fits(x) : Max(Fits(x)) >= y
  <2> DEFINE F == Fits(x)
  <2>1. Rightmost(x, ms) = Max(F)
    BY <1>1 DEF Rightmost
  <2>2. F \subseteq Nat /\ \A y \in F : y <= n
    OBVIOUS
  <2> HIDE DEF F
  <2>3. PICK g \in F : \A y \in F : y <= g
    BY <1>1, <2>2, GreatestNatural DEF F
  <2>4. \A y \in F : g >= y
    BY <2>2, <2>3
  <2>5. Max(F) \in F /\ \A y \in F : Max(F) >= y
    BY <2>4 DEF Max
  <2> QED
    BY <2>1, <2>5 DEF F
<1>2. Rightmost(k, ms) \in 1..n /\ Rightmost(l, ms) \in 1..n
  BY RightmostExists
<1>3. Fits(l) # {}
  <2>1. Fits(l) = {} => Rightmost(l, ms) = 1
    BY DEF Rightmost
  <2> QED
    BY <1>2, <2>1
<1> DEFINE j == Rightmost(l, ms)
<1>4. j \in 1..n /\ l >= ms[j]
  BY <1>1, <1>2, <1>3
<1> SUFFICES ASSUME k >= l PROVE FALSE
  OBVIOUS
<1> HIDE DEF j
<1>5. ms[j] \in Nat
  BY <1>4
<1>6. j \in Fits(k)
  BY <1>4, <1>5
<1>7. Rightmost(k, ms) >= j
  BY <1>1, <1>6
<1> QED
  BY <1>2, <1>7 DEF j

\* f concatenates seqs from the left.
IsFlat(f, seqs) ==
  f = [i \in 1..Len(seqs) |-> IF i = 1 THEN seqs[i] ELSE f[i - 1] \o seqs[i]]

\* The buckets of a sorted buffer, one after the other, are the buffer.
LEMMA PartitionFlat ==
  ASSUME NEW S, Versions(S), NEW s, Sorts(s, S),
         NEW ms, NEW n \in Nat \ {0}, ms \in [1..n -> Nat]
  PROVE  FlattenSeq(partition_entries(s, ms)) = s
<1> DEFINE ps == partition_entries(s, ms)
           R(e) == Rightmost(e.key, ms)
           Bucket(i) == {e \in S : R(e) = i}
           Upto(i) == {e \in S : R(e) <= i}
           g == [i \in 1..n |-> CHOOSE t : Sorts(t, Upto(i))]
           flat == CHOOSE f : IsFlat(f, ps)
<1>1. /\ DOMAIN ms = 1..n /\ \A e \in S : R(e) \in 1..n /\ e.key \in Nat
  BY RightmostExists DEF Versions, IsEntries
<1>2. ps = [i \in 1..n |-> Subsequence(s, {j \in DOMAIN s : Rightmost(s[j].key, ms) = i})]
  BY <1>1, Zenon DEF partition_entries
<1>3. ASSUME NEW i \in 1..n PROVE Sorts(ps[i], Bucket(i))
  <2> DEFINE at == {j \in DOMAIN s : Rightmost(s[j].key, ms) = i}
  <2>1. ps[i] = Subsequence(s, at)
    BY <1>2
  <2>2. at \subseteq DOMAIN s
    OBVIOUS
  <2>3. S = {s[j] : j \in DOMAIN s}
    BY DEF Sorts, ToSet
  <2>4. {s[j] : j \in at} = Bucket(i)
    BY <2>3
  <2> HIDE DEF at, ps, Bucket
  <2>5. Sorts(Subsequence(s, at), {s[j] : j \in at})
    BY <2>2, SortsSubsequence
  <2> QED
    BY <2>1, <2>4, <2>5
<1>4. Len(ps) = n
  BY <1>2
<1>5. FlattenSeq(ps) = flat[n]
  <2> HIDE DEF ps
  <2>1. FlattenSeq(ps) = flat[Len(ps)]
    BY <1>4, Zenon DEF FlattenSeq, IsFlat
  <2> QED
    BY <1>4, <2>1
<1>6. IsFiniteSet(S)
  BY SortsLength
<1>7. ASSUME NEW i \in 1..n
      PROVE  /\ Versions(Upto(i)) /\ Sorts(g[i], Upto(i))
  <2>1. Upto(i) \subseteq S
    OBVIOUS
  <2> HIDE DEF Upto
  <2>2. Versions(Upto(i)) /\ IsFiniteSet(Upto(i))
    BY <1>6, <2>1, VersionsWithin, FS_Subset
  <2>3. \E t : Sorts(t, Upto(i))
    BY <2>2, SortsExists
  <2> QED
    BY <2>2, <2>3
<1>8. 1 \in 1..n /\ Upto(1) = Bucket(1)
  BY <1>1
<1>9. ASSUME NEW i \in 1..n, i # 1, NEW t, Sorts(t, Upto(i - 1))
      PROVE  i - 1 \in 1..n /\ Sorts(t \o ps[i], Upto(i))
  <2>1. i - 1 \in 1..n /\ Upto(i) = Upto(i - 1) \cup Bucket(i)
    BY <1>1, <1>9
  <2>2. \A e \in Upto(i - 1), f \in Bucket(i) : Less(e, f)
    <3> SUFFICES ASSUME NEW e \in S, NEW f \in S, R(e) <= i - 1, R(f) = i PROVE Less(e, f)
      OBVIOUS
    <3>1. R(e) < R(f)
      BY <1>1
    <3>2. e.key < f.key
      BY <1>1, <3>1, RightmostOrder
    <3> QED
      BY <3>2 DEF Less
  <2>3. Sorts(ps[i], Bucket(i))
    BY <1>3
  <2> DEFINE b == ps[i]
             V == Upto(i - 1)
             W == Bucket(i)
  <2> HIDE DEF b, V, W
  <2>4. Sorts(t, V) /\ Sorts(b, W) /\ \A e \in V, f \in W : Less(e, f)
    BY <1>9, <2>2, <2>3 DEF b, V, W
  <2>5. Sorts(t \o b, V \cup W)
    BY <2>4, SortsConcat
  <2> QED
    BY <2>1, <2>5 DEF b, V, W
<1> HIDE DEF ps, Bucket, Upto
<1>10. g = [i \in 1..n |-> g[i]]
  <2> DEFINE P(i) == CHOOSE t : Sorts(t, Upto(i))
  <2>1. g = [i \in 1..n |-> P(i)]
    BY Zenon
  <2> HIDE DEF P
  <2> QED
    BY <2>1
<1> HIDE DEF g
<1>11. \E f : IsFlat(f, ps)
  <2>1. ASSUME NEW i \in 1..n PROVE g[i] = IF i = 1 THEN ps[i] ELSE g[i - 1] \o ps[i]
    <3>1. CASE i = 1
      <4>1. Sorts(ps[1], Upto(1))
        BY <1>3, <1>8
      <4> QED
        BY <1>7, <1>8, <3>1, <4>1, SortsUnique
    <3>2. CASE i # 1
      <4>1. i - 1 \in 1..n
        BY <3>2
      <4>2. Sorts(g[i - 1], Upto(i - 1))
        BY <1>7, <4>1
      <4>3. Sorts(g[i - 1] \o ps[i], Upto(i))
        BY <1>9, <3>2, <4>2
      <4> QED
        BY <1>7, <3>2, <4>3, SortsUnique
    <3> QED
      BY <3>1, <3>2
  <2>2. g = [i \in 1..n |-> IF i = 1 THEN ps[i] ELSE g[i - 1] \o ps[i]]
    BY <1>10, <2>1
  <2>3. IsFlat(g, ps)
    BY <1>4, <2>2 DEF IsFlat
  <2> QED
    BY <2>3
<1>12. IsFlat(flat, ps)
  BY <1>11
<1> HIDE DEF flat
<1>13. \A i \in 1..n : flat[i] = IF i = 1 THEN ps[i] ELSE flat[i - 1] \o ps[i]
  BY <1>4, <1>12 DEF IsFlat
<1> DEFINE T == {d \in Nat : d + 1 <= n => Sorts(flat[d + 1], Upto(d + 1))}
<1>14. 0 \in T
  <2>1. flat[1] = ps[1] /\ Sorts(ps[1], Upto(1))
    BY <1>3, <1>8, <1>13
  <2> QED
    BY <2>1
<1>15. ASSUME NEW d \in Nat, d \in T PROVE d + 1 \in T
  <2> SUFFICES ASSUME (d + 1) + 1 <= n PROVE Sorts(flat[(d + 1) + 1], Upto((d + 1) + 1))
    OBVIOUS
  <2> DEFINE i == (d + 1) + 1
  <2>1. i \in 1..n /\ i # 1 /\ i - 1 = d + 1 /\ d + 1 <= n
    OBVIOUS
  <2> HIDE DEF i
  <2>2. Sorts(flat[i - 1], Upto(i - 1))
    BY <1>15, <2>1
  <2>3. Sorts(flat[i - 1] \o ps[i], Upto(i))
    BY <1>9, <2>1, <2>2
  <2>4. Sorts(flat[i], Upto(i))
    BY <1>13, <2>1, <2>3
  <2> QED
    BY <2>4 DEF i
<1> HIDE DEF T
<1>16. n - 1 \in T
  <2>1. Nat \subseteq T
    BY <1>14, <1>15, SetInduction
  <2> QED
    BY <2>1
<1>17. Sorts(flat[n], Upto(n))
  <2>1. n - 1 \in Nat /\ (n - 1) + 1 = n
    OBVIOUS
  <2> QED
    BY <1>16, <2>1 DEF T
<1>18. Upto(n) = S
  BY <1>1 DEF Upto
<1> QED
  BY <1>5, <1>17, <1>18, SortsUnique DEF ps

LEMMA RangesFacts ==
  ASSUME NEW m \in Ranges
  PROVE  \E n \in Nat \ {0} : /\ DOMAIN m = 1..n /\ m \in [1..n -> Nat]
                              /\ m \in Seq(Nat) /\ Ordered(m)
<1>1. PICK n \in 1..MaxKids : m \in [1..n -> Keys \cup {NoKey}]
  BY DEF Ranges
<1>2. \A i, j \in DOMAIN m : i < j => m[i] <= m[j]
  BY DEF Ranges
<1>3. n \in Nat \ {0} /\ Keys \cup {NoKey} \subseteq Nat
  BY SkipListAssumption, KidsAssumption DEF NoKey
<1>4. DOMAIN m = 1..n /\ m \in [1..n -> Nat]
  BY <1>1, <1>3
<1>5. m \in Seq(Nat)
  BY <1>3, <1>4
<1>6. Ordered(m)
  BY <1>2 DEF Ordered
<1> QED
  BY <1>3, <1>4, <1>5, <1>6

\* partition_entries loses and reorders nothing: its buckets, read from the first
\* child to the last, are the parent's buffer (flush.cpp:13).
THEOREM PartitionAlwaysKeepsAll == BatchSpec => []PartitionKeepsAll
<1>1. BatchInv => PartitionKeepsAll
  <2> SUFFICES ASSUME BatchInv, Ran PROVE FlattenSeq(parts) = parent
    BY DEF PartitionKeepsAll
  <2>1. /\ Versions(ToSet(parent)) /\ Sorts(parent, ToSet(parent))
        /\ StableSort(parent) = parent
    BY ParentFacts
  <2>2. mins \in Ranges /\ parts = partition_entries(parent, mins)
    BY <2>1 DEF BatchInv, FlowInv
  <2>3. PICK n \in Nat \ {0} : mins \in [1..n -> Nat]
    BY <2>2, RangesFacts
  <2> QED
    BY <2>1, <2>2, <2>3, PartitionFlat
<1> QED
  BY <1>1, BatchInvariant, PTL

\* Every entry goes to the child in which find_path looks for it (flush.cpp:26,
\* tree.cpp:178).
THEOREM PartitionAlwaysFollowsPath == BatchSpec => []PartitionFollowsPath
<1>1. BatchInv => PartitionFollowsPath
  <2> SUFFICES ASSUME BatchInv, Ran, NEW i \in DOMAIN parts, NEW e \in ToSet(parts[i])
               PROVE  LeftScan(e.key, mins) = i
    BY DEF PartitionFollowsPath
  <2>1. parent \in Seq(Written) /\ IsEntries(Written) /\ StableSort(parent) = parent
    BY ParentFacts
  <2>2. mins \in Ranges /\ parts = partition_entries(parent, mins)
    BY <2>1 DEF BatchInv, FlowInv
  <2>3. PICK n \in Nat \ {0} : DOMAIN mins = 1..n /\ mins \in Seq(Nat) /\ Ordered(mins)
    BY <2>2, RangesFacts
  <2>4. i \in 1..n
    BY <2>2, <2>3 DEF partition_entries
  <2>5. ToSet(parts[i]) = {f \in ToSet(parent) : Rightmost(f.key, mins) = i}
    BY <2>1, <2>2, <2>3, <2>4, PartitionComplete
  <2>6. e.key \in Nat /\ Rightmost(e.key, mins) = i
    BY <2>1, <2>5, ToSetFacts DEF IsEntries
  <2> QED
    BY <2>3, <2>6, RoutingAgrees
<1> QED
  BY <1>1, BatchInvariant, PTL
=============================================================================
