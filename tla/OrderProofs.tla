---------------------------- MODULE OrderProofs ----------------------------
(***************************************************************************)
(* The order of keys and of versions in the tree of the session that built *)
(* it, until something throws: the ranges of keys that nodes span, how     *)
(* neighbours meet, and the age of the versions of a key from the leaves   *)
(* up to the write buffer; and what follows for the shape of an idle tree, *)
(* for find_path and for get.  All of it needs single entries to be small  *)
(* (SmallEntries): a leaf that one entry fills is split into that entry's  *)
(* leaf and an empty one, whose smallest key is the empty string wherever  *)
(* the leaf stands.                                                        *)
(***************************************************************************)
EXTENDS ShapeProofs

-----------------------------------------------------------------------------
(* Order *)

\* Every entry is smaller than a whole buffer.  (A leaf is otherwise full with one
\* entry, and split_leaf makes an empty leaf of it, tree.cpp:406.)
SmallEntries == \A sz \in Sizes \cup {1} : sz < BufferThreshold

KeysIn(buf) == {e.key : e \in ToSet(buf)}

\* Two leaves of c hold versions of key k.
Cut(c, k) ==
  \E x, y \in DOMAIN c : /\ x # y /\ c[x].level = 0 /\ c[y].level = 0
                         /\ k \in KeysIn(c[x].buf) /\ k \in KeysIn(c[y].buf)

\* The range of node h spans its entries and its children, which are in c.
Spans(c, h) ==
  /\ h.min \in Keys /\ h.max \in Keys /\ h.min <= h.max
  /\ \A k \in KeysIn(h.buf) : h.min <= k /\ k <= h.max
  /\ h.kids # <<>> => h.min <= c[h.kids[1]].min /\ c[h.kids[Len(h.kids)]].max <= h.max

\* Node x of c lies before node y; their ranges meet in a key at most, and that one
\* was cut apart.
Before(c, x, y) == c[x].max <= c[y].min /\ (c[x].max = c[y].min => Cut(c, c[x].max))

\* The nodes of c that the list s names are in order.
InLine(c, s) == \A i, j \in 1..Len(s) : i < j => Before(c, s[i], s[j])

\* The root's own range is never looked at.
Sorted(c, root) ==
  /\ \A q \in DOMAIN c : IsList(c[q].kids)
  /\ \A q \in DOMAIN c \ {root} : Spans(c, c[q])
  /\ \A q \in DOMAIN c : InLine(c, c[q].kids)

OrderInv == ~Doomed => Sorted(Tree, Root)

\* The leaves of c keep their keys in d, though maybe in other nodes, two leaves never
\* becoming one: what was cut stays cut.
CutKept(c, d) == \A k : Cut(c, k) => Cut(d, k)

\* The range of m lies in that of n.
Narrow(m, n) == n.min <= m.min /\ m.max <= n.max

\* The first and the last of a list of ids.
LEMMA ListEnds ==
  ASSUME NEW s, IsList(s), s # <<>>
  PROVE  /\ Len(s) \in Nat \ {0} /\ 1 \in 1..Len(s) /\ Len(s) \in 1..Len(s)
         /\ s[1] \in ToSet(s) /\ s[Len(s)] \in ToSet(s)
<1>1. Len(s) \in Nat /\ DOMAIN s = 1..Len(s)
  BY DEF IsList
<1> QED
  BY <1>1 DEF ToSet

LEMMA SpansNumbers ==
  ASSUME NEW c, NEW h, Spans(c, h)
  PROVE  h.min \in Nat /\ h.max \in Nat /\ h.min <= h.max
BY TreeAssumption DEF Spans

LEMMA NarrowBefore ==
  ASSUME NEW c, NEW d, CutKept(c, d), NEW x, NEW y, NEW u, NEW v, Before(c, x, y),
         Narrow(d[u], c[x]), Narrow(d[v], c[y]), c[x].max \in Nat, c[y].min \in Nat,
         d[u].max \in Nat, d[v].min \in Nat
  PROVE  Before(d, u, v)
<1>1. c[x].max <= c[y].min /\ d[u].max <= c[x].max /\ c[y].min <= d[v].min
  BY DEF Before, Narrow
<1>2. d[u].max <= d[v].min
  BY <1>1
<1>3. d[u].max = d[v].min => c[x].max = c[y].min /\ d[u].max = c[x].max
  BY <1>1
<1>4. d[u].max = d[v].min => Cut(c, c[x].max)
  BY <1>3 DEF Before
<1> QED
  BY <1>2, <1>3, <1>4 DEF Before, CutKept

\* A tree stays in order when ranges shrink and still span what they must.
LEMMA OrderNarrow ==
  ASSUME NEW c, NEW d, NEW root, Sorted(c, root), CutKept(c, d), DOMAIN d = DOMAIN c,
         \A q \in DOMAIN c : /\ d[q].kids = c[q].kids
                             /\ ToSet(c[q].kids) \subseteq DOMAIN c \ {root}
                             /\ q # root => Narrow(d[q], c[q]) /\ Spans(d, d[q])
  PROVE  Sorted(d, root)
<1>1. \A q \in DOMAIN d : IsList(d[q].kids)
  BY DEF Sorted
<1>2. ASSUME NEW q \in DOMAIN d PROVE InLine(d, d[q].kids)
  <2> DEFINE s == c[q].kids
  <2>1. IsList(s) /\ InLine(c, s) /\ d[q].kids = s /\ ToSet(s) \subseteq DOMAIN c \ {root}
    BY <1>2 DEF Sorted
  <2> HIDE DEF s
  <2> SUFFICES ASSUME NEW i \in 1..Len(s), NEW j \in 1..Len(s), i < j PROVE Before(d, s[i], s[j])
    BY <2>1 DEF InLine
  <2>2. Before(c, s[i], s[j])
    BY <2>1 DEF InLine
  <2>3. s[i] \in DOMAIN c \ {root} /\ s[j] \in DOMAIN c \ {root}
    BY <2>1 DEF IsList, ToSet
  <2>4. /\ Spans(c, c[s[i]]) /\ Spans(c, c[s[j]]) /\ Spans(d, d[s[i]]) /\ Spans(d, d[s[j]])
        /\ Narrow(d[s[i]], c[s[i]]) /\ Narrow(d[s[j]], c[s[j]])
    BY <2>3 DEF Sorted
  <2>5. c[s[i]].max \in Nat /\ c[s[j]].min \in Nat /\ d[s[i]].max \in Nat /\ d[s[j]].min \in Nat
    BY <2>4, SpansNumbers
  <2> QED
    BY <2>2, <2>4, <2>5, NarrowBefore
<1> QED
  BY <1>1, <1>2 DEF Sorted

-----------------------------------------------------------------------------
(* What was cut stays cut *)

LEMMA CutSame ==
  ASSUME NEW c, NEW d,
         \A q \in DOMAIN c : c[q].level = 0 =>
           q \in DOMAIN d /\ d[q].level = 0 /\ KeysIn(c[q].buf) \subseteq KeysIn(d[q].buf)
  PROVE  CutKept(c, d)
<1> SUFFICES ASSUME NEW k, Cut(c, k) PROVE Cut(d, k)
  BY DEF CutKept
<1>1. PICK x \in DOMAIN c, y \in DOMAIN c :
        x # y /\ c[x].level = 0 /\ c[y].level = 0 /\ k \in KeysIn(c[x].buf) /\ k \in KeysIn(c[y].buf)
  BY DEF Cut
<1> QED
  BY <1>1 DEF Cut

LEMMA CutFlushed ==
  ASSUME NEW c, NEW d, NEW p, NEW n, NEW old, NEW new, NEW hit, Flushes(c, d, p, n, old, new, hit),
         c[p].level # 0, IsInjective(old),
         \A i \in 1..n : KeysIn(c[old[i]].buf) \subseteq KeysIn(d[new[i]].buf)
  PROVE  CutKept(c, d)
<1> SUFFICES ASSUME NEW k, Cut(c, k) PROVE Cut(d, k)
  BY DEF CutKept
<1>1. PICK x \in DOMAIN c, y \in DOMAIN c :
        x # y /\ c[x].level = 0 /\ c[y].level = 0 /\ k \in KeysIn(c[x].buf) /\ k \in KeysIn(c[y].buf)
  BY DEF Cut
<1>2. /\ DOMAIN old = 1..n /\ DOMAIN new = 1..n /\ IsInjective(new)
      /\ ToSet(old) = {old[i] : i \in 1..n}
      /\ \A i \in 1..n : /\ new[i] \in DOMAIN d /\ (new[i] = old[i] \/ new[i] \notin DOMAIN c)
                         /\ SameLinks(d[new[i]], c[old[i]])
      /\ \A q \in DOMAIN c : q # p /\ q \notin ToSet(old) => q \in DOMAIN d /\ d[q] = c[q]
  BY ZenonT(30) DEF Flushes
\* Where the leaf q is in d.
<1> DEFINE Heir(q, h) ==
      /\ h \in DOMAIN d /\ d[h].level = 0 /\ k \in KeysIn(d[h].buf)
      /\ \/ q \notin ToSet(old) /\ h = q
         \/ \E i \in 1..n : old[i] = q /\ h = new[i]
<1>3. ASSUME NEW q \in DOMAIN c, c[q].level = 0, k \in KeysIn(c[q].buf) PROVE \E h : Heir(q, h)
  <2>1. CASE q \in ToSet(old)
    <3>1. PICK i \in 1..n : old[i] = q
      BY <1>2, <2>1
    <3>2. new[i] \in DOMAIN d /\ d[new[i]].level = 0 /\ k \in KeysIn(d[new[i]].buf)
      BY <1>2, <1>3, <3>1 DEF SameLinks
    <3> QED
      BY <3>1, <3>2
  <2>2. CASE q \notin ToSet(old)
    <3>1. q # p
      BY <1>3
    <3> QED
      BY <1>2, <1>3, <2>2, <3>1
  <2> QED
    BY <2>1, <2>2
<1>4. PICK u : Heir(x, u)
  BY <1>1, <1>3
<1>5. PICK v : Heir(y, v)
  BY <1>1, <1>3
<1>6. u # v
  <2>1. CASE x \notin ToSet(old) /\ y \notin ToSet(old)
    BY <1>1, <1>2, <1>4, <1>5, <2>1
  <2>2. CASE x \notin ToSet(old) /\ y \in ToSet(old)
    BY <1>1, <1>2, <1>4, <1>5, <2>2
  <2>3. CASE x \in ToSet(old) /\ y \notin ToSet(old)
    BY <1>1, <1>2, <1>4, <1>5, <2>3
  <2>4. CASE x \in ToSet(old) /\ y \in ToSet(old)
    <3>1. PICK i \in 1..n : old[i] = x /\ u = new[i]
      BY <1>4, <2>4
    <3>2. PICK j \in 1..n : old[j] = y /\ v = new[j]
      BY <1>5, <2>4
    <3> QED
      BY <1>1, <1>2, <3>1, <3>2 DEF IsInjective
  <2> QED
    BY <2>1, <2>2, <2>3, <2>4
<1> QED
  BY <1>4, <1>5, <1>6 DEF Cut

-----------------------------------------------------------------------------
(* Flushes keep the order *)

\* A key goes to the last child whose least key is not above it.
LEMMA RightmostBounds ==
  ASSUME NEW k \in Nat, NEW n \in Nat \ {0}, NEW mins, DOMAIN mins = 1..n,
         \A i \in 1..n : mins[i] \in Nat, NEW i, i = Rightmost(k, mins)
  PROVE  /\ i \in 1..n /\ (i # 1 => mins[i] <= k)
         /\ \A j \in 1..n : i < j => k < mins[j]
<1> DEFINE fits == {j \in DOMAIN mins : k >= mins[j]}
<1>1. CASE fits = {}
  <2>1. i = 1
    BY <1>1 DEF Rightmost
  <2> QED
    BY <1>1, <2>1
<1>2. CASE fits # {}
  <2>1. fits \subseteq Nat /\ \A y \in fits : y <= n
    OBVIOUS
  <2>2. \E x \in fits : \A y \in fits : x >= y
    <3> HIDE DEF fits
    <3>1. \E x \in fits : \A y \in fits : y <= x
      BY <1>2, <2>1, GreatestNatural
    <3> QED
      BY <2>1, <3>1
  <2>3. Max(fits) \in fits /\ \A y \in fits : Max(fits) >= y
    BY <2>2 DEF Max
  <2>4. i = Max(fits)
    BY <1>2 DEF Rightmost
  <2>5. i \in 1..n /\ mins[i] <= k
    BY <2>3, <2>4
  <2>6. ASSUME NEW j \in 1..n, i < j PROVE k < mins[j]
    <3>1. ~(i >= j)
      BY <2>5, <2>6
    <3> HIDE DEF fits
    <3>2. j \notin fits
      BY <2>3, <2>4, <3>1
    <3> QED
      BY <3>2 DEF fits
  <2> QED
    BY <2>5, <2>6
<1> QED
  BY <1>1, <1>2

\* A child b that took the place of a and received entries with keys R.
Receives(c, a, b, R) ==
  /\ a.min <= b.min \/ b.min \in R
  /\ b.max <= a.max \/ b.max \in R
  /\ Spans(c, b)

\* The keys in a buffer that go to the child number i of those with the ranges mins.
RoutedTo(i, buf, mins) == {k \in KeysIn(buf) : Rightmost(k, mins) = i}

\* A flush of p in the tree c in order: its children receive what is routed to them.
Hands(c, d, p, n, old, new, mins) ==
  /\ DOMAIN mins = 1..n /\ \A i \in 1..n : mins[i] = c[old[i]].min
  /\ KeysIn(c[p].buf) \subseteq Keys
  /\ \A i \in 1..n : Receives(c, c[old[i]], d[new[i]], RoutedTo(i, c[p].buf, mins))

LEMMA HandedRange ==
  ASSUME NEW c, NEW d, NEW root, Sorted(c, root), Shape(c, root), CutKept(c, d),
         NEW p, NEW n, NEW old, NEW new, NEW hit, Flushes(c, d, p, n, old, new, hit),
         NEW mins, Hands(c, d, p, n, old, new, mins)
  PROVE  /\ \A i \in 1..n : /\ old[i] \in DOMAIN c \ {root} /\ Spans(c, c[old[i]]) /\ Spans(c, d[new[i]])
                            /\ i # 1 => c[old[i]].min <= d[new[i]].min
         /\ InLine(d, new)
         /\ p # root => Narrow(d[p], c[p])
         /\ Spans(d, d[p])
<1>1. /\ p \in DOMAIN c /\ n \in Nat \ {0} /\ old = c[p].kids /\ Len(new) = n
      /\ DOMAIN old = 1..n /\ DOMAIN new = 1..n
      /\ ToSet(old) = {old[i] : i \in 1..n}
      /\ d[p].kids = new /\ d[p].buf = <<>>
      /\ d[p].min = d[new[1]].min /\ d[p].max = d[new[n]].max
  BY DEF Flushes
<1>2. /\ DOMAIN mins = 1..n /\ \A i \in 1..n : mins[i] = c[old[i]].min
      /\ KeysIn(c[p].buf) \subseteq Keys
      /\ \A i \in 1..n : Receives(c, c[old[i]], d[new[i]], RoutedTo(i, c[p].buf, mins))
  BY DEF Hands
<1>3. \A i \in 1..n : old[i] \in DOMAIN c \ {root}
  BY <1>1 DEF Shape
<1>4. \A i \in 1..n : Spans(c, c[old[i]]) /\ Spans(c, d[new[i]])
  BY <1>2, <1>3 DEF Sorted, Receives
<1>5. \A i \in 1..n : /\ c[old[i]].min \in Nat /\ c[old[i]].max \in Nat /\ c[old[i]].min <= c[old[i]].max
                      /\ d[new[i]].min \in Nat /\ d[new[i]].max \in Nat /\ d[new[i]].min <= d[new[i]].max
  BY <1>4, SpansNumbers
<1>6. ASSUME NEW i \in 1..n, NEW k \in RoutedTo(i, c[p].buf, mins)
      PROVE  /\ k \in Keys /\ k \in Nat /\ k \in KeysIn(c[p].buf) /\ (i # 1 => mins[i] <= k)
             /\ \A j \in 1..n : i < j => k < mins[j]
  <2>1. k \in Keys /\ k \in Nat /\ k \in KeysIn(c[p].buf) /\ i = Rightmost(k, mins)
    BY <1>2, TreeAssumption DEF RoutedTo
  <2>2. \A j \in 1..n : mins[j] \in Nat
    BY <1>2, <1>5
  <2> QED
    BY <1>1, <1>2, <2>1, <2>2, RightmostBounds
<1>7. ASSUME NEW i \in 1..n PROVE i # 1 => c[old[i]].min <= d[new[i]].min
  <2>1. c[old[i]].min <= d[new[i]].min \/ d[new[i]].min \in RoutedTo(i, c[p].buf, mins)
    BY <1>2 DEF Receives
  <2> QED
    BY <1>2, <1>6, <2>1
<1>8. ASSUME NEW i \in 1..n, NEW j \in 1..n, i < j PROVE Before(d, new[i], new[j])
  <2>1. Before(c, old[i], old[j])
    <3>1. InLine(c, old) /\ IsList(old)
      BY <1>1 DEF Sorted
    <3>2. 1..Len(old) = 1..n
      BY <1>1, <3>1 DEF IsList
    <3> QED
      BY <3>1, <3>2, <1>8 DEF InLine
  <2>2. c[old[j]].min <= d[new[j]].min
    BY <1>7, <1>8
  <2>3. CASE d[new[i]].max <= c[old[i]].max
    <3>1. c[old[i]].max <= c[old[j]].min
      BY <2>1 DEF Before
    <3>2. d[new[i]].max <= d[new[j]].min
      BY <1>5, <2>2, <2>3, <3>1
    <3>3. d[new[i]].max = d[new[j]].min => c[old[i]].max = c[old[j]].min /\ d[new[i]].max = c[old[i]].max
      BY <1>5, <2>2, <2>3, <3>1
    <3>4. d[new[i]].max = d[new[j]].min => Cut(c, c[old[i]].max)
      BY <2>1, <3>3 DEF Before
    <3> QED
      BY <3>2, <3>3, <3>4 DEF Before, CutKept
  <2>4. CASE d[new[i]].max \in RoutedTo(i, c[p].buf, mins)
    <3>1. d[new[i]].max < mins[j]
      BY <1>6, <1>8, <2>4
    <3>2. d[new[i]].max < d[new[j]].min
      BY <1>2, <1>5, <2>2, <3>1
    <3> QED
      BY <1>5, <3>2 DEF Before
  <2> QED
    BY <1>2, <2>3, <2>4 DEF Receives
<1>9. InLine(d, new)
  BY <1>1, <1>8 DEF InLine
<1>10. ASSUME p # root PROVE Narrow(d[p], c[p])
  <2>1. Spans(c, c[p]) /\ IsList(old) /\ old # <<>>
    BY <1>1, <1>10 DEF Sorted
  <2>2. /\ c[p].min <= c[old[1]].min /\ c[old[n]].max <= c[p].max /\ 1 \in 1..n /\ n \in 1..n
        /\ \A k \in KeysIn(c[p].buf) : c[p].min <= k /\ k <= c[p].max
    <3>1. Len(old) = n
      BY <1>1, <2>1 DEF IsList
    <3> QED
      BY <1>1, <2>1, <3>1 DEF Spans
  <2>3. c[p].min \in Nat /\ c[p].max \in Nat
    BY <2>1, SpansNumbers
  <2>4. c[p].min <= d[new[1]].min
    <3>1. c[old[1]].min <= d[new[1]].min \/ d[new[1]].min \in RoutedTo(1, c[p].buf, mins)
      BY <1>2, <2>2 DEF Receives
    <3> QED
      BY <1>5, <1>6, <2>2, <2>3, <3>1
  <2>5. d[new[n]].max <= c[p].max
    <3>1. d[new[n]].max <= c[old[n]].max \/ d[new[n]].max \in RoutedTo(n, c[p].buf, mins)
      BY <1>2, <2>2 DEF Receives
    <3> QED
      BY <1>5, <1>6, <2>2, <2>3, <3>1
  <2> QED
    BY <1>1, <2>4, <2>5 DEF Narrow
<1>11. Spans(d, d[p])
  <2>1. 1 \in 1..n /\ n \in 1..n
    BY <1>1
  <2>2. d[p].min \in Keys /\ d[p].max \in Keys
    BY <1>1, <1>4, <2>1 DEF Spans
  <2>3. d[p].min <= d[p].max
    <3>1. CASE n = 1
      BY <1>1, <1>5, <2>1, <3>1
    <3>2. CASE n # 1
      <4>1. d[new[1]].max <= d[new[n]].min
        BY <1>1, <1>8, <2>1, <3>2 DEF Before
      <4> QED
        BY <1>1, <1>5, <2>1, <4>1
    <3> QED
      BY <3>1, <3>2
  <2>4. KeysIn(d[p].buf) = {}
    BY <1>1 DEF KeysIn, ToSet
  <2>5. d[p].min <= d[new[1]].min /\ d[new[n]].max <= d[p].max
    BY <1>1, <1>5, <2>1
  <2> QED
    BY <1>1, <2>2, <2>3, <2>4, <2>5 DEF Spans
<1> QED
  BY <1>3, <1>4, <1>7, <1>9, <1>10, <1>11

\* Node k of c is in d with the same range or a smaller one.
RangeKept(c, d, k) ==
  Spans(c, c[k]) /\ Narrow(d[k], c[k]) /\ d[k].min \in Nat /\ d[k].max \in Nat

LEMMA RangeSame ==
  ASSUME NEW c, NEW d, NEW k, Spans(c, c[k]), d[k] = c[k]
  PROVE  RangeKept(c, d, k)
BY SpansNumbers DEF RangeKept, Narrow

LEMMA SpansKept ==
  ASSUME NEW c, NEW d, NEW h, Spans(c, h), IsList(h.kids),
         \A k \in ToSet(h.kids) : RangeKept(c, d, k)
  PROVE  Spans(d, h)
<1>1. CASE h.kids = <<>>
  BY <1>1 DEF Spans
<1>2. CASE h.kids # <<>>
  <2> DEFINE x == h.kids[1]
             y == h.kids[Len(h.kids)]
  <2>1. x \in ToSet(h.kids) /\ y \in ToSet(h.kids)
    BY <1>2, ListEnds
  <2> HIDE DEF x, y
  <2>2. /\ Narrow(d[x], c[x]) /\ Narrow(d[y], c[y]) /\ d[x].min \in Nat /\ d[y].max \in Nat
        /\ Spans(c, c[x]) /\ Spans(c, c[y])
    BY <2>1 DEF RangeKept
  <2>3. /\ c[x].min \in Nat /\ c[y].max \in Nat /\ h.min \in Nat /\ h.max \in Nat
    BY <2>2, SpansNumbers
  <2>4. h.min <= c[x].min /\ c[y].max <= h.max
    BY <1>2 DEF Spans, x, y
  <2>5. h.min <= d[x].min /\ d[y].max <= h.max
    BY <2>2, <2>3, <2>4 DEF Narrow
  <2> QED
    BY <2>5 DEF Spans, x, y
<1> QED
  BY <1>1, <1>2

LEMMA InLineKept ==
  ASSUME NEW c, NEW d, NEW s, IsList(s), InLine(c, s), CutKept(c, d),
         \A k \in ToSet(s) : RangeKept(c, d, k)
  PROVE  InLine(d, s)
<1> SUFFICES ASSUME NEW i \in 1..Len(s), NEW j \in 1..Len(s), i < j PROVE Before(d, s[i], s[j])
  BY DEF InLine
<1>1. Before(c, s[i], s[j])
  BY DEF InLine
<1>2. RangeKept(c, d, s[i]) /\ RangeKept(c, d, s[j])
  BY DEF IsList, ToSet
<1>3. c[s[i]].max \in Nat /\ c[s[j]].min \in Nat /\ d[s[i]].max \in Nat /\ d[s[j]].min \in Nat
  BY <1>2, SpansNumbers DEF RangeKept
<1> QED
  BY <1>1, <1>2, <1>3, NarrowBefore DEF RangeKept

LEMMA OrderFlush ==
  ASSUME NEW c, NEW d, NEW root, Sorted(c, root), Shape(c, root), CutKept(c, d),
         NEW p, NEW n, NEW old, NEW new, NEW hit, Flushes(c, d, p, n, old, new, hit),
         NEW mins, Hands(c, d, p, n, old, new, mins)
  PROVE  Sorted(d, root)
<1>1. /\ p \in DOMAIN c /\ n \in Nat \ {0} /\ old = c[p].kids
      /\ DOMAIN old = 1..n /\ DOMAIN new = 1..n /\ Len(new) = n
      /\ ToSet(old) = {old[i] : i \in 1..n} /\ ToSet(new) = {new[i] : i \in 1..n}
      /\ \A i \in 1..n : old[i] \in DOMAIN c /\ old[i] # p /\ d[new[i]].kids = c[old[i]].kids
      /\ d[p].kids = new
      /\ \A q \in DOMAIN c : q # p /\ q \notin ToSet(old) => q \in DOMAIN d /\ d[q] = c[q]
      /\ \A q \in DOMAIN d : q = p \/ q \in ToSet(new) \/ (q \in DOMAIN c \ (ToSet(old) \cup {p}) /\ d[q] = c[q])
  BY DEF Flushes, SameLinks
<1>2. /\ \A i \in 1..n : old[i] \in DOMAIN c \ {root} /\ Spans(c, d[new[i]])
      /\ InLine(d, new) /\ (p # root => Narrow(d[p], c[p])) /\ Spans(d, d[p])
  BY HandedRange
<1>3. \A q \in DOMAIN c \ {root} : Spans(c, c[q])
  BY DEF Sorted
\* A child of another node than p is p or as it was.
<1>4. ASSUME NEW q \in DOMAIN c \ {p}, NEW k \in ToSet(c[q].kids)
      PROVE  RangeKept(c, d, k)
  <2>1. k \in DOMAIN c \ {root} /\ k \notin ToSet(old)
    BY <1>1 DEF Shape
  <2>2. Spans(c, c[k])
    BY <1>3, <2>1
  <2>3. CASE k = p
    BY <1>2, <2>1, <2>2, <2>3, SpansNumbers DEF RangeKept
  <2>4. CASE k # p
    BY <1>1, <2>1, <2>2, <2>4, RangeSame
  <2> QED
    BY <2>3, <2>4
<1>5. \A q \in DOMAIN c : IsList(c[q].kids) /\ InLine(c, c[q].kids)
  BY DEF Sorted
<1>6. \A q \in DOMAIN c \ {p} : InLine(d, c[q].kids)
  BY <1>4, <1>5, InLineKept
<1>7. ASSUME NEW q \in DOMAIN d
      PROVE  IsList(d[q].kids) /\ InLine(d, d[q].kids) /\ (q # root => Spans(d, d[q]))
  <2>1. CASE q = p
    BY <1>1, <1>2, <2>1 DEF IsList
  <2>2. CASE q \in ToSet(new)
    <3>1. PICK i \in 1..n : q = new[i]
      BY <1>1, <2>2
    <3>2. old[i] \in DOMAIN c \ {p} /\ d[q].kids = c[old[i]].kids /\ Spans(c, d[q])
      BY <1>1, <1>2, <3>1
    <3>3. IsList(d[q].kids) /\ InLine(d, d[q].kids) /\ \A k \in ToSet(d[q].kids) : RangeKept(c, d, k)
      BY <1>4, <1>5, <1>6, <3>2
    <3> QED
      BY <3>2, <3>3, SpansKept
  <2>3. CASE q \in DOMAIN c \ (ToSet(old) \cup {p}) /\ d[q] = c[q]
    <3>1. IsList(d[q].kids) /\ InLine(d, d[q].kids) /\ \A k \in ToSet(d[q].kids) : RangeKept(c, d, k)
      BY <1>4, <1>5, <1>6, <2>3
    <3>2. q # root => Spans(c, d[q])
      BY <1>3, <2>3
    <3> QED
      BY <3>1, <3>2, SpansKept
  <2> QED
    BY <1>1, <2>1, <2>2, <2>3
<1> QED
  BY <1>7 DEF Sorted

-----------------------------------------------------------------------------
(* Splits keep the order *)

\* The node gone of the tree c falls into a and b, which are l and r in the tree d.
CutInOrder(c, d, root, gone, l, r, a, b) ==
  /\ IsList(a.kids) /\ IsList(b.kids) /\ InLine(c, a.kids) /\ InLine(c, b.kids)
  /\ ToSet(a.kids) \cup ToSet(b.kids) \subseteq ToSet(c[gone].kids)
  /\ Spans(c, a) /\ Spans(c, b) /\ Before(d, l, r)
  /\ gone # root => Narrow(a, c[gone]) /\ Narrow(b, c[gone])

LEMMA SplitInLine ==
  ASSUME NEW c, NEW d, CutKept(c, d), NEW s, IsList(s), InLine(c, s), NEW i \in 1..Len(s),
         NEW l, NEW r, NEW w, SplitAt(w, s, i, l, r), Before(d, l, r),
         \A j \in 1..Len(s) : j # i => RangeKept(c, d, s[j]),
         Spans(c, c[s[i]]),
         \A k \in {l, r} : Narrow(d[k], c[s[i]]) /\ d[k].min \in Nat /\ d[k].max \in Nat
  PROVE  InLine(d, w)
<1> DEFINE Was(u) == IF u <= i THEN u ELSE u - 1
<1>1. /\ Len(s) \in Nat /\ i \in Nat /\ i <= Len(s) /\ Len(w) = Len(s) + 1
      /\ w[i] = l /\ w[i + 1] = r
      /\ \A j \in 1..i - 1 : w[j] = s[j]
      /\ \A j \in i + 1..Len(s) : w[j + 1] = s[j]
  BY DEF SplitAt, IsList
<1>2. ASSUME NEW u \in 1..Len(w)
      PROVE  /\ Was(u) \in 1..Len(s) /\ Narrow(d[w[u]], c[s[Was(u)]])
             /\ d[w[u]].min \in Nat /\ d[w[u]].max \in Nat /\ Spans(c, c[s[Was(u)]])
  <2>1. CASE u < i
    <3>1. u \in 1..i - 1 /\ u \in 1..Len(s) /\ u # i /\ Was(u) = u
      BY <1>1, <2>1
    <3>2. w[u] = s[u] /\ RangeKept(c, d, s[u])
      BY <1>1, <3>1
    <3> QED
      BY <3>1, <3>2 DEF RangeKept
  <2>2. CASE u = i
    <3>1. Was(u) = i
      BY <2>2
    <3> QED
      BY <1>1, <2>2, <3>1
  <2>3. CASE u = i + 1
    <3>1. Was(u) = i
      BY <1>1, <2>3
    <3> QED
      BY <1>1, <2>3, <3>1
  <2>4. CASE u > i + 1
    <3>1. u - 1 \in i + 1..Len(s) /\ u - 1 \in 1..Len(s) /\ u - 1 # i /\ Was(u) = u - 1 /\ (u - 1) + 1 = u
      BY <1>1, <2>4
    <3>2. w[u] = s[u - 1] /\ RangeKept(c, d, s[u - 1])
      BY <1>1, <3>1
    <3> QED
      BY <3>1, <3>2 DEF RangeKept
  <2> QED
    BY <1>1, <2>1, <2>2, <2>3, <2>4
<1> SUFFICES ASSUME NEW u \in 1..Len(w), NEW v \in 1..Len(w), u < v PROVE Before(d, w[u], w[v])
  BY DEF InLine
<1>3. CASE u = i /\ v = i + 1
  BY <1>1, <1>3
<1>4. CASE ~(u = i /\ v = i + 1)
  <2>1. Was(u) < Was(v) /\ Was(u) \in 1..Len(s) /\ Was(v) \in 1..Len(s)
    BY <1>1, <1>4
  <2> DEFINE x == Was(u)
             y == Was(v)
  <2>2. /\ Narrow(d[w[u]], c[s[x]]) /\ Narrow(d[w[v]], c[s[y]])
        /\ d[w[u]].max \in Nat /\ d[w[v]].min \in Nat
        /\ Spans(c, c[s[x]]) /\ Spans(c, c[s[y]])
    BY <1>2
  <2> HIDE DEF Was
  <2>3. Before(c, s[x], s[y])
    BY <2>1 DEF InLine
  <2>4. c[s[x]].max \in Nat /\ c[s[y]].min \in Nat
    BY <2>2, SpansNumbers
  <2> QED
    BY <2>2, <2>3, <2>4, NarrowBefore
<1> QED
  BY <1>3, <1>4

LEMMA OrderSplit ==
  ASSUME NEW c, NEW d, NEW root, Sorted(c, root), Shape(c, root), CutKept(c, d),
         NEW gone, gone # root, NEW p, NEW l, NEW r, NEW a, NEW b,
         Splits(c, d, gone, p, l, r, a, b), CutInOrder(c, d, root, gone, l, r, a, b)
  PROVE  Sorted(d, root)
<1>1. /\ p \in DOMAIN c /\ gone \in DOMAIN c /\ gone # p
      /\ DOMAIN d = (DOMAIN c \ {gone}) \cup {l, r} /\ d[l] = a /\ d[r] = b
      /\ d[p].buf = c[p].buf /\ d[p].min = c[p].min /\ d[p].max = c[p].max
      /\ IsList(c[p].kids) /\ IsList(d[p].kids)
      /\ \A q \in DOMAIN c \ {gone, p} : d[q] = c[q]
  BY DEF Splits
<1>2. PICK i \in 1..Len(c[p].kids) : c[p].kids[i] = gone /\ SplitAt(d[p].kids, c[p].kids, i, l, r)
  BY DEF Splits
<1>3. gone \in ToSet(c[p].kids)
  BY <1>1, <1>2 DEF IsList, ToSet
<1>4. /\ IsList(a.kids) /\ IsList(b.kids) /\ InLine(c, a.kids) /\ InLine(c, b.kids)
      /\ ToSet(a.kids) \cup ToSet(b.kids) \subseteq ToSet(c[gone].kids)
      /\ Spans(c, a) /\ Spans(c, b) /\ Before(d, l, r)
      /\ Narrow(a, c[gone]) /\ Narrow(b, c[gone])
  BY DEF CutInOrder
<1>5. \A q \in DOMAIN c \ {root} : Spans(c, c[q])
  BY DEF Sorted
<1>6. \A q \in DOMAIN c : IsList(c[q].kids) /\ InLine(c, c[q].kids)
  BY DEF Sorted
<1>7. ASSUME NEW k \in DOMAIN c \ {root, gone} PROVE RangeKept(c, d, k)
  <2>1. Spans(c, c[k]) /\ d[k].min = c[k].min /\ d[k].max = c[k].max
    BY <1>1, <1>5, <1>7
  <2> QED
    BY <2>1, SpansNumbers DEF RangeKept, Narrow
<1>8. ASSUME NEW q \in DOMAIN c, NEW k \in ToSet(c[q].kids), q # p \/ k # gone
      PROVE  RangeKept(c, d, k)
  <2>1. k \in DOMAIN c \ {root} /\ k # gone
    BY <1>1, <1>3, <1>8, ZenonT(30) DEF Shape
  <2> QED
    BY <1>7, <2>1
<1>9. \A q \in DOMAIN c : q # p => InLine(d, c[q].kids)
  BY <1>6, <1>8, InLineKept
<1>10. IsInjective(c[p].kids)
  BY <1>1 DEF Shape
<1>11. InLine(d, d[p].kids)
  <2> DEFINE s == c[p].kids
             w == d[p].kids
  <2>1. IsList(s) /\ InLine(c, s) /\ SplitAt(w, s, i, l, r) /\ s[i] = gone
    BY <1>1, <1>2, <1>6
  <2>2. \A j \in 1..Len(s) : j # i => RangeKept(c, d, s[j])
    <3> SUFFICES ASSUME NEW j \in 1..Len(s), j # i PROVE RangeKept(c, d, s[j])
      OBVIOUS
    <3>1. s[j] \in ToSet(s) /\ s[j] # gone
      BY <1>2, <1>10, <2>1 DEF IsList, ToSet, IsInjective
    <3> QED
      BY <1>1, <1>8, <3>1
  <2>3. Spans(c, c[s[i]])
    BY <1>1, <1>5, <2>1
  <2>4. \A k \in {l, r} : Narrow(d[k], c[s[i]]) /\ d[k].min \in Nat /\ d[k].max \in Nat
    BY <1>1, <1>4, <2>1, SpansNumbers
  <2> HIDE DEF s, w
  <2>5. i \in 1..Len(s)
    BY DEF s
  <2>6. InLine(d, w)
    BY <1>4, <2>1, <2>2, <2>3, <2>4, <2>5, SplitInLine
  <2> QED
    BY <2>6 DEF w
<1>12. p # root => Spans(d, d[p])
  <2> SUFFICES ASSUME p # root PROVE Spans(d, d[p])
    OBVIOUS
  <2> DEFINE s == c[p].kids
             w == d[p].kids
             n == Len(s)
  <2>1. Spans(c, c[p]) /\ n \in Nat /\ s # <<>> /\ i \in 1..n /\ s[i] = gone
    <3>1. s # <<>>
      BY <1>3 DEF ToSet
    <3> QED
      BY <1>1, <1>2, <1>5, <3>1 DEF IsList
  <2>2. /\ Len(w) = n + 1 /\ w[i] = l /\ w[i + 1] = r
        /\ \A j \in 1..i - 1 : w[j] = s[j]
        /\ \A j \in i + 1..n : w[j + 1] = s[j]
    BY <1>2 DEF SplitAt
  <2>3. c[p].min <= c[s[1]].min /\ c[s[n]].max <= c[p].max
    BY <2>1 DEF Spans
  <2>4. \A j \in 1..n : s[j] \in DOMAIN c \ {root} /\ (j # i => s[j] # gone)
    <3> SUFFICES ASSUME NEW j \in 1..n PROVE s[j] \in DOMAIN c \ {root} /\ (j # i => s[j] # gone)
      OBVIOUS
    <3>1. s[j] \in ToSet(s) /\ DOMAIN s = 1..n
      BY <1>1 DEF IsList, ToSet
    <3>2. s[j] \in DOMAIN c \ {root}
      BY <1>1, <3>1 DEF Shape
    <3>3. j # i => s[j] # s[i]
      BY <1>10, <2>1, <3>1 DEF IsInjective
    <3> QED
      BY <2>1, <3>2, <3>3
  <2>11. d[l] = a /\ d[r] = b
    BY <1>1
  <2> HIDE DEF s, n, w
  <2>5. /\ c[p].min \in Nat /\ c[p].max \in Nat /\ a.min \in Nat /\ b.max \in Nat
        /\ \A j \in 1..n : c[s[j]].min \in Nat /\ c[s[j]].max \in Nat
    BY <1>4, <1>5, <2>1, <2>4, SpansNumbers
  <2>6. 1 \in 1..n /\ n \in 1..n
    BY <2>1
  <2>7. c[p].min <= d[w[1]].min
    <3>1. CASE i = 1
      <4>1. w[1] = l /\ c[s[1]].min <= a.min
        BY <1>4, <2>1, <2>2, <3>1 DEF Narrow
      <4> QED
        BY <2>3, <2>5, <2>6, <2>11, <4>1
    <3>2. CASE i # 1
      <4>1. 1 \in 1..i - 1
        BY <2>1, <3>2
      <4>2. w[1] = s[1] /\ RangeKept(c, d, s[1])
        BY <1>7, <2>2, <2>4, <2>6, <3>2, <4>1
      <4> QED
        BY <2>3, <2>5, <2>6, <4>2 DEF RangeKept, Narrow
    <3> QED
      BY <3>1, <3>2
  <2>8. d[w[n + 1]].max <= c[p].max
    <3>1. CASE i = n
      <4>1. w[n + 1] = r /\ b.max <= c[s[n]].max
        BY <1>4, <2>1, <2>2, <3>1 DEF Narrow
      <4> QED
        BY <2>3, <2>5, <2>6, <2>11, <4>1
    <3>2. CASE i # n
      <4>1. n \in i + 1..n
        BY <2>1, <3>2
      <4>2. w[n + 1] = s[n] /\ RangeKept(c, d, s[n])
        BY <1>7, <2>2, <2>4, <2>6, <3>2, <4>1
      <4> QED
        BY <2>3, <2>5, <2>6, <4>2 DEF RangeKept, Narrow
    <3> QED
      BY <3>1, <3>2
  <2> QED
    BY <1>1, <2>1, <2>2, <2>7, <2>8 DEF Spans, w
<1>13. ASSUME NEW q \in DOMAIN d
       PROVE  IsList(d[q].kids) /\ InLine(d, d[q].kids) /\ (q # root => Spans(d, d[q]))
  <2>1. CASE q = p
    BY <1>1, <1>11, <1>12, <2>1
  <2>2. CASE q \in {l, r}
    <3>1. d[q] \in {a, b}
      BY <1>1, <2>2
    <3>2. IsList(d[q].kids) /\ InLine(c, d[q].kids) /\ Spans(c, d[q]) /\ ToSet(d[q].kids) \subseteq ToSet(c[gone].kids)
      BY <1>4, <3>1
    <3>3. \A k \in ToSet(d[q].kids) : RangeKept(c, d, k)
      BY <1>1, <1>8, <3>2
    <3> QED
      BY <3>2, <3>3, SpansKept, InLineKept
  <2>3. CASE q \in DOMAIN c \ {gone, p}
    <3>1. d[q] = c[q] /\ IsList(c[q].kids) /\ \A k \in ToSet(c[q].kids) : RangeKept(c, d, k)
      BY <1>1, <1>6, <1>8, <2>3
    <3> QED
      BY <1>5, <1>9, <2>3, <3>1, SpansKept
  <2> QED
    BY <1>1, <2>1, <2>2, <2>3
<1> QED
  BY <1>13 DEF Sorted

LEMMA OrderSplitRoot ==
  ASSUME NEW c, NEW d, NEW root, Sorted(c, root), Shape(c, root), CutKept(c, d),
         NEW t, NEW l, NEW r, NEW a, NEW b,
         SplitsRoot(c, d, root, t, l, r, a, b), CutInOrder(c, d, root, root, l, r, a, b)
  PROVE  Sorted(d, t)
<1>1. /\ root \in DOMAIN c /\ l # r /\ t \notin DOMAIN c
      /\ DOMAIN d = (DOMAIN c \ {root}) \cup {l, r, t} /\ d[l] = a /\ d[r] = b
      /\ d[t].kids = <<l, r>> /\ \A q \in DOMAIN c \ {root} : d[q] = c[q]
  BY DEF SplitsRoot
<1>4. /\ IsList(a.kids) /\ IsList(b.kids) /\ InLine(c, a.kids) /\ InLine(c, b.kids)
      /\ ToSet(a.kids) \cup ToSet(b.kids) \subseteq ToSet(c[root].kids)
      /\ Spans(c, a) /\ Spans(c, b) /\ Before(d, l, r)
  BY DEF CutInOrder
<1>5. \A q \in DOMAIN c \ {root} : Spans(c, c[q])
  BY DEF Sorted
<1>6. \A q \in DOMAIN c : IsList(c[q].kids) /\ InLine(c, c[q].kids)
  BY DEF Sorted
<1>7. ASSUME NEW q \in DOMAIN c, NEW k \in ToSet(c[q].kids) PROVE RangeKept(c, d, k)
  <2>1. k \in DOMAIN c \ {root}
    BY DEF Shape
  <2> QED
    BY <1>1, <1>5, <2>1, RangeSame
<1>8. ASSUME NEW q \in DOMAIN d
      PROVE  IsList(d[q].kids) /\ InLine(d, d[q].kids) /\ (q # t => Spans(d, d[q]))
  <2>1. CASE q = t
    <3> DEFINE w == <<l, r>>
    <3>1. Len(w) = 2 /\ DOMAIN w = 1..2 /\ w[1] = l /\ w[2] = r
      OBVIOUS
    <3> HIDE DEF w
    <3>2. \A i, j \in 1..2 : i < j => i = 1 /\ j = 2
      OBVIOUS
    <3>3. InLine(d, w)
      BY <1>4, <3>1, <3>2 DEF InLine
    <3>4. IsList(w)
      BY <3>1 DEF IsList
    <3> QED
      BY <1>1, <2>1, <3>3, <3>4 DEF w
  <2>2. CASE q \in {l, r}
    <3>1. d[q] \in {a, b}
      BY <1>1, <2>2
    <3>2. IsList(d[q].kids) /\ InLine(c, d[q].kids) /\ Spans(c, d[q]) /\ ToSet(d[q].kids) \subseteq ToSet(c[root].kids)
      BY <1>4, <3>1
    <3>3. \A k \in ToSet(d[q].kids) : RangeKept(c, d, k)
      BY <1>1, <1>7, <3>2
    <3> QED
      BY <3>2, <3>3, SpansKept, InLineKept
  <2>3. CASE q \in DOMAIN c \ {root}
    <3>1. /\ d[q] = c[q] /\ IsList(c[q].kids) /\ InLine(c, c[q].kids)
          /\ \A k \in ToSet(c[q].kids) : RangeKept(c, d, k)
      BY <1>1, <1>6, <1>7, <2>3
    <3> QED
      BY <1>5, <2>3, <3>1, SpansKept, InLineKept
  <2> QED
    BY <1>1, <2>1, <2>2, <2>3
<1> QED
  BY <1>8 DEF Sorted

-----------------------------------------------------------------------------
(* Steps that keep the order because they hardly touch the tree *)

\* A step that touches neither tree nor calls.
LEMMA QuietOrder ==
  ASSUME OrderInv, UNCHANGED <<cache_, todo>>, Root' = Root
  PROVE  OrderInv'
<1>1. Splitting' = Splitting /\ Doomed' = Doomed /\ Tree' = Tree
  BY DEF Splitting, Doomed, Tree, Do
<1> QED
  BY <1>1 DEF OrderInv

\* A drain merges the batch into the root, and what it calls is no insert_child.
Drains ==
  /\ todo = <<>> /\ ~Splitting' /\ Root \in DOMAIN cache_ /\ UNCHANGED manifest_
  /\ cache_' = [cache_ EXCEPT ![Root].buf = Merged]

LEMMA DrainIs ==
  ASSUME CacheInv, TreeInv, todo = <<>>, NEW calls, NEW last, Drain(calls, last),
         UNCHANGED manifest_, IsSeq(calls), last.op # "insert_child",
         \A x \in ToSet(calls) : x.op # "insert_child"
  PROVE  Drains
<1>1. ~Splitting /\ ~Doomed /\ Tree = cache_
  BY TreeIs DEF Splitting, Doomed, Do
<1>2. Root \in DOMAIN cache_
  BY <1>1 DEF TreeInv, Shape
<1>3. Readable(Root) /\ Cached({Root}) = cache_
  BY <1>2, ReadableCached
<1>4. cache_' = [cache_ EXCEPT ![Root].buf = Merged] /\ todo' = calls \o <<last>>
  BY <1>3 DEF Drain
<1> DEFINE b == <<last>>
<1>5. b \in Seq(ToSet(calls) \cup {last}) /\ calls \in Seq(ToSet(calls) \cup {last}) /\ ToSet(b) = {last}
  BY DEF IsSeq, ToSet
<1>6. Head(b) = last /\ b # <<>> /\ IsSeq(b)
  BY <1>5 DEF IsSeq
<1> HIDE DEF b
<1>7. calls \o b = todo'
  BY <1>4 DEF b
<1>8. ~Splitting'
  <2>1. ToSet(todo') = ToSet(calls) \cup {last} /\ todo' \in Seq(ToSet(calls) \cup {last})
    <3>1. /\ ToSet(calls \o b) = ToSet(calls) \cup ToSet(b)
          /\ calls \o b \in Seq(ToSet(calls) \cup {last})
      BY ONLY <1>5, ToSetConcat
    <3> QED
      BY ONLY <1>5, <1>7, <3>1
  <2>2. SUFFICES ASSUME Splitting' PROVE FALSE
    OBVIOUS
  <2>3. todo' # <<>> /\ Head(todo').op = "insert_child"
    BY <2>2 DEF Splitting, Do
  <2>4. IsSeq(todo')
    BY <2>1 DEF IsSeq
  <2>5. Head(todo') \in ToSet(calls) \cup {last}
    BY <2>1, <2>3, <2>4, FirstIn
  <2> QED
    BY <2>3, <2>5
<1> QED
  BY <1>2, <1>4, <1>8 DEF Drains

\* What the clients' steps do to the tree.
LEMMA ClientIs ==
  ASSUME LiveInv, TreeInv, Client
  PROVE  UNCHANGED <<cache_, todo, manifest_>> \/ Drains
<1>1. ASSUME NEW k \in Keys, Get(k) PROVE UNCHANGED <<cache_, todo, manifest_>>
  <2>1. cache_' = cache_
    BY <1>1, ReadableCached DEF Get, LiveInv
  <2> QED
    BY <1>1, <2>1 DEF Get
<1>2. ASSUME NEW k \in Keys, remove(k) \/ \E sz \in Sizes : insert(k, sz)
      PROVE  UNCHANGED <<cache_, todo, manifest_>>
  BY <1>2 DEF remove, insert, Write, memory, disk
<1>3. CASE RequestFlush
  BY <1>3 DEF RequestFlush, memory, disk
<1>4. CASE BackgroundFlush
  <2> DEFINE n == Node(Root)
             over == OnOverflow(Root, n, <<Root>>)
             calls == IF buffer_full(Merged) THEN over ELSE <<>>
             last == [op |-> "done"]
             f == [op |-> "do_flush", id |-> Root]
             l == [op |-> "split_leaf", id |-> Root, path |-> <<Root>>]
  <2>1. Drain(calls, last) /\ todo = <<>> /\ UNCHANGED <<manifest_, files>>
    BY <1>4 DEF BackgroundFlush, disk
  <2>2. calls = <<>> \/ calls = <<f>> \/ calls = <<l>>
    BY DEF OnOverflow
  <2> HIDE DEF calls, n
  <2>4. IsSeq(calls)
    BY <2>2, CallsOne, CallsNone DEF Calls
  <2>5. ToSet(<<f>>) = {f} /\ ToSet(<<l>>) = {l} /\ ToSet(<<>>) = {}
    BY DEF ToSet
  <2>6. f.op = "do_flush" /\ l.op = "split_leaf" /\ last.op = "done"
    OBVIOUS
  <2> HIDE DEF f, l, last
  <2>7. \A x \in ToSet(calls) : x.op # "insert_child"
    BY <2>2, <2>5, <2>6
  <2>8. last.op # "insert_child"
    BY <2>6
  <2>9. UNCHANGED manifest_ /\ CacheInv
    BY <2>1 DEF LiveInv
  <2> QED
    BY ONLY TreeInv, <2>1, <2>4, <2>7, <2>8, <2>9, DrainIs
<1>5. ASSUME NEW end \in {"return", "closed"}, PersistRoot(end) PROVE Drains
  <2> DEFINE last == [op |-> end, covers |-> [k \in Keys |-> latest[k].val]]
             p == Persist(Root)
             s == Save
  <2>1. Drain(RootWrites, last) /\ todo = <<>> /\ UNCHANGED <<manifest_, files>>
    BY <1>5 DEF PersistRoot, disk
  <2>2. RootWrites = <<>> \/ RootWrites = <<p, s>>
    BY DEF RootWrites
  <2>3. last.op = end /\ p.op = "persist" /\ s.op = "save"
    BY DEF Persist, Save
  <2> HIDE DEF last, p, s
  <2>4. IsSeq(<<p, s>>) /\ ToSet(<<p, s>>) = {p, s}
    <3>1. ToSet(<<p, s>>) = {p, s}
      BY DEF ToSet
    <3> QED
      BY <3>1, PairFacts
  <2>5. IsSeq(<<>>) /\ ToSet(<<>>) = {}
    BY CallsNone DEF Calls, ToSet
  <2>6. IsSeq(RootWrites) /\ (\A x \in ToSet(RootWrites) : x.op # "insert_child")
    BY <2>2, <2>3, <2>4, <2>5
  <2>7. UNCHANGED manifest_ /\ CacheInv /\ last.op # "insert_child"
    BY <1>5, <2>1, <2>3 DEF LiveInv
  <2> QED
    BY ONLY TreeInv, <2>1, <2>6, <2>7, DrainIs
<1> QED
  BY <1>1, <1>2, <1>3, <1>4, <1>5 DEF Client, Flush, Close

\* A tree stays in order when one node's range shrinks and it loses no key.
LEMMA OrderOne ==
  ASSUME NEW c, NEW d, NEW root, NEW p \in DOMAIN c, Sorted(c, root), Shape(c, root),
         DOMAIN d = DOMAIN c, \A q \in DOMAIN c \ {p} : d[q] = c[q], SameLinks(d[p], c[p]),
         KeysIn(c[p].buf) \subseteq KeysIn(d[p].buf),
         p # root => Narrow(d[p], c[p]) /\ Spans(c, d[p])
  PROVE  Sorted(d, root)
<1>1. CutKept(c, d)
  <2>1. \A q \in DOMAIN c : c[q].level = 0 =>
           q \in DOMAIN d /\ d[q].level = 0 /\ KeysIn(c[q].buf) \subseteq KeysIn(d[q].buf)
    BY DEF SameLinks
  <2> QED
    BY <2>1, CutSame
<1>2. \A q \in DOMAIN c : d[q].kids = c[q].kids /\ ToSet(c[q].kids) \subseteq DOMAIN c \ {root}
                          /\ IsList(c[q].kids)
  BY DEF SameLinks, Shape, Sorted
<1>3. \A q \in DOMAIN c \ {root} : Spans(c, c[q]) /\ Spans(c, d[q])
  BY DEF Sorted
<1>4. ASSUME NEW q \in DOMAIN c \ {root} PROVE Narrow(d[q], c[q])
  <2>1. c[q].min \in Nat /\ c[q].max \in Nat
    BY <1>3, SpansNumbers
  <2> QED
    BY <2>1 DEF Narrow
<1>5. ASSUME NEW q \in DOMAIN c \ {root} PROVE RangeKept(c, d, q)
  <2>1. d[q].min \in Nat /\ d[q].max \in Nat
    BY <1>3, SpansNumbers
  <2> QED
    BY <1>3, <1>4, <2>1 DEF RangeKept
<1>6. ASSUME NEW q \in DOMAIN c \ {root} PROVE Spans(d, d[q])
  <2>1. \A k \in ToSet(d[q].kids) : RangeKept(c, d, k)
    BY <1>2, <1>5
  <2>2. Spans(c, d[q]) /\ IsList(d[q].kids)
    BY <1>2, <1>3
  <2> QED
    BY ONLY <2>1, <2>2, SpansKept
<1> QED
  BY <1>1, <1>2, <1>4, <1>6, OrderNarrow

-----------------------------------------------------------------------------
(* Keys of buffers *)

LEMMA KeysSort ==
  ASSUME NEW E, IsEntries(E), NEW s \in Seq(E)
  PROVE  KeysIn(sort_buffer(s)) = KeysIn(s) /\ KeysIn(StableSort(s)) = KeysIn(s)
<1>1. KeepsNewest(sort_buffer(s), ToSet(s)) /\ ToSet(StableSort(s)) = ToSet(s)
  BY SortBufferKeepsNewest, SortFacts
<1> QED
  BY <1>1 DEF KeysIn, KeepsNewest

LEMMA CleanBuf ==
  ASSUME NEW E, IsEntries(E), NEW s \in Seq(E), NEW t, t = sort_buffer(s)
  PROVE  InOrder(t) /\ ToSet(t) \subseteq ToSet(s) /\ KeysIn(t) = KeysIn(s)
<1>1. t \in Seq(E) /\ IsDeduped(t) /\ KeepsNewest(t, ToSet(s))
  BY SortBufferKeepsNewest
<1>2. InOrder(t)
  BY <1>1, DedupedSorted
<1>3. KeysIn(t) = KeysIn(s)
  BY KeysSort
<1> QED
  BY <1>1, <1>2, <1>3 DEF KeepsNewest

LEMMA KeysConcat ==
  ASSUME NEW E, NEW s \in Seq(E), NEW t \in Seq(E)
  PROVE  KeysIn(s \o t) = KeysIn(s) \cup KeysIn(t)
BY ToSetConcat DEF KeysIn

LEMMA KeysMerge ==
  ASSUME NEW E, IsEntries(E), NEW s \in Seq(E), NEW t \in Seq(E)
  PROVE  KeysIn(sort_buffer(merge_sorted_entries(s, t))) = KeysIn(s) \cup KeysIn(t)
<1> DEFINE u == sort_buffer(merge_sorted_entries(s, t))
<1>1. KeepsNewest(u, ToSet(s) \cup ToSet(t))
  BY MergeKeepsNewestEntries
<1> HIDE DEF u
<1> QED
  BY <1>1 DEF KeysIn, KeepsNewest, u

\* The keys of a sorted buffer lie between its first and its last.
LEMMA EndsBound ==
  ASSUME NEW E, IsEntries(E), NEW s \in Seq(E), s # <<>>, InOrder(s)
  PROVE  /\ Head(s) = s[1] /\ Last(s) = s[Len(s)] /\ Head(s) \in ToSet(s) /\ Last(s) \in ToSet(s)
         /\ \A k \in KeysIn(s) : Head(s).key <= k /\ k <= Last(s).key
<1>1. Len(s) \in Nat \ {0} /\ Head(s) = s[1] /\ Last(s) = s[Len(s)]
      /\ Head(s) \in ToSet(s) /\ Last(s) \in ToSet(s)
  BY EndsIn
<1>2. \A i \in 1..Len(s) : s[1].key <= s[i].key /\ s[i].key <= s[Len(s)].key
  <2> SUFFICES ASSUME NEW i \in 1..Len(s) PROVE s[1].key <= s[i].key /\ s[i].key <= s[Len(s)].key
    OBVIOUS
  <2>1. 1 \in DOMAIN s /\ i \in DOMAIN s /\ Len(s) \in DOMAIN s /\ 1 <= i /\ i <= Len(s)
    BY <1>1
  <2>2. s[1].key <= s[i].key
    BY <2>1, SortedOrder
  <2>3. s[i].key <= s[Len(s)].key
    BY <2>1, SortedOrder
  <2> QED
    BY <2>2, <2>3
<1>3. ToSet(s) = {s[i] : i \in 1..Len(s)}
  BY ToSetFacts
<1>4. \A k \in KeysIn(s) : \E i \in 1..Len(s) : k = s[i].key
  BY <1>3 DEF KeysIn
<1> QED
  BY <1>1, <1>2, <1>4

-----------------------------------------------------------------------------
(* The steps *)

\* flush_to_disk leaves alone a range that spans the buffer.
LEMMA FlushToDiskSpans ==
  ASSUME NEW K, NEW G, IsEntries(G), NEW n, NodeIn(n, K, G), NEW c, Spans(c, n),
         NEW h, h = flush_to_disk(n)
  PROVE  Spans(c, h) /\ h.min = n.min /\ h.max = n.max /\ SameLinks(h, n) /\ KeysIn(h.buf) = KeysIn(n.buf)
<1> DEFINE b == sort_buffer(n.buf)
<1>1. n.buf \in Seq(G)
  BY DEF NodeIn
<1>2. b \in Seq(G) /\ IsDeduped(b) /\ KeysIn(b) = KeysIn(n.buf)
  BY <1>1, SortBufferKeepsNewest, KeysSort
<1>3. /\ h.buf = b /\ SameLinks(h, n)
      /\ h.min = IF b # <<>> /\ (n.min = NoKey \/ Head(b).key < n.min) THEN Head(b).key ELSE n.min
      /\ h.max = IF b # <<>> /\ (n.max = NoKey \/ Last(b).key > n.max) THEN Last(b).key ELSE n.max
  BY FlushToDiskIs
<1> HIDE DEF b
<1>4. n.min \in Nat \ {0} /\ n.max \in Nat \ {0}
  BY TreeAssumption DEF Spans
<1>5. b # <<>> => /\ Head(b).key \in KeysIn(n.buf) /\ Last(b).key \in KeysIn(n.buf)
                  /\ Head(b).key \in Nat /\ Last(b).key \in Nat
  <2> SUFFICES ASSUME b # <<>> PROVE /\ Head(b).key \in KeysIn(n.buf) /\ Last(b).key \in KeysIn(n.buf)
                                     /\ Head(b).key \in Nat /\ Last(b).key \in Nat
    OBVIOUS
  <2>1. Head(b) \in ToSet(b) /\ Last(b) \in ToSet(b) /\ ToSet(b) \subseteq G
    BY <1>2, EndsIn, ToSetFacts
  <2> QED
    BY <1>2, <2>1 DEF KeysIn, IsEntries
<1>6. b # <<>> => n.min <= Head(b).key /\ Last(b).key <= n.max
  BY <1>5 DEF Spans
<1>7. h.min = n.min /\ h.max = n.max
  BY <1>3, <1>4, <1>5, <1>6 DEF NoKey
<1>8. Spans(c, h)
  BY <1>2, <1>3, <1>7 DEF Spans, SameLinks
<1> QED
  BY <1>2, <1>3, <1>7, <1>8

LEMMA ClientOrder ==
  ASSUME LiveInv, TreeInv, OrderInv, Client
  PROVE  OrderInv'
<1>1. CASE UNCHANGED <<cache_, todo, manifest_>>
  BY <1>1, QuietOrder DEF Root
<1>2. CASE Drains
  <2> DEFINE r == Root
             c == cache_
             d == cache_'
             n == Merged
  <2>1. /\ ~Splitting /\ ~Doomed /\ Tree = cache_ /\ Tree' = cache_' /\ r \in DOMAIN c /\ Root' = Root
        /\ d = [c EXCEPT ![r].buf = n]
    BY <1>2, TreeIs DEF Drains, Splitting, Doomed, Do, Root
  <2>2. Sorted(c, r) /\ Shape(c, r)
    BY <2>1 DEF OrderInv, TreeInv
  <2>3. NodeIn(c[r], Known, Genuine) /\ c[r].buf \in Seq(Genuine) /\ write_buf \in Seq(Genuine)
        /\ Node(r) = c[r]
    BY <2>1 DEF LiveInv, CacheInv, WritesInv, NodeIn, Node
  <2>4. KeysIn(c[r].buf) \subseteq KeysIn(n)
    <3> DEFINE b == c[r].buf
               w == write_buf
    <3>1. n = StableSort(b \o w) /\ b \in Seq(Genuine) /\ w \in Seq(Genuine)
      BY <2>3 DEF Merged
    <3> HIDE DEF b, w, n, c
    <3>2. b \o w \in Seq(Genuine) /\ KeysIn(b \o w) = KeysIn(b) \cup KeysIn(w)
      BY <3>1, ToSetConcat, KeysConcat
    <3>3. KeysIn(n) = KeysIn(b \o w)
      BY <3>1, <3>2, KeysSort, GenuineEntries
    <3>4. KeysIn(b) \subseteq KeysIn(n)
      BY <3>2, <3>3
    <3> QED
      BY <3>4 DEF b
  <2> HIDE DEF c, d, r, n
  <2>5. /\ DOMAIN d = DOMAIN c /\ \A q \in DOMAIN c \ {r} : d[q] = c[q]
        /\ d[r] = [c[r] EXCEPT !.buf = n]
    BY <2>1
  <2>6. SameLinks(d[r], c[r]) /\ d[r].buf = n
    BY <2>3, <2>5 DEF NodeIn, SameLinks
  <2>7. Sorted(d, r)
    BY <2>1, <2>2, <2>4, <2>5, <2>6, OrderOne
  <2> QED
    BY <2>1, <2>7 DEF OrderInv, d, r
<1> QED
  BY <1>1, <1>2, ClientIs

\* Work under cache_mu_ that leaves tree and buffers alone.
LEMMA QuietWorkOrder ==
  ASSUME QueueInv, FilesInv, LiveInv, TreeInv, OrderInv,
         Done \/ Return \/ Opened \/ SaveManifest \/ CollectGarbage \/ CheckChild
  PROVE  OrderInv'
<1>0. Root' = Root
  BY ForgetFacts DEF Done, Return, Opened, SaveManifest, CollectGarbage, CheckChild, Root, memory, FilesInv
<1>1. CASE UNCHANGED <<cache_, todo>>
  BY <1>0, <1>1, QuietOrder
<1>2. ASSUME UNCHANGED cache_, NEW ops, IsSeq(ops), Call(ops), \A x \in ToSet(ops) : x.op # "insert_child",
             todo # <<>>, ~Splitting
      PROVE  OrderInv'
  <2>1. ops # <<>> => Head(ops).op # "insert_child"
    BY <1>2, FirstIn
  <2>2. ~Splitting' /\ ~Doomed
    BY <1>2, <2>1, NextCall DEF Splitting, Do, LiveInv, Doomed
  <2>3. Tree = cache_ /\ Tree' = cache_
    BY <1>2, <2>2, TreeIs
  <2> QED
    BY <1>0, <2>2, <2>3 DEF OrderInv
<1>3. CASE UNCHANGED cache_ /\ Call(<<>>)
  <2>1. todo # <<>> /\ ~Splitting
    BY DEF Done, Return, Opened, SaveManifest, CollectGarbage, CheckChild, Do, Splitting
  <2>2. IsSeq(<<>>) /\ ToSet(<<>>) = {}
    BY CallsNone DEF Calls, ToSet
  <2> QED
    BY <1>2, <1>3, <2>1, <2>2
<1>4. CASE CheckChild
  <2>1. todo # <<>> /\ ~Splitting /\ ~Doomed /\ UNCHANGED cache_
    BY <1>4 DEF CheckChild, Do, Splitting, Doomed, memory
  <2>2. StackOK
    BY <2>1 DEF TreeInv
  <2>3. PICK ops : IsSeq(ops) /\ Call(ops) /\ \A x \in ToSet(ops) : x.op # "insert_child"
    BY <1>4, <2>2, CheckCalls
  <2> QED
    BY <1>2, <2>1, <2>3
<1> QED
  BY <1>1, <1>3, <1>4 DEF Done, Return, Opened, SaveManifest, CollectGarbage, memory, disk

\* The rewrite of a node in place.
LEMMA PersistOrder ==
  ASSUME QueueInv, FilesInv, LiveInv, TreeInv, OrderInv, PersistNode
  PROVE  OrderInv'
<1> DEFINE id == Head(todo).id
           c == cache_
           d == cache_'
           r == Root
           n == flush_to_disk(c[id])
<1>1. /\ todo # <<>> /\ ~Splitting /\ ~Doomed /\ id \in DOMAIN c
      /\ d = [c EXCEPT ![id] = n] /\ Call(<<>>) /\ Root' = Root
  BY RegisterFacts DEF PersistNode, Do, Splitting, Doomed, LiveInv, CallsInv, CallReady, Root, FilesInv
<1>2. IsSeq(<<>>) /\ ToSet(<<>>) = {}
  BY CallsNone DEF Calls, ToSet
<1>3. ~Splitting'
  BY <1>1, <1>2, NextCall DEF Splitting, Do, LiveInv, TreeInv
<1>4. Tree = c /\ Tree' = d
  BY <1>1, <1>3, TreeIs
<1>5. NodeIn(c[id], Known, Genuine) /\ c[id].buf \in Seq(Genuine)
  BY <1>1 DEF LiveInv, CacheInv, NodeIn
<1>6. Sorted(c, r) /\ Shape(c, r)
  BY <1>1, <1>4 DEF OrderInv, TreeInv
<1> HIDE DEF id, c, d, r
<1>7. SameLinks(n, c[id]) /\ KeysIn(c[id].buf) \subseteq KeysIn(n.buf)
  <2>1. n.buf = sort_buffer(c[id].buf) /\ SameLinks(n, c[id])
    BY <1>5, FlushToDiskIs
  <2>2. KeysIn(sort_buffer(c[id].buf)) = KeysIn(c[id].buf)
    BY ONLY <1>5, KeysSort, GenuineEntries
  <2> QED
    BY <2>1, <2>2
<1>8. ASSUME id # r PROVE Narrow(n, c[id]) /\ Spans(c, n)
  <2>1. Spans(c, c[id])
    BY <1>1, <1>6, <1>8 DEF Sorted
  <2>2. Spans(c, n) /\ n.min = c[id].min /\ n.max = c[id].max
    BY <1>5, <2>1, FlushToDiskSpans, GenuineEntries
  <2>3. c[id].min \in Nat /\ c[id].max \in Nat
    BY <2>1, SpansNumbers
  <2> QED
    BY <2>2, <2>3 DEF Narrow
<1> HIDE DEF n
<1>9. DOMAIN d = DOMAIN c /\ (\A q \in DOMAIN c \ {id} : d[q] = c[q]) /\ d[id] = n
  BY <1>1
<1>10. Sorted(d, r)
  BY <1>1, <1>6, <1>7, <1>8, <1>9, OrderOne
<1> QED
  BY <1>1, <1>4, <1>10 DEF OrderInv, r

\* A node without entries whose range is that of its children, which are in order.
LEMMA SpanSpans ==
  ASSUME NEW c, NEW h, IsList(h.kids), h.kids # <<>>, InLine(c, h.kids),
         \A k \in ToSet(h.kids) : Spans(c, c[k]),
         h.buf = <<>>, h.min = c[h.kids[1]].min, h.max = c[h.kids[Len(h.kids)]].max
  PROVE  Spans(c, h)
<1> DEFINE s == h.kids
           n == Len(s)
<1>1. n \in Nat \ {0} /\ 1 \in 1..n /\ n \in 1..n /\ s[1] \in ToSet(s) /\ s[n] \in ToSet(s)
  BY ListEnds
<1> HIDE DEF s, n
<1>2. Spans(c, c[s[1]]) /\ Spans(c, c[s[n]])
  BY <1>1 DEF s
<1>3. h.min = c[s[1]].min /\ h.max = c[s[n]].max /\ h.min \in Keys /\ h.max \in Keys
  BY <1>2 DEF Spans, s, n
<1>4. c[s[1]].min \in Nat /\ c[s[1]].max \in Nat /\ c[s[n]].min \in Nat /\ c[s[n]].max \in Nat
      /\ c[s[1]].min <= c[s[1]].max /\ c[s[n]].min <= c[s[n]].max
  BY <1>2, SpansNumbers
<1>5. 1 < n => c[s[1]].max <= c[s[n]].min
  BY <1>1 DEF InLine, Before, s, n
<1>6. h.min <= h.max
  BY <1>1, <1>3, <1>4, <1>5
<1>7. KeysIn(h.buf) = {}
  BY DEF KeysIn, ToSet
<1>8. h.min <= c[h.kids[1]].min /\ c[h.kids[Len(h.kids)]].max <= h.max
  BY <1>3, <1>4 DEF s, n
<1> QED
  BY <1>3, <1>6, <1>7, <1>8 DEF Spans

LEMMA SpanningIs ==
  ASSUME NEW K, NEW G, NEW m, NodeIn(m, K, G), NEW a, NEW b, NEW h, h = Spanning(m, a, b)
  PROVE  SameLinks(h, m) /\ h.buf = m.buf /\ h.min = a.min /\ h.max = b.max
BY SpanningLinks, SpanningFacts

\* insert_child into a parent with a free slot.
LEMMA InsertChildOrder ==
  ASSUME QueueInv, FilesInv, LiveInv, TreeInv, EmptyInv, OrderInv, InsertChild
  PROVE  OrderInv'
<1> DEFINE op == Head(todo)
           p == op.id
           c == Tree
           d == Tree'
           r == Root
           w == c[p].kids
           n == Spanning(c[p], Node(Head(w)), Node(Last(w)))
           ops == <<Persist(p)>>
<1>1. /\ todo # <<>> /\ Splitting /\ ~Doomed /\ p \in DOMAIN cache_
      /\ cache_' = [cache_ EXCEPT ![p] = n] /\ Call(ops) /\ UNCHANGED manifest_
  BY InsertChildEffect
<1>2. StackOK /\ Shape(c, r) /\ Sorted(c, r)
  BY <1>1 DEF TreeInv, OrderInv
<1>3. /\ DOMAIN c = DOMAIN cache_ /\ \A q \in DOMAIN cache_ : q # p => c[q] = cache_[q]
      /\ NodeIn(c[p], Known, Genuine)
  BY <1>1, <1>2, TreeSplitting DEF LiveInv
<1>4. PICK X : Drained(c, X) /\ From(op, c, X)
  BY <1>1, FirstFrom
<1>5. c[p].buf = <<>>
  BY <1>1, <1>4 DEF From, Drained, Splitting, Do
<1>6. IsSeq(ops) /\ Head(ops) = Persist(p) /\ ops # <<>>
  BY CallsOne DEF Calls, Persist
<1>7. ~Splitting'
  BY <1>1, <1>6, NextCall DEF Splitting, Do, LiveInv, Persist
<1>8. d = cache_' /\ Root' = r
  BY <1>1, <1>7, TreeIs DEF Root
<1>9. w # <<>> /\ w \in Seq(Known) /\ ToSet(w) \subseteq DOMAIN c \ {r, p}
  <2>1. w \in Seq(Known)
    BY <1>3 DEF NodeIn
  <2>2. HeadOK(op, r, cache_, c) /\ op.op = "insert_child"
    BY <1>1, <1>2 DEF StackOK, Splitting, Do
  <2>3. op.old \in ToSet(cache_[p].kids)
    BY <2>2 DEF HeadOK
  <2>4. w # <<>> /\ ToSet(w) \subseteq DOMAIN c \ {r}
    <3>1. c[p].level # 0
      <4>1. cache_[p].kids \in Seq(Known) /\ w = WithSplit(cache_[p].kids, op.old, op.left, op.right)
            /\ op.left \in Known /\ op.right \in Known
        BY <1>1, <1>2, TreeSplitting DEF LiveInv
      <4>2. \E i \in 1..Len(cache_[p].kids) : SplitAt(w, cache_[p].kids, i, op.left, op.right)
        BY ONLY <4>1, <2>3, WithSplitIs
      <4>3. Len(w) = Len(cache_[p].kids) + 1 /\ Len(cache_[p].kids) \in Nat
        <5> DEFINE kids == cache_[p].kids
                   left == op.left
                   right == op.right
        <5>1. kids \in Seq(Known) /\ \E i \in 1..Len(kids) : SplitAt(w, kids, i, left, right)
          BY <4>1, <4>2
        <5> HIDE DEF kids, left, right, w
        <5>2. Len(w) = Len(kids) + 1
          BY ONLY <5>1 DEF SplitAt
        <5>3. Len(kids) \in Nat
          BY ONLY <5>1
        <5> QED
          BY <5>2, <5>3 DEF kids
      <4>4. w # <<>>
        <5>1. Len(<<>>) = 0
          OBVIOUS
        <5> QED
          BY ONLY <4>3, <5>1
      <4> QED
        BY <1>1, <1>2, <1>3, <4>4 DEF Shape
    <3> QED
      BY <1>1, <1>2, <1>3, <3>1 DEF Shape
  <2>5. p \notin ToSet(w)
    <3>1. c[p].level \in Nat /\ (p \in ToSet(w) => c[p].level = c[p].level + 1)
      BY <1>1, <1>2, <1>3 DEF Shape
    <3> QED
      BY <3>1
  <2> QED
    BY <2>1, <2>4, <2>5
<1>10. /\ Head(w) = w[1] /\ Last(w) = w[Len(w)] /\ Head(w) \in ToSet(w) /\ Last(w) \in ToSet(w)
  BY <1>9, EndsIn
<1>11. Node(Head(w)) = c[w[1]] /\ Node(Last(w)) = c[w[Len(w)]]
  BY <1>3, <1>9, <1>10, ReadableCached DEF LiveInv
<1>12. SameLinks(n, c[p]) /\ n.buf = c[p].buf /\ n.min = c[w[1]].min /\ n.max = c[w[Len(w)]].max
  <2>1. NodeIn(c[p], Known, Genuine) /\ n = Spanning(c[p], Node(Head(w)), Node(Last(w)))
    BY <1>3
  <2> HIDE DEF n, c, w, p
  <2> QED
    BY <1>11, <2>1, SpanningIs
<1> HIDE DEF n, op, p, c, d, r, ops
<1>13. n.kids = w /\ n.buf = <<>>
  BY <1>5, <1>12 DEF SameLinks
<1>14. DOMAIN d = DOMAIN c /\ (\A q \in DOMAIN c \ {p} : d[q] = c[q]) /\ d[p] = n /\ p \in DOMAIN c
  BY <1>1, <1>3, <1>8
<1>15. ASSUME p # r PROVE Narrow(n, c[p]) /\ Spans(c, n)
  <2>1. Spans(c, c[p]) /\ IsList(w) /\ InLine(c, w)
    BY <1>2, <1>14, <1>15 DEF Sorted
  <2>2. \A k \in ToSet(w) : Spans(c, c[k])
    BY <1>2, <1>9 DEF Sorted
  <2>3. Spans(c, n)
    BY <1>9, <1>12, <1>13, <2>1, <2>2, SpanSpans
  <2>4. Narrow(n, c[p])
    BY <1>9, <1>12, <2>1 DEF Narrow, Spans
  <2> QED
    BY <2>3, <2>4
<1>16. Sorted(d, r)
  BY <1>2, <1>5, <1>12, <1>13, <1>14, <1>15, OrderOne
<1> QED
  BY <1>8, <1>16 DEF OrderInv, d, r

\* An empty leaf is in order.
LEMMA FirstOrder ==
  ASSUME TreeInv', EnsureRoot
  PROVE  OrderInv'
<1> DEFINE e == << >>
           root == create(0, e, e)
           o == [op |-> "opened"]
<1>1. todo' = <<Save, o>> /\ \E m : cache_' = [id \in {m} |-> root]
  BY DEF EnsureRoot
<1>2. Head(todo') = Save /\ Save.op = "save"
  BY <1>1, PairFacts DEF Save
<1>3. ~Splitting' /\ ~Doomed'
  BY <1>2 DEF Splitting, Do, Doomed
<1>4. Tree' = cache_' /\ Shape(Tree', Root')
  BY <1>3, TreeIs DEF TreeInv
<1>5. DOMAIN Tree' = {Root'} /\ Tree'[Root'] = root
  BY <1>1, <1>4 DEF Shape
<1>6. root.kids = <<>>
  <2> DEFINE G == Genuine
             z == 0
  <2>1. e \in Seq(G) /\ IsEntries(G) /\ Len(e) <= MAX_FANOUT
    BY GenuineEntries, TreeAssumption
  <2> HIDE DEF e, G, z
  <2>3. create(z, e, e).kids = e
    BY <2>1, CreateExact
  <2> QED
    BY <2>3 DEF e, z
<1> HIDE DEF root
<1>7. IsList(<<>>) /\ InLine(Tree', <<>>)
  BY DEF IsList, InLine
<1> QED
  BY <1>5, <1>6, <1>7 DEF OrderInv, Sorted

-----------------------------------------------------------------------------
(* split_leaf keeps the order *)

\* A node that falls into two leaves the keys of a leaf in leaves of its own.
LEMMA CutSplit ==
  ASSUME NEW c, NEW d, NEW gone, NEW l, NEW r, l # r, l \in DOMAIN d \ DOMAIN c, r \in DOMAIN d \ DOMAIN c,
         c[gone].level = 0 => /\ d[l].level = 0 /\ d[r].level = 0
                              /\ KeysIn(c[gone].buf) \subseteq KeysIn(d[l].buf) \cup KeysIn(d[r].buf),
         \A q \in DOMAIN c \ {gone} : q \in DOMAIN d /\ d[q].level = c[q].level /\ d[q].buf = c[q].buf
  PROVE  CutKept(c, d)
<1> SUFFICES ASSUME NEW k, Cut(c, k) PROVE Cut(d, k)
  BY DEF CutKept
<1>1. PICK x, y \in DOMAIN c : /\ x # y /\ c[x].level = 0 /\ c[y].level = 0
                               /\ k \in KeysIn(c[x].buf) /\ k \in KeysIn(c[y].buf)
  BY DEF Cut
<1> DEFINE At(q) == q \in DOMAIN d /\ d[q].level = 0 /\ k \in KeysIn(d[q].buf)
<1>2. \A q \in DOMAIN c \ {gone} : c[q].level = 0 /\ k \in KeysIn(c[q].buf) => At(q)
  OBVIOUS
<1>3. c[gone].level = 0 /\ k \in KeysIn(c[gone].buf) => At(l) \/ At(r)
  OBVIOUS
<1>4. \E u, v : u # v /\ At(u) /\ At(v)
  <2>1. CASE x = gone
    BY <1>1, <1>2, <1>3, <2>1
  <2>2. CASE y = gone
    BY <1>1, <1>2, <1>3, <2>2
  <2>3. CASE x # gone /\ y # gone
    BY <1>1, <1>2, <2>3
  <2> QED
    BY <2>1, <2>2, <2>3
<1> QED
  BY <1>4 DEF Cut

\* The range of a new leaf is that of its entries.
LEMMA LeafRange ==
  ASSUME NEW s \in Seq(Genuine), s # <<>>, NEW n, n = create(0, s, <<>>)
  PROVE  /\ n.level = 0 /\ n.kids = <<>> /\ KeysIn(n.buf) = KeysIn(s)
         /\ n.min \in KeysIn(s) /\ n.max \in KeysIn(s) /\ n.min <= n.max
         /\ \A k \in KeysIn(s) : n.min <= k /\ k <= n.max
<1> DEFINE b == sort_buffer(s)
<1>1. n.level = 0 /\ n.kids = <<>> /\ n.buf = b
  BY LeafMade
<1>2. /\ n.min = (IF b = <<>> THEN NoKey ELSE Head(b).key)
      /\ n.max = (IF b = <<>> THEN NoKey ELSE Last(b).key)
  BY DEF create
<1>3. b \in Seq(Genuine) /\ IsDeduped(b) /\ KeysIn(b) = KeysIn(s)
  BY GenuineEntries, SortBufferKeepsNewest, KeysSort
<1> HIDE DEF b
<1>4. InOrder(b)
  BY <1>3, GenuineEntries, DedupedSorted
<1>5. b # <<>>
  <2>1. PICK e : e \in ToSet(s)
    BY ToSetFacts
  <2>2. e.key \in KeysIn(b)
    BY <1>3, <2>1 DEF KeysIn
  <2> QED
    BY <2>2 DEF KeysIn, ToSet
<1>6. /\ Head(b) \in ToSet(b) /\ Last(b) \in ToSet(b)
      /\ \A k \in KeysIn(b) : Head(b).key <= k /\ k <= Last(b).key
  BY <1>3, <1>4, <1>5, GenuineEntries, EndsBound
<1>7. Head(b).key \in KeysIn(b) /\ Last(b).key \in KeysIn(b)
  BY <1>6 DEF KeysIn
<1> QED
  BY <1>1, <1>2, <1>3, <1>5, <1>6, <1>7

LEMMA GenuineKeys ==
  ASSUME NEW s \in Seq(Genuine)
  PROVE  KeysIn(s) \subseteq Keys /\ KeysIn(s) \subseteq Nat
<1>1. ToSet(s) \subseteq Genuine
  BY ToSetFacts
<1>2. \A e \in Genuine : e.key \in Keys
  BY DEF Genuine
<1> QED
  BY <1>1, <1>2, TreeAssumption DEF KeysIn

\* A full buffer of small entries has more than one.
LEMMA FullHasTwo ==
  ASSUME SmallEntries, NEW buf \in Seq(Genuine), buffer_full(buf)
  PROVE  Len(buf) \in Nat /\ Len(buf) >= 2
<1>1. Len(buf) \in Nat /\ DOMAIN buf = 1..Len(buf)
  OBVIOUS
<1>2. Len(buf) # 0
  BY <1>1, NoneFull
<1>3. Len(buf) # 1
  <2> SUFFICES ASSUME Len(buf) = 1 PROVE FALSE
    OBVIOUS
  <2>1. DOMAIN buf = {1} /\ buf[1] \in Genuine
    BY <1>1
  <2>2. buf[1].sz \in Sizes \cup {1}
    BY <2>1 DEF Genuine
  <2>3. buf[1].sz \in Nat /\ buf[1].sz < BufferThreshold
    <3>1. PICK z : z = buf[1].sz /\ z \in Sizes \cup {1}
      BY <2>2
    <3>2. z \in Nat
      BY <3>1, TreeAssumption
    <3>3. z < BufferThreshold
      BY <3>1 DEF SmallEntries
    <3> QED
      BY <3>1, <3>2, <3>3
  <2> QED
    BY <2>1, <2>3, OneFull
<1> QED
  BY <1>1, <1>2, <1>3

\* The two halves of a sorted buffer.
LEMMA LeafHalves ==
  ASSUME SmallEntries, NEW buf \in Seq(Genuine), buffer_full(buf), NEW s, s = StableSort(buf)
  PROVE  /\ LeftHalf(s) \in Seq(Genuine) /\ RightHalf(s) \in Seq(Genuine)
         /\ LeftHalf(s) # <<>> /\ RightHalf(s) # <<>>
         /\ KeysIn(LeftHalf(s)) \cup KeysIn(RightHalf(s)) = KeysIn(buf)
         /\ \A j \in KeysIn(LeftHalf(s)), k \in KeysIn(RightHalf(s)) : j <= k
<1> DEFINE a == LeftHalf(s)
           b == RightHalf(s)
           G == Genuine
<1>1. s \in Seq(G) /\ Len(s) = Len(buf) /\ InOrder(s) /\ KeysIn(s) = KeysIn(buf)
  BY GenuineEntries, SortFacts, KeysSort
<1>2. Len(s) \in Nat /\ Len(s) >= 2
  BY <1>1, FullHasTwo
<1>3. a \in Seq(G) /\ b \in Seq(G) /\ IsCut(s, a, b) /\ Len(a) = Len(s) \div 2
  BY <1>1, HalvesCut
<1>4. IsEntries(G)
  BY GenuineEntries
<1> HIDE DEF a, b, G
<1>5. /\ Len(s) = Len(a) + Len(b) /\ (\A j \in 1..Len(a) : a[j] = s[j])
      /\ (\A j \in 1..Len(b) : b[j] = s[Len(a) + j]) /\ Len(a) \in Nat /\ Len(b) \in Nat
      /\ DOMAIN s = 1..Len(s)
  BY <1>1, <1>3 DEF IsCut
<1>6. Len(a) # 0 /\ Len(b) # 0
  BY <1>2, <1>3, <1>5
<1>7. /\ ToSet(s) = {s[i] : i \in 1..Len(s)} /\ ToSet(a) = {a[i] : i \in 1..Len(a)}
      /\ ToSet(b) = {b[i] : i \in 1..Len(b)}
  <2>1. DOMAIN a = 1..Len(a) /\ DOMAIN b = 1..Len(b)
    BY <1>3
  <2>2. ToSet(s) = {s[i] : i \in 1..Len(s)}
    BY <1>5 DEF ToSet
  <2>3. ToSet(a) = {a[i] : i \in 1..Len(a)}
    BY <2>1 DEF ToSet
  <2>4. ToSet(b) = {b[i] : i \in 1..Len(b)}
    BY <2>1 DEF ToSet
  <2> QED
    BY <2>2, <2>3, <2>4
<1>8. \A i \in 1..Len(s) : i \in 1..Len(a) \/ i - Len(a) \in 1..Len(b)
  BY <1>5
<1>9. ToSet(s) = ToSet(a) \cup ToSet(b)
  <2>1. ToSet(s) \subseteq ToSet(a) \cup ToSet(b)
    <3> SUFFICES ASSUME NEW i \in 1..Len(s) PROVE s[i] \in ToSet(a) \cup ToSet(b)
      BY <1>7
    <3>1. CASE i \in 1..Len(a)
      BY <1>5, <1>7, <3>1
    <3>2. CASE i - Len(a) \in 1..Len(b)
      <4>1. b[i - Len(a)] = s[Len(a) + (i - Len(a))] /\ Len(a) + (i - Len(a)) = i
        BY <1>5, <3>2
      <4> QED
        BY <1>7, <3>2, <4>1
    <3> QED
      BY <1>8, <3>1, <3>2
  <2>2. \A j \in 1..Len(a) : j \in 1..Len(s)
    BY <1>5
  <2>3. \A j \in 1..Len(b) : Len(a) + j \in 1..Len(s)
    BY <1>5
  <2>4. ToSet(a) \subseteq ToSet(s) /\ ToSet(b) \subseteq ToSet(s)
    BY <1>5, <1>7, <2>2, <2>3
  <2> QED
    BY <2>1, <2>4
<1>10. KeysIn(a) \cup KeysIn(b) = KeysIn(buf)
  BY <1>1, <1>9 DEF KeysIn
<1>11. ASSUME NEW j \in KeysIn(a), NEW k \in KeysIn(b) PROVE j <= k
  <2>1. PICK u \in 1..Len(a) : j = a[u].key
    BY <1>7 DEF KeysIn
  <2>2. PICK v \in 1..Len(b) : k = b[v].key
    BY <1>7 DEF KeysIn
  <2>3. u \in DOMAIN s /\ Len(a) + v \in DOMAIN s /\ u <= Len(a) + v
    BY <1>5
  <2>4. s[u].key <= s[Len(a) + v].key
    BY <1>1, <1>4, <2>3, SortedOrder
  <2> QED
    BY <1>5, <2>1, <2>2, <2>4
<1>12. a # <<>> /\ b # <<>>
  BY <1>6
<1> QED
  BY <1>3, <1>10, <1>11, <1>12 DEF a, b, G

\* The halves of a cut node are in order and keep its leaf's keys, if it is one.
CutHalves(c, root, gone, l, r, a, b) ==
  /\ Shape(c, root) /\ Sorted(c, root) /\ gone \in DOMAIN c /\ l # r /\ {l, r} \cap DOMAIN c = {}
  /\ IsList(a.kids) /\ IsList(b.kids) /\ InLine(c, a.kids) /\ InLine(c, b.kids)
  /\ ToSet(a.kids) \cup ToSet(b.kids) \subseteq ToSet(c[gone].kids)
  /\ Spans(c, a) /\ Spans(c, b)
  /\ gone # root => Narrow(a, c[gone]) /\ Narrow(b, c[gone])
  /\ a.max <= b.min
  /\ c[gone].level = 0 =>
       /\ a.level = 0 /\ b.level = 0 /\ KeysIn(c[gone].buf) \subseteq KeysIn(a.buf) \cup KeysIn(b.buf)
       /\ a.max \in KeysIn(a.buf) /\ b.min \in KeysIn(b.buf)
  /\ c[gone].level # 0 => (a.max = b.min => Cut(c, a.max))

LEMMA HalvesInOrder ==
  ASSUME NEW c, NEW d, NEW root, NEW gone, NEW l, NEW r, NEW a, NEW b,
         CutHalves(c, root, gone, l, r, a, b), l \in DOMAIN d, r \in DOMAIN d, d[l] = a, d[r] = b,
         \A q \in DOMAIN c \ {gone} : q \in DOMAIN d /\ d[q].level = c[q].level /\ d[q].buf = c[q].buf
  PROVE  CutKept(c, d) /\ CutInOrder(c, d, root, gone, l, r, a, b)
<1>1. CutKept(c, d)
  <2>1. l # r /\ l \in DOMAIN d \ DOMAIN c /\ r \in DOMAIN d \ DOMAIN c
    BY DEF CutHalves
  <2>2. c[gone].level = 0 => /\ d[l].level = 0 /\ d[r].level = 0
                             /\ KeysIn(c[gone].buf) \subseteq KeysIn(d[l].buf) \cup KeysIn(d[r].buf)
    BY DEF CutHalves
  <2> QED
    BY <2>1, <2>2, CutSplit
<1>2. d[l].max <= d[r].min
  BY DEF CutHalves
<1>3. ASSUME d[l].max = d[r].min PROVE Cut(d, d[l].max)
  <2>1. CASE c[gone].level = 0
    <3>1. d[l].level = 0 /\ d[r].level = 0 /\ l # r /\ d[l].max \in KeysIn(d[l].buf) /\ d[l].max \in KeysIn(d[r].buf)
      BY <1>3, <2>1 DEF CutHalves
    <3> QED
      BY <3>1 DEF Cut
  <2>2. CASE c[gone].level # 0
    <3>1. Cut(c, a.max)
      BY <1>3, <2>2 DEF CutHalves
    <3> QED
      BY <1>1, <3>1 DEF CutKept
  <2> QED
    BY <2>1, <2>2
<1>4. Before(d, l, r)
  BY <1>2, <1>3 DEF Before
<1> QED
  BY <1>1, <1>4 DEF CutInOrder, CutHalves

LEMMA OrderHalves ==
  ASSUME NEW c, NEW d, NEW root, NEW gone, gone # root, NEW p, NEW l, NEW r, NEW a, NEW b,
         CutHalves(c, root, gone, l, r, a, b), Splits(c, d, gone, p, l, r, a, b)
  PROVE  Sorted(d, root)
<1>1. /\ l \in DOMAIN d /\ r \in DOMAIN d /\ d[l] = a /\ d[r] = b
      /\ \A q \in DOMAIN c \ {gone} : q \in DOMAIN d /\ d[q].level = c[q].level /\ d[q].buf = c[q].buf
  BY DEF Splits
<1>2. CutKept(c, d) /\ CutInOrder(c, d, root, gone, l, r, a, b)
  BY <1>1, HalvesInOrder
<1>3. Sorted(c, root) /\ Shape(c, root)
  BY DEF CutHalves
<1> QED
  BY <1>2, <1>3, OrderSplit

LEMMA OrderHalvesRoot ==
  ASSUME NEW c, NEW d, NEW root, NEW t, NEW l, NEW r, NEW a, NEW b,
         CutHalves(c, root, root, l, r, a, b), SplitsRoot(c, d, root, t, l, r, a, b)
  PROVE  Sorted(d, t)
<1>1. /\ l \in DOMAIN d /\ r \in DOMAIN d /\ d[l] = a /\ d[r] = b
      /\ \A q \in DOMAIN c \ {root} : q \in DOMAIN d /\ d[q].level = c[q].level /\ d[q].buf = c[q].buf
  BY DEF SplitsRoot
<1>2. CutKept(c, d) /\ CutInOrder(c, d, root, root, l, r, a, b)
  BY <1>1, HalvesInOrder
<1>3. Sorted(c, root) /\ Shape(c, root)
  BY DEF CutHalves
<1> QED
  BY <1>2, <1>3, OrderSplitRoot

\* The halves of a full leaf.
LEMMA LeafHalvesIn ==
  ASSUME SmallEntries, NEW c, NEW root, NEW x \in DOMAIN c, NEW l, NEW r, NEW a, NEW b,
         Shape(c, root), Sorted(c, root), l # r, {l, r} \cap DOMAIN c = {},
         NEW buf, buf = c[x].buf, buf \in Seq(Genuine), buffer_full(buf), c[x].level = 0,
         NEW s, s = StableSort(buf),
         a = create(0, LeftHalf(s), <<>>), b = create(0, RightHalf(s), <<>>)
  PROVE  CutHalves(c, root, x, l, r, a, b)
<1> DEFINE u == LeftHalf(s)
           v == RightHalf(s)
<1>1. /\ u \in Seq(Genuine) /\ v \in Seq(Genuine) /\ u # <<>> /\ v # <<>>
      /\ KeysIn(u) \cup KeysIn(v) = KeysIn(buf) /\ \A j \in KeysIn(u), k \in KeysIn(v) : j <= k
  BY LeafHalves
<1> HIDE DEF u, v
<1>2. /\ a.level = 0 /\ a.kids = <<>> /\ KeysIn(a.buf) = KeysIn(u)
      /\ a.min \in KeysIn(u) /\ a.max \in KeysIn(u) /\ a.min <= a.max
      /\ \A k \in KeysIn(u) : a.min <= k /\ k <= a.max
  BY <1>1, LeafRange DEF u
<1>3. /\ b.level = 0 /\ b.kids = <<>> /\ KeysIn(b.buf) = KeysIn(v)
      /\ b.min \in KeysIn(v) /\ b.max \in KeysIn(v) /\ b.min <= b.max
      /\ \A k \in KeysIn(v) : b.min <= k /\ k <= b.max
  BY <1>1, LeafRange DEF v
<1>4. KeysIn(buf) \subseteq Keys
  BY GenuineKeys
<1>5. Spans(c, a) /\ Spans(c, b)
  BY <1>1, <1>2, <1>3, <1>4 DEF Spans
<1>6. x # root => Narrow(a, c[x]) /\ Narrow(b, c[x])
  <2> SUFFICES ASSUME x # root PROVE Narrow(a, c[x]) /\ Narrow(b, c[x])
    OBVIOUS
  <2>1. Spans(c, c[x])
    BY DEF Sorted
  <2>2. \A k \in KeysIn(buf) : c[x].min <= k /\ k <= c[x].max
    BY <2>1 DEF Spans
  <2> QED
    BY <1>1, <1>2, <1>3, <2>2 DEF Narrow
<1>7. /\ IsList(a.kids) /\ IsList(b.kids) /\ InLine(c, a.kids) /\ InLine(c, b.kids)
      /\ ToSet(a.kids) \cup ToSet(b.kids) \subseteq ToSet(c[x].kids)
  <2>1. IsList(<< >>)
    BY DEF IsList
  <2>2. InLine(c, << >>)
    BY DEF InLine
  <2>3. ToSet(<< >>) = {}
    BY DEF ToSet
  <2> QED
    BY <1>2, <1>3, <2>1, <2>2, <2>3
<1>8. a.max <= b.min
  BY <1>1, <1>2, <1>3
<1>9. /\ a.level = 0 /\ b.level = 0 /\ KeysIn(c[x].buf) \subseteq KeysIn(a.buf) \cup KeysIn(b.buf)
      /\ a.max \in KeysIn(a.buf) /\ b.min \in KeysIn(b.buf)
  BY <1>1, <1>2, <1>3
<1> QED
  BY <1>5, <1>6, <1>7, <1>8, <1>9 DEF CutHalves

\* The step cuts node x in two, a and b, which are nodes l and r in the new tree.
NodeCut(x, parent, l, r, a, b) ==
  /\ ~Doomed /\ UNCHANGED write_buf
  /\ CutHalves(Tree, Root, x, l, r, a, b)
  /\ \A h \in {a, b} : /\ h.level = Tree[x].level
                       /\ InOrder(h.buf) /\ ToSet(h.buf) \subseteq ToSet(Tree[x].buf)
  /\ x = Root => SplitsRoot(Tree, Tree', Root, Root', l, r, a, b)
  /\ x # Root => Root' = Root /\ (~Doomed' => Splits(Tree, Tree', x, parent, l, r, a, b))

\* split_leaf
LEMMA SplitLeafCut ==
  ASSUME SmallEntries, QueueInv, FilesInv, LiveInv, TreeInv, EmptyInv, OrderInv, SplitLeaf
  PROVE  \E x, parent, l, r, a, b : NodeCut(x, parent, l, r, a, b)
<1> DEFINE x == Head(todo).id
           parent == Head(Head(todo).path)
           buf == cache_[x].buf
           s == StableSort(buf)
           u == LeftHalf(s)
           v == RightHalf(s)
           a == create(0, u, <<>>)
           b == create(0, v, <<>>)
           l == manifest_.next
           r == manifest_.next + 1
           ins == [op |-> "insert_child", id |-> parent, old |-> x, left |-> l, right |-> r]
           ops == (IF x = Root THEN <<>> ELSE <<ins>>) \o Commit
<1>1. LeafCall(x, parent, a, b, l, r, ins, ops)
  BY SplitLeafTo
<1>2. Head(todo).op = "split_leaf"
  BY DEF SplitLeaf, Do
<1>3. a = create(0, u, <<>>) /\ b = create(0, v, <<>>) /\ l # r
  BY DEF LiveInv, CacheInv
<1>4. a.buf = sort_buffer(u) /\ b.buf = sort_buffer(v)
  BY DEF create
<1> HIDE DEF a, b, l, r, ins, ops, parent
<1>5. /\ todo # <<>> /\ ~Splitting /\ ~Doomed /\ Tree = cache_ /\ x \in DOMAIN cache_
      /\ cache_[x].level = 0 /\ l \notin Known /\ r \notin Known
      /\ x = Root => SplitsRoot(Tree, Tree', Root, Root', l, r, a, b)
      /\ x # Root => Root' = Root /\ (~Doomed' => Splits(Tree, Tree', x, parent, l, r, a, b))
      /\ UNCHANGED write_buf
  BY <1>1 DEF LeafCall
<1>6. buffer_full(buf)
  BY <1>2, <1>5, FirstFrom DEF FullFirst
<1>7. Shape(Tree, Root) /\ Sorted(Tree, Root) /\ DOMAIN Tree \subseteq Known /\ buf \in Seq(Genuine)
  BY <1>5 DEF TreeInv, LiveInv, CacheInv, NodeIn, OrderInv
<1>8. CutHalves(Tree, Root, x, l, r, a, b)
  <2> DEFINE c == Tree
             root == Root
  <2>1. /\ x \in DOMAIN c /\ Shape(c, root) /\ Sorted(c, root) /\ l # r /\ {l, r} \cap DOMAIN c = {}
        /\ buf = c[x].buf /\ c[x].level = 0
    BY <1>3, <1>5, <1>7
  <2> HIDE DEF c, root, x, buf, s
  <2>2. s = StableSort(buf) /\ a = create(0, LeftHalf(s), <<>>) /\ b = create(0, RightHalf(s), <<>>)
    BY <1>3 DEF s
  <2>3. CutHalves(c, root, x, l, r, a, b)
    BY ONLY SmallEntries, <1>6, <1>7, <2>1, <2>2, LeafHalvesIn
  <2> QED
    BY <2>3 DEF c, root
<1>9. /\ InOrder(a.buf) /\ ToSet(a.buf) \subseteq ToSet(buf)
      /\ InOrder(b.buf) /\ ToSet(b.buf) \subseteq ToSet(buf)
  <2>0. s = StableSort(buf)
    OBVIOUS
  <2> HIDE DEF buf, s
  <2>1. s \in Seq(Genuine) /\ ToSet(s) = ToSet(buf)
    BY <1>7, <2>0, GenuineEntries, SortFacts
  <2>2. u \in Seq(Genuine) /\ v \in Seq(Genuine) /\ ToSet(s) = ToSet(u) \cup ToSet(v)
    BY <2>1, HalvesFacts
  <2> HIDE DEF u, v
  <2>3. InOrder(a.buf) /\ ToSet(a.buf) \subseteq ToSet(u)
    BY ONLY <1>4, <2>2, GenuineEntries, CleanBuf
  <2>4. InOrder(b.buf) /\ ToSet(b.buf) \subseteq ToSet(v)
    BY ONLY <1>4, <2>2, GenuineEntries, CleanBuf
  <2> QED
    BY <2>1, <2>2, <2>3, <2>4
<1>10. a.level = 0 /\ b.level = 0
  BY <1>5, <1>8 DEF CutHalves
<1> HIDE DEF x, s
<1>11. NodeCut(x, parent, l, r, a, b)
  BY <1>5, <1>8, <1>9, <1>10 DEF NodeCut
<1> QED
  BY <1>11

\* The two parts of a list in order are in order, and the first lies before the second.
LEMMA CutInLine ==
  ASSUME NEW c, NEW K, NEW w \in Seq(K), NEW s \in Seq(K), NEW t \in Seq(K), IsCut(w, s, t),
         s # <<>>, t # <<>>, InLine(c, w), \A k \in ToSet(w) : Spans(c, c[k])
  PROVE  /\ InLine(c, s) /\ InLine(c, t) /\ ToSet(s) \cup ToSet(t) \subseteq ToSet(w)
         /\ Head(s) = w[1] /\ Last(t) = w[Len(w)] /\ Before(c, Last(s), Head(t)) /\ w # <<>>
         /\ c[w[1]].min <= c[Head(t)].min /\ c[Last(s)].max <= c[w[Len(w)]].max
<1> DEFINE n == Len(s)
           m == Len(t)
<1>1. /\ n \in Nat \ {0} /\ m \in Nat \ {0}
      /\ Head(s) = s[1] /\ Last(s) = s[n] /\ Head(t) = t[1] /\ Last(t) = t[m]
  BY EndsIn
<1>2. /\ Len(w) = n + m /\ (\A j \in 1..n : s[j] = w[j]) /\ \A j \in 1..m : t[j] = w[n + j]
  BY DEF IsCut
<1>3. DOMAIN w = 1..Len(w) /\ DOMAIN s = 1..n /\ DOMAIN t = 1..m
  OBVIOUS
<1> HIDE DEF n, m
<1>4. /\ ToSet(w) = {w[i] : i \in 1..Len(w)} /\ ToSet(s) = {s[i] : i \in 1..n}
      /\ ToSet(t) = {t[i] : i \in 1..m}
  <2>1. ToSet(w) = {w[i] : i \in 1..Len(w)}
    BY <1>3 DEF ToSet
  <2>2. ToSet(s) = {s[i] : i \in 1..n}
    BY <1>3 DEF ToSet
  <2>3. ToSet(t) = {t[i] : i \in 1..m}
    BY <1>3 DEF ToSet
  <2> QED
    BY <2>1, <2>2, <2>3
<1>5. \A j \in 1..n : j \in 1..Len(w)
  BY <1>1, <1>2
<1>6. \A j \in 1..m : n + j \in 1..Len(w)
  BY <1>1, <1>2
<1>7. ToSet(s) \cup ToSet(t) \subseteq ToSet(w)
  BY <1>2, <1>4, <1>5, <1>6
<1>8. \A i, j \in 1..Len(w) : i < j => Before(c, w[i], w[j])
  BY DEF InLine
<1>9. InLine(c, s)
  <2> SUFFICES ASSUME NEW i \in 1..n, NEW j \in 1..n, i < j PROVE Before(c, s[i], s[j])
    BY DEF InLine, n
  <2> QED
    BY <1>2, <1>5, <1>8
<1>10. InLine(c, t)
  <2> SUFFICES ASSUME NEW i \in 1..m, NEW j \in 1..m, i < j PROVE Before(c, t[i], t[j])
    BY DEF InLine, m
  <2>1. n + i < n + j /\ n + i \in 1..Len(w) /\ n + j \in 1..Len(w)
    BY <1>1, <1>6
  <2>2. Before(c, w[n + i], w[n + j])
    BY <1>8, <2>1
  <2> QED
    BY <1>2, <2>2
<1>11. Head(s) = w[1] /\ Last(s) = w[n] /\ Head(t) = w[n + 1] /\ Last(t) = w[Len(w)]
  <2>1. 1 \in 1..n /\ n \in 1..n /\ 1 \in 1..m /\ m \in 1..m
    BY <1>1
  <2> QED
    BY <1>1, <1>2, <2>1
<1>12. /\ 1 \in 1..Len(w) /\ n \in 1..Len(w) /\ n + 1 \in 1..Len(w) /\ n + m \in 1..Len(w)
       /\ n < n + 1 /\ 1 < n + 1 /\ n < n + m
  BY <1>1, <1>2
<1>13. /\ Before(c, w[n], w[n + 1]) /\ Before(c, w[1], w[n + 1]) /\ Before(c, w[n], w[n + m])
  BY <1>8, <1>12
<1>14. /\ w[1] \in ToSet(w) /\ w[n] \in ToSet(w) /\ w[n + 1] \in ToSet(w) /\ w[n + m] \in ToSet(w)
  BY <1>4, <1>12
<1>15. /\ c[w[1]].min \in Nat /\ c[w[1]].max \in Nat /\ c[w[1]].min <= c[w[1]].max
  BY <1>14, SpansNumbers
<1>16. c[w[n + 1]].min \in Nat
  BY <1>14, SpansNumbers
<1>17. c[w[n]].max \in Nat
  BY <1>14, SpansNumbers
<1>18. c[w[n + m]].min \in Nat /\ c[w[n + m]].max \in Nat /\ c[w[n + m]].min <= c[w[n + m]].max
  BY <1>14, SpansNumbers
<1>19. c[w[1]].min <= c[w[n + 1]].min
  BY <1>13, <1>15, <1>16 DEF Before
<1>20. c[w[n]].max <= c[w[n + m]].max
  BY <1>13, <1>17, <1>18 DEF Before
<1>21. w # <<>>
  BY <1>1, <1>2
<1> QED
  BY <1>2, <1>7, <1>9, <1>10, <1>11, <1>13, <1>19, <1>20, <1>21

\* The halves of an emptied internal node.
LEMMA ParentHalvesIn ==
  ASSUME NEW c, NEW root, NEW x \in DOMAIN c, NEW l, NEW r, NEW a, NEW b,
         Shape(c, root), Sorted(c, root), l # r, {l, r} \cap DOMAIN c = {},
         NEW K, NEW w, w = c[x].kids, w \in Seq(K), NEW s \in Seq(K), NEW t \in Seq(K), IsCut(w, s, t),
         s # <<>>, t # <<>>, SpanOf(c, a, c[x].level, s), SpanOf(c, b, c[x].level, t)
  PROVE  CutHalves(c, root, x, l, r, a, b)
<1>1. InLine(c, w)
  BY DEF Sorted
<1>2. \A k \in ToSet(w) : k \in DOMAIN c \ {root}
  BY DEF Shape
<1>3. \A k \in ToSet(w) : Spans(c, c[k])
  BY <1>2 DEF Sorted
<1>4. /\ InLine(c, s) /\ InLine(c, t) /\ ToSet(s) \cup ToSet(t) \subseteq ToSet(w)
      /\ Head(s) = w[1] /\ Last(t) = w[Len(w)] /\ Before(c, Last(s), Head(t)) /\ w # <<>>
      /\ c[w[1]].min <= c[Head(t)].min /\ c[Last(s)].max <= c[w[Len(w)]].max
  BY <1>1, <1>3, CutInLine
<1>5. /\ a.kids = s /\ a.buf = <<>> /\ a.min = c[Head(s)].min /\ a.max = c[Last(s)].max
      /\ b.kids = t /\ b.buf = <<>> /\ b.min = c[Head(t)].min /\ b.max = c[Last(t)].max
  BY DEF SpanOf
<1>6. IsList(s) /\ IsList(t) /\ Len(s) \in Nat /\ Len(t) \in Nat
  BY DEF IsList
<1>7. /\ Head(s) = s[1] /\ Last(s) = s[Len(s)] /\ Head(t) = t[1] /\ Last(t) = t[Len(t)]
      /\ Head(s) \in ToSet(s) /\ Last(s) \in ToSet(s) /\ Head(t) \in ToSet(t) /\ Last(t) \in ToSet(t)
  BY EndsIn
<1>8. Spans(c, a)
  <2>1. \A k \in ToSet(a.kids) : Spans(c, c[k])
    BY <1>3, <1>4, <1>5
  <2> QED
    BY <1>4, <1>5, <1>6, <1>7, <2>1, SpanSpans
<1>9. Spans(c, b)
  <2>1. \A k \in ToSet(b.kids) : Spans(c, c[k])
    BY <1>3, <1>4, <1>5
  <2> QED
    BY <1>4, <1>5, <1>6, <1>7, <2>1, SpanSpans
<1>10. x # root => Narrow(a, c[x]) /\ Narrow(b, c[x])
  <2> SUFFICES ASSUME x # root PROVE Narrow(a, c[x]) /\ Narrow(b, c[x])
    OBVIOUS
  <2>1. Spans(c, c[x])
    BY DEF Sorted
  <2>2. /\ c[x].min <= c[w[1]].min /\ c[w[Len(w)]].max <= c[x].max
        /\ c[x].min \in Nat /\ c[x].max \in Nat
    BY <1>4, <2>1, SpansNumbers DEF Spans
  <2>3. /\ w[1] \in ToSet(w) /\ w[Len(w)] \in ToSet(w) /\ Head(t) \in ToSet(w) /\ Last(s) \in ToSet(w)
    BY <1>4, <1>7
  <2>4. /\ c[w[1]].min \in Nat /\ c[w[Len(w)]].max \in Nat
    BY <1>3, <2>3, SpansNumbers
  <2>5. /\ c[Head(t)].min \in Nat /\ c[Last(s)].max \in Nat
    BY <1>3, <2>3, SpansNumbers
  <2>6. a.min = c[w[1]].min /\ b.max = c[w[Len(w)]].max
    BY <1>4, <1>5
  <2>7. c[x].min <= b.min /\ a.max <= c[x].max
    BY <1>4, <1>5, <2>2, <2>4, <2>5, SMTT(30)
  <2> QED
    BY <2>2, <2>6, <2>7 DEF Narrow
<1>11. a.max <= b.min /\ (a.max = b.min => Cut(c, a.max))
  BY <1>4, <1>5 DEF Before
<1>12. c[x].level # 0
  BY <1>4 DEF Shape
<1> QED
  BY <1>4, <1>5, <1>6, <1>8, <1>9, <1>10, <1>11, <1>12 DEF CutHalves

\* insert_child into a full parent
LEMMA SplitParentCut ==
  ASSUME QueueInv, FilesInv, LiveInv, TreeInv, EmptyInv, OrderInv, SplitParent
  PROVE  \E x, parent, l, r, a, b : NodeCut(x, parent, l, r, a, b)
<1> DEFINE x == Head(todo).id
           parent == IF x = Root THEN x ELSE ParentOf(x)
           l == manifest_.next
           r == manifest_.next + 1
           ins == [op |-> "insert_child", id |-> parent, old |-> x, left |-> l, right |-> r]
           ops == (IF x = Root THEN <<>> ELSE <<ins>>) \o Commit
           s == LeftHalf(Tree[x].kids)
           t == RightHalf(Tree[x].kids)
<1>0. Head(todo).op = "insert_child" /\ todo # <<>> /\ Missing(Head(todo)) = {}
  BY Zenon DEF SplitParent, Do
<1>1. ~Doomed
  <2>1. Readable(x)
    BY <1>0 DEF Missing
  <2> QED
    BY <2>1 DEF Doomed, Readable, LiveInv, CacheInv
<1>2. PICK X : Emptied(X) /\ Drained(Tree, X) /\ From(Head(todo), Tree, X)
  BY <1>0, <1>1, FirstFrom
<1>3. x \in X /\ Tree[x].buf = <<>>
  BY <1>0, <1>2 DEF From, Drained
<1>4. l # r
  BY DEF LiveInv, CacheInv
<1>5. Tree[x].kids \in Seq(Known)
  <2>1. Splitting
    BY <1>0 DEF Splitting, Do
  <2> QED
    BY <1>1, <2>1, TreeSplitting DEF LiveInv, TreeInv, NodeIn
<1>6. ParentCall(x, parent, l, r, ins, ops, s, t)
  BY <1>3, SplitParentTo
<1> HIDE DEF parent, l, r, ins, ops, s, t
<1>7. /\ x \in DOMAIN Tree /\ DOMAIN Tree = DOMAIN cache_ /\ l \notin Known /\ r \notin Known
      /\ UNCHANGED write_buf
      /\ s \in Seq(Known) /\ t \in Seq(Known) /\ IsCut(Tree[x].kids, s, t) /\ s # <<>> /\ t # <<>>
      /\ \E a, b : /\ SpanOf(Tree, a, Tree[x].level, s) /\ SpanOf(Tree, b, Tree[x].level, t)
                   /\ x = Root => SplitsRoot(Tree, Tree', Root, Root', l, r, a, b)
                   /\ x # Root => Root' = Root /\ (~Doomed' => Splits(Tree, Tree', x, parent, l, r, a, b))
  BY <1>6 DEF ParentCall
<1>8. PICK a, b : /\ SpanOf(Tree, a, Tree[x].level, s) /\ SpanOf(Tree, b, Tree[x].level, t)
                  /\ x = Root => SplitsRoot(Tree, Tree', Root, Root', l, r, a, b)
                  /\ x # Root => Root' = Root /\ (~Doomed' => Splits(Tree, Tree', x, parent, l, r, a, b))
  BY <1>7
<1>9. Shape(Tree, Root) /\ Sorted(Tree, Root) /\ DOMAIN Tree \subseteq Known
  BY <1>1, <1>7 DEF TreeInv, LiveInv, CacheInv, OrderInv
<1>10. CutHalves(Tree, Root, x, l, r, a, b)
  <2> DEFINE c == Tree
             root == Root
             w == Tree[x].kids
             K == Known
  <2>1. /\ x \in DOMAIN c /\ Shape(c, root) /\ Sorted(c, root) /\ l # r /\ {l, r} \cap DOMAIN c = {}
        /\ w = c[x].kids /\ w \in Seq(K) /\ s \in Seq(K) /\ t \in Seq(K) /\ IsCut(w, s, t)
        /\ s # <<>> /\ t # <<>> /\ SpanOf(c, a, c[x].level, s) /\ SpanOf(c, b, c[x].level, t)
    BY <1>4, <1>5, <1>7, <1>8, <1>9
  <2> HIDE DEF c, root, x, w, K
  <2>3. CutHalves(c, root, x, l, r, a, b)
    BY ONLY <2>1, ParentHalvesIn
  <2> QED
    BY <2>3 DEF c, root
<1>11. \A h \in {a, b} : /\ h.level = Tree[x].level
                         /\ InOrder(h.buf) /\ ToSet(h.buf) \subseteq ToSet(Tree[x].buf)
  <2>1. \A h \in {a, b} : h.level = Tree[x].level /\ h.buf = <<>>
    BY <1>8 DEF SpanOf
  <2>2. InOrder(<<>>) /\ ToSet(<<>>) = {}
    BY DEF InOrder, ToSet
  <2> QED
    BY <2>1, <2>2
<1> HIDE DEF x
<1>12. NodeCut(x, parent, l, r, a, b)
  BY <1>1, <1>7, <1>8, <1>10, <1>11 DEF NodeCut
<1> QED
  BY <1>12

\* A split keeps the order.
LEMMA SplitKeepsOrder ==
  ASSUME NEW x, NEW parent, NEW l, NEW r, NEW a, NEW b, NodeCut(x, parent, l, r, a, b)
  PROVE  OrderInv'
<1> SUFFICES ASSUME ~Doomed' PROVE Sorted(Tree, Root)'
  BY DEF OrderInv
<1>1. CASE x = Root
  <2>1. SplitsRoot(Tree, Tree', Root, Root', l, r, a, b) /\ CutHalves(Tree, Root, Root, l, r, a, b)
    BY <1>1 DEF NodeCut
  <2>2. Sorted(Tree', Root')
    BY ONLY <2>1, OrderHalvesRoot
  <2> QED
    BY <2>2
<1>2. CASE x # Root
  <2>1. /\ Splits(Tree, Tree', x, parent, l, r, a, b) /\ Root' = Root
        /\ CutHalves(Tree, Root, x, l, r, a, b)
    BY <1>2 DEF NodeCut
  <2>2. Sorted(Tree', Root)
    BY ONLY <1>2, <2>1, OrderHalves
  <2> QED
    BY <2>1, <2>2
<1> QED
  BY <1>1, <1>2

LEMMA SplitOrder ==
  ASSUME SmallEntries, QueueInv, FilesInv, LiveInv, TreeInv, EmptyInv, OrderInv, SplitLeaf \/ SplitParent
  PROVE  OrderInv'
BY SplitLeafCut, SplitParentCut, SplitKeepsOrder

-----------------------------------------------------------------------------
(* do_flush keeps the order *)

\* The range of a node made by create is that of its entries.
LEMMA CreateRange ==
  ASSUME NEW level, NEW ids, NEW s \in Seq(Genuine), KeysIn(s) # {}, NEW n, n = create(level, s, ids)
  PROVE  /\ KeysIn(n.buf) = KeysIn(s)
         /\ n.min \in KeysIn(s) /\ n.max \in KeysIn(s) /\ n.min <= n.max
         /\ \A k \in KeysIn(s) : n.min <= k /\ k <= n.max
<1> DEFINE b == sort_buffer(s)
<1>2. /\ n.min = (IF b = <<>> THEN NoKey ELSE Head(b).key)
      /\ n.max = (IF b = <<>> THEN NoKey ELSE Last(b).key) /\ n.buf = b
  BY DEF create
<1>3. b \in Seq(Genuine) /\ IsDeduped(b) /\ KeysIn(b) = KeysIn(s)
  BY GenuineEntries, SortBufferKeepsNewest, KeysSort
<1> HIDE DEF b
<1>4. InOrder(b)
  BY <1>3, GenuineEntries, DedupedSorted
<1>5. b # <<>>
  <2>1. ToSet(<< >>) = {}
    BY DEF ToSet
  <2>2. KeysIn(<< >>) = {}
    BY <2>1 DEF KeysIn
  <2> QED
    BY <1>3, <2>2
<1>6. /\ Head(b) \in ToSet(b) /\ Last(b) \in ToSet(b)
      /\ \A k \in KeysIn(b) : Head(b).key <= k /\ k <= Last(b).key
  BY <1>3, <1>4, <1>5, GenuineEntries, EndsBound
<1>7. Head(b).key \in KeysIn(b) /\ Last(b).key \in KeysIn(b)
  BY <1>6 DEF KeysIn
<1> QED
  BY <1>2, <1>3, <1>5, <1>6, <1>7

\* The node m is the child a, with its range, after it received entries with the keys R.
Grown(a, m, R) ==
  /\ m.kids = a.kids /\ KeysIn(a.buf) \subseteq KeysIn(m.buf)
  /\ m.min \in Keys /\ m.max \in Keys /\ m.min <= m.max
  /\ \A k \in KeysIn(m.buf) : m.min <= k /\ k <= m.max
  /\ a.min <= m.min \/ m.min \in R
  /\ m.max <= a.max \/ m.max \in R

LEMMA MadeGrown ==
  ASSUME NEW K, NEW a, NodeIn(a, K, Genuine), Len(a.kids) <= MAX_FANOUT, NEW c, Spans(c, a),
         NEW D \in Seq(Genuine), NEW m, m = IF D = <<>> THEN a ELSE Rewritten(a, D),
         NEW R, R = KeysIn(D)
  PROVE  Grown(a, m, R)
<1>1. a.min \in Nat /\ a.max \in Nat /\ a.min <= a.max
  BY SpansNumbers
<1>2. CASE D = <<>>
  BY <1>1, <1>2 DEF Grown, Spans
<1>3. CASE D # <<>>
  <2> DEFINE own == a.buf
             s == merge_sorted_entries(D, own)
  <2>1. own \in Seq(Genuine) /\ m = create(a.level, s, a.kids)
    BY <1>3 DEF NodeIn, Rewritten
  <2>2. m.kids = a.kids
    BY <1>3, RewrittenLinks, GenuineEntries DEF SameLinks
  <2> HIDE DEF own
  <2>3. s \in Seq(Genuine) /\ KeysIn(sort_buffer(s)) = R \cup KeysIn(own)
    <3> DEFINE G == Genuine
    <3>1. IsEntries(G) /\ own \in Seq(G) /\ D \in Seq(G)
      BY <2>1, GenuineEntries
    <3> HIDE DEF G
    <3>2. s \in Seq(G)
      BY <3>1, MergeCovers
    <3>3. KeysIn(sort_buffer(s)) = KeysIn(D) \cup KeysIn(own)
      BY ONLY <3>1, KeysMerge
    <3> QED
      BY <3>2, <3>3 DEF G
  <2> HIDE DEF s
  <2>4. KeysIn(s) = R \cup KeysIn(own)
    BY <2>3, KeysSort, GenuineEntries
  <2>5. KeysIn(s) # {}
    <3>1. PICK e : e \in ToSet(D)
      BY <1>3, ToSetFacts
    <3> QED
      BY <2>4, <3>1 DEF KeysIn
  <2>6. /\ KeysIn(m.buf) = KeysIn(s)
        /\ m.min \in KeysIn(s) /\ m.max \in KeysIn(s) /\ m.min <= m.max
        /\ \A k \in KeysIn(s) : m.min <= k /\ k <= m.max
    BY <2>1, <2>3, <2>5, CreateRange
  <2>7. KeysIn(s) \subseteq Keys
    BY <2>3, GenuineKeys
  <2>8. \A k \in KeysIn(own) : a.min <= k /\ k <= a.max
    BY DEF Spans, own
  <2>9. a.min <= m.min \/ m.min \in R
    BY <2>4, <2>6, <2>8
  <2>10. m.max <= a.max \/ m.max \in R
    BY <2>4, <2>6, <2>8
  <2> QED
    BY <2>2, <2>4, <2>6, <2>7, <2>9, <2>10 DEF Grown, own
<1> QED
  BY <1>2, <1>3

\* The widened node.
LEMMA RefreshedIs ==
  ASSUME NEW K, NEW n, NodeIn(n, K, Genuine), n.kids # <<>>, n.min \in Keys, n.max \in Keys,
         NEW f, f = Node(Head(n.kids)), NEW g, g = Node(Last(n.kids)),
         NEW lo, lo = IF f.min < n.min THEN f.min ELSE n.min,
         NEW hi, hi = IF g.max > n.max THEN g.max ELSE n.max
  PROVE  Refreshed(n) = flush_to_disk(Ranged(n, lo, hi))
<1> DEFINE span == Spanning(n, f, g)
<1>1. Refreshed(n) = LET s == Spanning(n, Node(Head(n.kids)), Node(Last(n.kids)))
                     IN  flush_to_disk([n EXCEPT
                           !.min = IF @ = NoKey \/ s.min < @ THEN s.min ELSE @,
                           !.max = IF @ = NoKey \/ s.max > @ THEN s.max ELSE @])
  BY DEF Refreshed
<1>2. Refreshed(n) = flush_to_disk([n EXCEPT
                           !.min = IF n.min = NoKey \/ span.min < n.min THEN span.min ELSE n.min,
                           !.max = IF n.max = NoKey \/ span.max > n.max THEN span.max ELSE n.max])
  BY <1>1
<1>3. span.min = f.min /\ span.max = g.max
  BY SpanningIs
<1>4. n.min # NoKey /\ n.max # NoKey
  BY TreeAssumption DEF NoKey
<1> HIDE DEF span
<1>5. /\ lo = IF n.min = NoKey \/ span.min < n.min THEN span.min ELSE n.min
      /\ hi = IF n.max = NoKey \/ span.max > n.max THEN span.max ELSE n.max
  BY <1>3, <1>4
<1> QED
  BY <1>2, <1>5, Zenon DEF Ranged

LEMMA RefreshedReceives ==
  ASSUME NEW K, NEW a, NEW m, NodeIn(m, K, Genuine), NEW R, Grown(a, m, R), NEW c, Spans(c, a),
         \A k \in ToSet(a.kids) : Spans(c, c[k]) /\ Node(k) = c[k],
         NEW b, b = Refreshed(m)
  PROVE  Receives(c, a, b, R) /\ KeysIn(a.buf) \subseteq KeysIn(b.buf)
<1>1. /\ m.kids = a.kids /\ KeysIn(a.buf) \subseteq KeysIn(m.buf)
      /\ m.min \in Keys /\ m.max \in Keys /\ m.min <= m.max
      /\ \A k \in KeysIn(m.buf) : m.min <= k /\ k <= m.max
      /\ a.min <= m.min \/ m.min \in R
      /\ m.max <= a.max \/ m.max \in R
  BY DEF Grown
<1>2. CASE m.kids = <<>>
  <2>1. b = m
    BY <1>2 DEF Refreshed
  <2>2. Spans(c, b)
    BY <1>1, <1>2, <2>1 DEF Spans
  <2> QED
    BY <1>1, <2>1, <2>2 DEF Receives
<1>3. CASE m.kids # <<>>
  <2> DEFINE w == m.kids
             f == Node(Head(w))
             g == Node(Last(w))
             lo == IF f.min < m.min THEN f.min ELSE m.min
             hi == IF g.max > m.max THEN g.max ELSE m.max
             q == Ranged(m, lo, hi)
  <2>1. w \in Seq(K) /\ w = a.kids
    BY <1>1 DEF NodeIn
  <2>2. /\ Head(w) = w[1] /\ Last(w) = w[Len(w)] /\ Head(w) \in ToSet(w) /\ Last(w) \in ToSet(w)
    BY <1>3, <2>1, EndsIn
  <2>3. f = c[w[1]] /\ g = c[w[Len(w)]] /\ Spans(c, f) /\ Spans(c, g)
    BY <2>1, <2>2
  <2>4. a.min <= f.min /\ g.max <= a.max
    BY <1>3, <2>1, <2>3 DEF Spans
  <2>5. b = flush_to_disk(q)
    BY <1>1, <1>3, RefreshedIs
  <2>6. /\ NodeIn(q, K, Genuine) /\ q.kids = w /\ q.buf = m.buf /\ q.min = lo /\ q.max = hi
    BY RangeReplaced, RangedLinks
  <2> HIDE DEF f, g, q, w
  <2>7. /\ f.min \in Keys /\ g.max \in Keys
    BY <2>3 DEF Spans
  <2>8. /\ f.min \in Nat /\ g.max \in Nat /\ m.min \in Nat /\ m.max \in Nat /\ a.min \in Nat /\ a.max \in Nat
    BY <1>1, <2>7, SpansNumbers, TreeAssumption
  <2>9. lo \in Keys /\ hi \in Keys /\ lo \in Nat /\ hi \in Nat
    BY <1>1, <2>7, <2>8
  <2>10. lo <= m.min /\ lo <= f.min /\ m.max <= hi /\ g.max <= hi
    BY <2>8
  <2>11. a.min <= lo \/ lo \in R
    BY <1>1, <2>4, <2>8
  <2>12. hi <= a.max \/ hi \in R
    BY <1>1, <2>4, <2>8
  <2> HIDE DEF lo, hi
  <2>13. \A k \in KeysIn(q.buf) : k \in Nat
    BY <2>6, GenuineKeys DEF NodeIn
  <2>14. \A k \in KeysIn(q.buf) : lo <= k /\ k <= hi
    BY <1>1, <2>6, <2>8, <2>9, <2>10, <2>13
  <2>15. lo <= hi
    BY <1>1, <2>8, <2>9, <2>10
  <2>16. Spans(c, q)
    BY <2>3, <2>6, <2>9, <2>10, <2>14, <2>15 DEF Spans
  <2>17. Spans(c, b) /\ b.min = q.min /\ b.max = q.max /\ KeysIn(b.buf) = KeysIn(q.buf)
    BY <2>5, <2>6, <2>16, FlushToDiskSpans, GenuineEntries
  <2> QED
    BY <1>1, <2>6, <2>11, <2>12, <2>17 DEF Receives
<1> QED
  BY <1>2, <1>3

LEMMA DoFlushOrder ==
  ASSUME QueueInv, FilesInv, LiveInv, TreeInv, OrderInv, DoFlush
  PROVE  OrderInv'
<1> DEFINE p == Head(todo).id
           old == cache_[p].kids
           new == NewKids(p)
           n == Len(old)
           hit == HitBy(p)
           chk == Check(p, cache_'[p].kids)
           ops == <<Persist(p)>> \o Commit \o <<chk>>
           mins == Mins(old)
           Part(i) == PartsOf(p)[i]
           made(i) == MadeKids(p)[i]
           R(i) == KeysIn(Part(i))
<1>1. FlushCall(p, old, new, n, hit, chk, ops)
  BY FlushTo
<1> HIDE DEF new, hit, chk, ops
<1>2. /\ ~Doomed /\ ~Splitting /\ Tree = cache_ /\ p \in DOMAIN cache_ /\ UnreadKids(p) = {} /\ cache_[p].kids # <<>>
      /\ Flushes(Tree, Tree', p, n, old, new, hit) /\ Root' = Root
      /\ \A i \in 1..n : Tree'[new[i]] = Refreshed(made(i))
  BY <1>1 DEF FlushCall
<1>3. Shape(cache_, Root) /\ Sorted(cache_, Root) /\ FanoutInv
  BY <1>2 DEF TreeInv, OrderInv
<1>4. /\ DOMAIN mins = 1..n
      /\ \A i \in 1..n :
           /\ mins[i] = cache_[old[i]].min /\ Part(i) \in Seq(Genuine)
           /\ ToSet(Part(i)) = {e \in ToSet(cache_[p].buf) : Rightmost(e.key, mins) = i}
           /\ made(i) = IF Part(i) = <<>> THEN cache_[old[i]] ELSE Rewritten(cache_[old[i]], Part(i))
  BY <1>2, PartsIs, ZenonT(30) DEF LiveInv
<1>5. \A i \in 1..n : old[i] \in DOMAIN cache_ /\ NodeIn(made(i), Known, Genuine)
  BY <1>2, MadeKidsFacts DEF LiveInv
<1>6. /\ old = cache_[p].kids /\ ToSet(old) = {old[i] : i \in 1..n} /\ p \in DOMAIN cache_
  BY <1>2 DEF Flushes
<1>7. ASSUME NEW i \in 1..n PROVE R(i) = RoutedTo(i, cache_[p].buf, mins)
  <2>1. ToSet(Part(i)) = {e \in ToSet(cache_[p].buf) : Rightmost(e.key, mins) = i}
    BY <1>4, <1>7
  <2> HIDE DEF Part, mins, p
  <2> QED
    BY <2>1 DEF KeysIn, RoutedTo
<1>8. \A q \in DOMAIN cache_ : NodeIn(cache_[q], Known, Genuine) /\ Len(cache_[q].kids) <= MAX_FANOUT
  <2>1. \A q \in DOMAIN cache_ : NodeIn(cache_[q], Known, Genuine)
    BY DEF LiveInv, CacheInv
  <2>2. \A q \in DOMAIN cache_ : Len(cache_[q].kids) <= MAX_FANOUT
    BY <1>2, <1>3 DEF FanoutInv
  <2> QED
    BY <2>1, <2>2
<1>9. \A q \in DOMAIN cache_ : Node(q) = cache_[q]
  BY DEF Node
<1> HIDE DEF p, old, n, mins, Part, made, R
<1>10. ASSUME NEW i \in 1..n
       PROVE  /\ Receives(cache_, cache_[old[i]], Tree'[new[i]], R(i))
              /\ KeysIn(cache_[old[i]].buf) \subseteq KeysIn(Tree'[new[i]].buf)
  <2> DEFINE c == cache_
             a == cache_[old[i]]
             m == made(i)
             D == Part(i)
             K == Known
             r == R(i)
             b == Tree'[new[i]]
  <2>1. old[i] \in DOMAIN c \ {Root} /\ ToSet(a.kids) \subseteq DOMAIN c \ {Root}
    <3>1. old[i] \in ToSet(cache_[p].kids)
      BY <1>6, <1>10
    <3>2. old[i] \in DOMAIN cache_
      BY <1>5, <1>10
    <3> QED
      BY <1>3, <1>6, <3>1, <3>2 DEF Shape
  <2>2. Spans(c, a) /\ \A k \in ToSet(a.kids) : Spans(c, c[k]) /\ Node(k) = c[k]
    BY <1>3, <1>9, <2>1 DEF Sorted
  <2>3. NodeIn(a, K, Genuine) /\ Len(a.kids) <= MAX_FANOUT
    BY <1>8, <2>1
  <2>4. D \in Seq(Genuine) /\ m = IF D = <<>> THEN a ELSE Rewritten(a, D)
    BY <1>4, <1>10
  <2>5. r = KeysIn(D)
    BY DEF R
  <2>6. NodeIn(m, K, Genuine) /\ b = Refreshed(m)
    BY <1>2, <1>5, <1>10
  <2> HIDE DEF c, a, m, D, K, r, b
  <2>7. Grown(a, m, r)
    BY <2>2, <2>3, <2>4, <2>5, MadeGrown
  <2>8. Receives(c, a, b, r) /\ KeysIn(a.buf) \subseteq KeysIn(b.buf)
    BY <2>2, <2>6, <2>7, RefreshedReceives
  <2> QED
    BY <2>8 DEF c, a, b, r
<1> DEFINE C == Tree
           D == Tree'
           s == Root
<1>11. /\ Sorted(C, s) /\ Shape(C, s) /\ Flushes(C, D, p, n, old, new, hit)
  BY <1>2, <1>3
<1>12. Hands(C, D, p, n, old, new, mins)
  <2>1. KeysIn(C[p].buf) \subseteq Keys
    BY <1>2, <1>6, <1>8, GenuineKeys DEF NodeIn
  <2>2. \A i \in 1..n : Receives(C, C[old[i]], D[new[i]], RoutedTo(i, C[p].buf, mins))
    BY <1>2, <1>7, <1>10
  <2>3. DOMAIN mins = 1..n /\ \A i \in 1..n : mins[i] = C[old[i]].min
    BY <1>2, <1>4
  <2> QED
    BY <2>1, <2>2, <2>3 DEF Hands
<1>13. C[p].level # 0 /\ IsInjective(old) /\ \A i \in 1..n : KeysIn(C[old[i]].buf) \subseteq KeysIn(D[new[i]].buf)
  BY <1>2, <1>3, <1>6, <1>10 DEF Shape
<1> HIDE DEF C, D, s
<1>14. CutKept(C, D)
  BY ONLY <1>11, <1>13, CutFlushed
<1>15. Sorted(D, s)
  BY ONLY <1>11, <1>12, <1>14, OrderFlush
<1> QED
  BY <1>2, <1>15 DEF D, s, OrderInv

-----------------------------------------------------------------------------
(* All steps *)

LEMMA WorkOrder ==
  ASSUME SmallEntries, QueueInv, FilesInv, LiveInv, TreeInv, EmptyInv, OrderInv, Client \/ Work
  PROVE  OrderInv'
BY ClientOrder, QuietWorkOrder, PersistOrder, InsertChildOrder, DoFlushOrder, SplitOrder DEF Work

LEMMA OrderNext ==
  ASSUME SmallEntries, QueueInv, FilesInv, ScanInv, ShapeInv, ShapeInv', Alive => EmptyInv,
         Alive => OrderInv, [FaultNext]_vars
  PROVE  (Alive => OrderInv)'
<1>1. CASE UNCHANGED vars
  <2>1. UNCHANGED <<cache_, todo, manifest_>> /\ UNCHANGED <<session, status, threw>>
    BY <1>1 DEF vars, memory, life
  <2> QED
    BY <2>1, QuietOrder DEF Alive, Root
<1>2. CASE Client \/ Work
  <2>1. session' = session /\ threw' = threw /\ status # "down"
    BY <1>2, WorkGoesOn
  <2>2. Alive' => LiveInv /\ TreeInv /\ EmptyInv /\ OrderInv
    BY <2>1 DEF ScanInv, ShapeInv, Alive
  <2> QED
    BY <1>2, <2>2, WorkOrder
<1>3. CASE Ending
  <2>1. ~Alive'
    BY <1>3, EndingEnds DEF Alive
  <2> QED
    BY <2>1
<1>4. CASE Open \/ EnsureRoot
  <2>1. Alive' => TreeInv'
    BY DEF ShapeInv
  <2> QED
    BY <1>4, <2>1, FirstSession, FirstOrder
<1> QED
  BY <1>1, <1>2, <1>3, <1>4, AllSteps

OrderLives == SmallEntries /\ Alive => OrderInv

LEMMA OrderStep ==
  ASSUME QueueInv, FilesInv, ScanInv, ShapeInv, ShapeInv', Alive => EmptyInv,
         OrderLives, [FaultNext]_vars
  PROVE  OrderLives'
<1>1. CASE SmallEntries
  <2>1. Alive => OrderInv
    BY <1>1 DEF OrderLives
  <2>2. (Alive => OrderInv)'
    BY <1>1, <2>1, OrderNext
  <2> QED
    BY <2>2 DEF OrderLives
<1>2. CASE ~SmallEntries
  BY <1>2 DEF OrderLives, SmallEntries
<1> QED
  BY <1>1, <1>2

LEMMA OrderInvariant == FaultSpec => []OrderLives
<1>1. Init => OrderLives
  BY DEF Init, Alive, OrderLives
<1>2. QueueInv /\ FilesInv /\ ScanInv /\ ShapeInv /\ ShapeInv' /\ (Alive => EmptyInv)
        /\ OrderLives /\ [FaultNext]_vars => OrderLives'
  BY OrderStep
<1> QED
  BY <1>1, <1>2, EmptyInvariant, TreeInvariant, FilesInvariant, PTL DEF FaultSpec

-----------------------------------------------------------------------------
(* The tree between flushes *)

\* The ranges of the children of q.
LEMMA KidsInOrder ==
  ASSUME NEW c, NEW root, Shape(c, root), Sorted(c, root), NEW q \in DOMAIN c,
         NEW kids, kids = c[q].kids
  PROVE  /\ DOMAIN kids = 1..Len(kids) /\ Len(kids) \in Nat
         /\ \A i \in 1..Len(kids) : /\ kids[i] \in DOMAIN c \ {root} /\ Spans(c, c[kids[i]])
                                    /\ c[kids[i]].min \in Nat /\ c[kids[i]].max \in Nat
                                    /\ c[kids[i]].min <= c[kids[i]].max
         /\ \A i, j \in 1..Len(kids) : i < j =>
              Before(c, kids[i], kids[j]) /\ c[kids[i]].min <= c[kids[j]].min
<1>1. DOMAIN kids = 1..Len(kids) /\ Len(kids) \in Nat
  BY DEF Sorted, IsList
<1>2. ASSUME NEW i \in 1..Len(kids)
      PROVE  /\ kids[i] \in DOMAIN c \ {root} /\ Spans(c, c[kids[i]])
             /\ c[kids[i]].min \in Nat /\ c[kids[i]].max \in Nat
             /\ c[kids[i]].min <= c[kids[i]].max
  <2>1. kids[i] \in ToSet(kids)
    BY <1>1 DEF ToSet
  <2>2. kids[i] \in DOMAIN c \ {root}
    BY <2>1 DEF Shape
  <2>3. Spans(c, c[kids[i]])
    BY <2>2 DEF Sorted
  <2> QED
    BY <2>2, <2>3, SpansNumbers
<1>3. ASSUME NEW i \in 1..Len(kids), NEW j \in 1..Len(kids), i < j
      PROVE  Before(c, kids[i], kids[j]) /\ c[kids[i]].min <= c[kids[j]].min
  <2>1. Before(c, kids[i], kids[j])
    BY <1>3 DEF Sorted, InLine
  <2>2. c[kids[i]].max <= c[kids[j]].min
    BY <2>1 DEF Before
  <2>3. /\ c[kids[i]].min \in Nat /\ c[kids[i]].max \in Nat
        /\ c[kids[i]].min <= c[kids[i]].max /\ c[kids[j]].min \in Nat
    BY <1>2
  <2> QED
    BY <2>1, <2>2, <2>3
<1> QED
  BY <1>1, <1>2, <1>3

\* The order between flushes.
LEMMA IdleOrder ==
  ASSUME SmallEntries, ScanInv, ShapeInv, OrderLives, session = 1, Idle
  PROVE  Sorted(cache_, Root)
<1>1. Alive /\ todo = <<>> /\ ~Splitting /\ ~Doomed
  BY DEF Alive, Idle, Splitting, Doomed, Do
<1>2. Tree = cache_ /\ OrderInv
  BY <1>1, TreeIs DEF OrderLives, ScanInv, LiveInv
<1> QED
  BY <1>1, <1>2 DEF OrderInv

LEMMA IntactTree ==
  ASSUME SmallEntries, ScanInv, ShapeInv, OrderLives, session = 1
  PROVE  TreeIntact
<1> SUFFICES ASSUME Idle
             PROVE  /\ \A id \in Reach : Readable(id)
                    /\ \A id \in Reach : Len(Node(id).kids) \in
                         (IF Node(id).level = 0 THEN {0} ELSE 1..MAX_FANOUT)
                    /\ \A id \in Reach : \A c \in ToSet(Node(id).kids) : Node(c).level = Node(id).level - 1
                    /\ \A p, q \in Reach : \A i \in DOMAIN Node(p).kids, j \in DOMAIN Node(q).kids :
                         Node(p).kids[i] = Node(q).kids[j] => p = q /\ i = j
                    /\ \A id \in Reach : \A i, j \in DOMAIN Node(id).kids :
                         i < j => Mins(Node(id).kids)[i] <= Mins(Node(id).kids)[j]
  BY Zenon DEF TreeIntact
<1>1. /\ Shape(cache_, Root) /\ Reach = DOMAIN cache_ /\ Sorted(cache_, Root)
      /\ \A id \in DOMAIN cache_ : Readable(id) /\ Node(id) = cache_[id] /\ Len(cache_[id].kids) <= MAX_FANOUT
  BY IdleTree, IdleOrder
<1>2. \A id \in Reach : Readable(id)
  BY <1>1
<1>3. ASSUME NEW id \in Reach
      PROVE  Len(Node(id).kids) \in (IF Node(id).level = 0 THEN {0} ELSE 1..MAX_FANOUT)
  <2>1. PICK h : h = cache_[id].kids /\ Node(id) = cache_[id] /\ Len(h) <= MAX_FANOUT
    BY <1>1, <1>3
  <2>2. Len(h) \in Nat /\ DOMAIN h = 1..Len(h)
    BY <1>1, <2>1 DEF Sorted, IsList
  <2>3. h = <<>> <=> cache_[id].level = 0
    BY <1>1, <2>1 DEF Shape
  <2>6. h \in Seq(Known)
    BY <1>1, <1>3, <2>1, IdleTree DEF LiveInv, CacheInv, NodeIn
  <2>4. Len(h) = 0 => h = <<>>
    BY <2>6
  <2>5. h = <<>> => Len(h) = 0
    OBVIOUS
  <2> QED
    BY <2>1, <2>2, <2>3, <2>4, <2>5, TreeAssumption
<1>4. ASSUME NEW id \in Reach, NEW k \in ToSet(Node(id).kids) PROVE Node(k).level = Node(id).level - 1
  <2>1. k \in DOMAIN cache_ /\ cache_[id].level = cache_[k].level + 1 /\ cache_[k].level \in Nat
    BY <1>1, <1>4 DEF Shape
  <2> QED
    BY <1>1, <2>1
<1>5. ASSUME NEW p \in Reach, NEW q \in Reach, NEW i \in DOMAIN Node(p).kids, NEW j \in DOMAIN Node(q).kids,
             Node(p).kids[i] = Node(q).kids[j]
      PROVE  p = q /\ i = j
  <2>1. p \in DOMAIN cache_ /\ q \in DOMAIN cache_ /\ Node(p) = cache_[p] /\ Node(q) = cache_[q]
    BY <1>1
  <2>4. PICK k : k = Node(p).kids[i]
    OBVIOUS
  <2>5. k \in ToSet(cache_[p].kids) /\ k \in ToSet(cache_[q].kids)
    BY <1>5, <2>1, <2>4 DEF ToSet
  <2>6. \A x, y \in DOMAIN cache_ : \A z \in ToSet(cache_[x].kids) \cap ToSet(cache_[y].kids) : x = y
    BY <1>1 DEF Shape
  <2>2. p = q
    BY <2>1, <2>5, <2>6
  <2>3. IsInjective(Node(p).kids)
    BY <1>1 DEF Shape
  <2> QED
    BY <1>5, <2>2, <2>3 DEF IsInjective
<1>6. ASSUME NEW id \in Reach, NEW i \in DOMAIN Node(id).kids, NEW j \in DOMAIN Node(id).kids, i < j
      PROVE  Mins(Node(id).kids)[i] <= Mins(Node(id).kids)[j]
  <2> DEFINE h == cache_[id].kids
  <2>1. Node(id).kids = h /\ id \in DOMAIN cache_
    BY <1>1
  <2>2. i \in 1..Len(h) /\ j \in 1..Len(h) /\ h[i] \in DOMAIN cache_ /\ h[j] \in DOMAIN cache_
        /\ cache_[h[i]].min <= cache_[h[j]].min
    BY <1>1, <1>6, <2>1, KidsInOrder
  <2> HIDE DEF h
  <2>3. Mins(h)[i] = cache_[h[i]].min /\ Mins(h)[j] = cache_[h[j]].min
    BY <1>1, <1>6, <2>1, <2>2 DEF Mins
  <2> QED
    BY <2>1, <2>2, <2>3
<1> QED
  BY <1>2, <1>3, <1>4, <1>5, <1>6

\* Between flushes every node is readable, has at most MAX_FANOUT children one level
\* down that no other node names, and lists them by min_key (Node::split_leaf,
\* insert_child and do_flush keep that; tree.cpp:400-560).
THEOREM TreeAlwaysIntact == FaultSpec => [](SmallEntries /\ session = 1 => TreeIntact)
<1>1. SmallEntries /\ ScanInv /\ ShapeInv /\ OrderLives /\ session = 1 => TreeIntact
  BY IntactTree
<1> QED
  BY <1>1, OrderInvariant, TreeInvariant, PTL

-----------------------------------------------------------------------------
(* Paths *)

\* The node that find_path goes to from node x for key k.
PathStep(k, x) ==
  IF ~Readable(x) THEN x
  ELSE LET n == Node(x)
           unread == {j \in DOMAIN n.kids : ~Readable(n.kids[j])}
       IN  n.kids[Min({LeftScan(k, Mins(n.kids))} \cup unread)]

\* The first n nodes of find_path for key k.
PathIs(g, k, n) == g = [i \in 1..n |-> IF i = 1 THEN Root ELSE PathStep(k, g[i - 1])]

LEMMA PathExists ==
  ASSUME NEW k, NEW n \in Nat
  PROVE  \E g : PathIs(g, k, n + 1)
<1> DEFINE T == {m \in Nat : \E g : PathIs(g, k, m + 1)}
<1>1. 0 \in T
  <2> DEFINE g == [i \in 1..1 |-> Root]
  <2>1. \A i \in 1..1 : i = 1
    OBVIOUS
  <2>2. g = [i \in 1..1 |-> IF i = 1 THEN Root ELSE PathStep(k, g[i - 1])]
    BY <2>1
  <2>3. PathIs(g, k, 1)
    BY <2>2, Zenon DEF PathIs
  <2>4. 0 + 1 = 1
    OBVIOUS
  <2> HIDE DEF g
  <2> QED
    BY <2>3, <2>4
<1>2. ASSUME NEW m \in Nat, m \in T PROVE m + 1 \in T
  <2>1. PICK f : PathIs(f, k, m + 1)
    BY <1>2
  <2>2. f = [i \in 1..m + 1 |-> IF i = 1 THEN Root ELSE PathStep(k, f[i - 1])]
    BY <2>1, Zenon DEF PathIs
  <2> DEFINE l == m + 1
             g == [i \in 1..l + 1 |-> IF i = l + 1 THEN PathStep(k, f[l]) ELSE f[i]]
  <2>3. \A i \in 1..l : g[i] = f[i]
    OBVIOUS
  <2>4. ASSUME NEW i \in 1..l + 1
        PROVE  g[i] = IF i = 1 THEN Root ELSE PathStep(k, g[i - 1])
    <3>1. CASE i = l + 1
      <4>1. i # 1 /\ i - 1 = l /\ l \in 1..l
        BY <3>1
      <4>2. g[i - 1] = f[l]
        BY <2>3, <4>1
      <4> QED
        BY <3>1, <4>1, <4>2
    <3>2. CASE i \in 1..l /\ i # 1
      <4>1. i - 1 \in 1..l
        BY <3>2
      <4>2. g[i] = f[i] /\ g[i - 1] = f[i - 1]
        BY <2>3, <3>2, <4>1
      <4> HIDE DEF g
      <4> QED
        BY <2>2, <3>2, <4>2
    <3>3. CASE i = 1
      <4>1. 1 \in 1..l
        OBVIOUS
      <4>2. g[1] = f[1] /\ f[1] = Root
        BY <2>2, <2>3, <4>1
      <4> QED
        BY <3>3, <4>2
    <3> QED
      BY <3>1, <3>2, <3>3
  <2>5. g = [i \in 1..l + 1 |-> g[i]]
    OBVIOUS
  <2> HIDE DEF g, l
  <2>6. g = [i \in 1..l + 1 |-> IF i = 1 THEN Root ELSE PathStep(k, g[i - 1])]
    BY <2>4, <2>5
  <2>7. PathIs(g, k, l + 1)
    BY <2>6, Zenon DEF PathIs
  <2> QED
    BY <2>7 DEF l
<1> HIDE DEF T
<1>3. Nat \subseteq T
  BY <1>1, <1>2, SetInduction
<1> QED
  BY <1>3 DEF T

LEMMA PathSteps ==
  ASSUME NEW k, NEW n \in Nat, n = RootLevel
  PROVE  /\ DOMAIN find_path(k) = 1..n + 1 /\ find_path(k)[1] = Root
         /\ \A i \in 1..n + 1 : i # 1 => find_path(k)[i] = PathStep(k, find_path(k)[i - 1])
<1> DEFINE f == CHOOSE g : PathIs(g, k, RootLevel + 1)
<1>1. find_path(k) = f
  BY Zenon DEF find_path, PathIs, PathStep
<1>2. PathIs(f, k, n + 1)
  BY PathExists
<1> HIDE DEF f
<1> DEFINE g == [i \in 1..n + 1 |-> IF i = 1 THEN Root ELSE PathStep(k, f[i - 1])]
<1>3. f = g
  BY <1>2, Zenon DEF PathIs
<1>4. DOMAIN f = 1..n + 1
  BY <1>3
<1>5. ASSUME NEW i \in 1..n + 1
      PROVE  f[i] = IF i = 1 THEN Root ELSE PathStep(k, f[i - 1])
  <2>1. g[i] = IF i = 1 THEN Root ELSE PathStep(k, f[i - 1])
    BY Zenon
  <2> HIDE DEF g
  <2> QED
    BY <1>3, <2>1
<1>6. 1 \in 1..n + 1
  OBVIOUS
<1> HIDE DEF g
<1>7. f[1] = Root
  BY <1>5, <1>6
<1>8. \A i \in 1..n + 1 : i # 1 => f[i] = PathStep(k, f[i - 1])
  BY <1>5
<1> QED
  BY <1>1, <1>4, <1>7, <1>8

\* With all nodes in memory and the children in order, find_path goes to the last child
\* whose min_key is not above k.
LEMMA PathStepIs ==
  ASSUME CacheInv, NEW k \in Nat, NEW x \in DOMAIN cache_, NEW h, h = cache_[x].kids,
         NEW n \in Nat \ {0}, DOMAIN h = 1..n, \A i \in 1..n : h[i] \in DOMAIN cache_,
         \A i \in 1..n : cache_[h[i]].min \in Nat,
         \A i, j \in 1..n : i < j => cache_[h[i]].min <= cache_[h[j]].min
  PROVE  \E r \in 1..n : /\ PathStep(k, x) = h[r] /\ (r # 1 => cache_[h[r]].min <= k)
                         /\ \A j \in 1..n : r < j => k < cache_[h[j]].min
<1> DEFINE mins == Mins(h)
           r == Rightmost(k, mins)
<1>1. \A i \in 1..n : Readable(h[i]) /\ Node(h[i]) = cache_[h[i]]
  BY ReadableCached
<1>2. mins = [i \in 1..n |-> cache_[h[i]].min]
  BY <1>1 DEF Mins
<1> HIDE DEF mins
<1>3. mins \in Seq(Nat) /\ DOMAIN mins = 1..n /\ \A i \in 1..n : mins[i] = cache_[h[i]].min
  <2>1. [i \in 1..n |-> cache_[h[i]].min] \in [1..n -> Nat]
    OBVIOUS
  <2>2. mins \in [1..n -> Nat]
    BY <1>2, <2>1
  <2>3. mins \in Seq(Nat)
    BY <2>2, SeqDef
  <2> QED
    BY <1>2, <2>2, <2>3
<1>4. Ordered(mins)
  BY <1>3, SMTT(30) DEF Ordered
<1>5. r = LeftScan(k, mins)
  BY <1>3, <1>4, RoutingAgrees
<1>6. r \in 1..n /\ (r # 1 => mins[r] <= k) /\ \A j \in 1..n : r < j => k < mins[j]
  BY <1>3, RightmostBounds
<1> HIDE DEF r
<1>7. Readable(x) /\ Node(x) = cache_[x]
  BY ReadableCached
<1>8. {j \in DOMAIN h : ~Readable(h[j])} = {}
  BY <1>1
<1>9. PathStep(k, x) = h[Min({LeftScan(k, mins)} \cup {j \in DOMAIN h : ~Readable(h[j])})]
  BY <1>7, Zenon DEF PathStep, mins
<1>10. Min({r} \cup {}) = r
  <2>1. r \in Int
    BY <1>6
  <2> QED
    BY <2>1 DEF Min
<1>11. PathStep(k, x) = h[r]
  BY <1>5, <1>8, <1>9, <1>10
<1> QED
  BY <1>3, <1>6, <1>11

\* Key k is in the range of node q of c; the root takes all keys.
Holds(c, root, q, k) == q = root \/ (c[q].min <= k /\ k <= c[q].max)

\* The parent of a node that holds a key holds it.
LEMMA HoldsUp ==
  ASSUME NEW c, NEW root, Shape(c, root), Sorted(c, root), NEW k \in Nat,
         NEW p \in DOMAIN c, NEW q \in ToSet(c[p].kids), Holds(c, root, q, k)
  PROVE  Holds(c, root, p, k)
<1> DEFINE h == c[p].kids
           n == Len(h)
<1>1. /\ DOMAIN h = 1..n /\ n \in Nat
      /\ \A i \in 1..n : /\ h[i] \in DOMAIN c \ {root}
                         /\ c[h[i]].min \in Nat /\ c[h[i]].max \in Nat
                         /\ c[h[i]].min <= c[h[i]].max
      /\ \A i, j \in 1..n : i < j => Before(c, h[i], h[j]) /\ c[h[i]].min <= c[h[j]].min
  BY KidsInOrder
<1>2. PICK i \in 1..n : q = h[i]
  BY <1>1 DEF ToSet
<1>3. q # root /\ c[q].min <= k /\ k <= c[q].max /\ c[q].min \in Nat /\ c[q].max \in Nat
  BY <1>1, <1>2 DEF Holds
<1>4. n \in Nat \ {0}
  BY <1>1, <1>2
<1>5. p = root \/ Spans(c, c[p])
  BY DEF Sorted
<1>9. h # <<>>
  BY <1>4
<1> HIDE DEF h, n
<1>6. Holds(c, root, p, k)
  <2>1. CASE p = root
    BY <2>1 DEF Holds
  <2>2. CASE Spans(c, c[p])
    <3>1. c[p].min \in Nat /\ c[p].max \in Nat
      BY <2>2, SpansNumbers
    <3>2. c[p].min <= c[h[1]].min /\ c[h[n]].max <= c[p].max
      BY <2>2, <1>9 DEF Spans, h, n
    <3>3. c[h[1]].min <= c[q].min /\ c[h[1]].min \in Nat
      <4>1. CASE i = 1
        BY <1>1, <1>2, <4>1, <1>3
      <4>2. CASE i # 1
        <5>1. 1 \in 1..n /\ 1 < i
          BY <1>4, <4>2
        <5> QED
          BY <1>1, <1>2, <5>1
      <4> QED
        BY <4>1, <4>2
    <3>4. c[q].max <= c[h[n]].max /\ c[h[n]].max \in Nat
      <4>1. CASE i = n
        BY <1>1, <1>2, <4>1, <1>3
      <4>2. CASE i # n
        <5>1. n \in 1..n /\ i < n
          BY <1>2, <1>4, <4>2
        <5>2. c[q].max <= c[h[n]].min
          BY <1>1, <1>2, <5>1 DEF Before
        <5> QED
          BY <1>1, <1>3, <5>1, <5>2
      <4> QED
        BY <4>1, <4>2
    <3> QED
      BY <1>3, <3>1, <3>2, <3>3, <3>4 DEF Holds
  <2> QED
    BY <1>5, <2>1, <2>2
<1> QED
  BY <1>6

\* From a node p, find_path goes to the child q that holds the key.
LEMMA PathDown ==
  ASSUME CacheInv, NEW c, c = cache_, NEW root, Shape(c, root), Sorted(c, root), NEW k \in Nat,
         NEW p \in DOMAIN c, NEW q \in ToSet(c[p].kids), Holds(c, root, q, k)
  PROVE  PathStep(k, p) = q \/ Cut(c, k)
<1> DEFINE h == c[p].kids
           n == Len(h)
<1>1. /\ DOMAIN h = 1..n /\ n \in Nat
      /\ \A i \in 1..n : /\ h[i] \in DOMAIN c \ {root}
                         /\ c[h[i]].min \in Nat /\ c[h[i]].max \in Nat
                         /\ c[h[i]].min <= c[h[i]].max
      /\ \A i, j \in 1..n : i < j => Before(c, h[i], h[j]) /\ c[h[i]].min <= c[h[j]].min
  BY KidsInOrder
<1>2. PICK i \in 1..n : q = h[i]
  BY <1>1 DEF ToSet
<1>3. q # root /\ c[q].min <= k /\ k <= c[q].max /\ c[q].min \in Nat /\ c[q].max \in Nat
  BY <1>1, <1>2 DEF Holds
<1>4. n \in Nat \ {0}
  BY <1>1, <1>2
<1> HIDE DEF h, n
<1>7. PICK r \in 1..n : /\ PathStep(k, p) = h[r] /\ (r # 1 => c[h[r]].min <= k)
                        /\ \A j \in 1..n : r < j => k < c[h[j]].min
  <2>1. h = cache_[p].kids /\ p \in DOMAIN cache_
    BY DEF h
  <2>2. \A j \in 1..n : h[j] \in DOMAIN cache_ /\ cache_[h[j]].min \in Nat
    BY <1>1
  <2>3. \A j, m \in 1..n : j < m => cache_[h[j]].min <= cache_[h[m]].min
    BY <1>1
  <2> QED
    BY <1>1, <1>4, <2>1, <2>2, <2>3, PathStepIs
<1>8. PathStep(k, p) = q \/ Cut(c, k)
  <2>1. ~(r < i)
    BY <1>2, <1>3, <1>7
  <2>2. CASE r = i
    BY <1>2, <1>7, <2>2
  <2>3. CASE i < r
    <3>1. Before(c, q, h[r]) /\ r # 1
      BY <1>1, <1>2, <2>3
    <3>2. c[q].max <= c[h[r]].min /\ c[h[r]].min <= k /\ c[h[r]].min \in Nat
      BY <1>1, <1>7, <3>1 DEF Before
    <3>3. c[q].max = c[h[r]].min /\ c[q].max = k
      BY <1>3, <3>2
    <3> QED
      BY <3>1, <3>3 DEF Before
  <2> QED
    BY <1>2, <1>7, <2>1, <2>2, <2>3
<1> QED
  BY <1>8

\* The nodes whose range holds a key are on its path, unless the key was cut apart.
LEMMA PathHolds ==
  ASSUME CacheInv, NEW c, c = cache_, Shape(c, Root), Sorted(c, Root), NEW k \in Nat,
         NEW x \in DOMAIN c, Holds(c, Root, x, k)
  PROVE  x \in ToSet(find_path(k)) \/ Cut(c, k)
<1> DEFINE n == RootLevel
           R == Root
           f == find_path(k)
<1>1. RootLevel = c[Root].level /\ n \in Nat /\ R \in DOMAIN c
  BY ReadableCached DEF Shape, RootLevel
<1>2. /\ DOMAIN f = 1..n + 1 /\ f[1] = R
      /\ \A i \in 1..n + 1 : i # 1 => f[i] = PathStep(k, f[i - 1])
  BY <1>1, PathSteps
<1>3. \A q \in DOMAIN c : /\ c[q].level \in Nat /\ c[q].level <= n
                          /\ q # R => \E p \in DOMAIN c : /\ q \in ToSet(c[p].kids)
                                                          /\ c[p].level = c[q].level + 1
  BY <1>1 DEF Shape
<1>4. Shape(c, R) /\ Sorted(c, R) /\ Holds(c, R, x, k)
  OBVIOUS
<1>5. c[R].level = n
  BY <1>1
<1> HIDE DEF f, n, R
<1> DEFINE T == {i \in Nat : \A q \in DOMAIN c : c[q].level + i = n /\ Holds(c, R, q, k) =>
                                f[i + 1] = q \/ Cut(c, k)}
<1>6. 0 \in T
  <2> SUFFICES ASSUME NEW q \in DOMAIN c, c[q].level + 0 = n PROVE f[0 + 1] = q
    OBVIOUS
  <2>1. q = R
    BY <1>1, <1>3
  <2> QED
    BY <1>2, <2>1
<1>7. ASSUME NEW i \in Nat, i \in T PROVE i + 1 \in T
  <2> SUFFICES ASSUME NEW q \in DOMAIN c, c[q].level + (i + 1) = n, Holds(c, R, q, k)
               PROVE  f[(i + 1) + 1] = q \/ Cut(c, k)
    OBVIOUS
  <2>1. q # R /\ c[q].level \in Nat
    BY <1>1, <1>3, <1>5
  <2>2. PICK p \in DOMAIN c : q \in ToSet(c[p].kids) /\ c[p].level = c[q].level + 1
    BY <1>3, <2>1
  <2>3. Holds(c, R, p, k) /\ (PathStep(k, p) = q \/ Cut(c, k))
    BY <1>4, <2>2, HoldsUp, PathDown
  <2>4. c[p].level + i = n
    BY <2>1, <2>2
  <2>5. f[i + 1] = p \/ Cut(c, k)
    BY <1>7, <2>3, <2>4
  <2>6. (i + 1) + 1 \in 1..n + 1 /\ (i + 1) + 1 # 1 /\ ((i + 1) + 1) - 1 = i + 1
    BY <1>1, <2>1
  <2>7. f[(i + 1) + 1] = PathStep(k, f[i + 1])
    BY <1>2, <2>6
  <2> QED
    BY <2>3, <2>5, <2>7
<1> HIDE DEF T
<1>8. Nat \subseteq T
  BY <1>6, <1>7, SetInduction
<1>9. n - c[x].level \in Nat /\ c[x].level + (n - c[x].level) = n
      /\ (n - c[x].level) + 1 \in 1..n + 1
  <2>1. c[x].level \in Nat /\ c[x].level <= n /\ n \in Nat
    BY <1>1, <1>3
  <2> QED
    BY <2>1
<1>10. f[(n - c[x].level) + 1] = x \/ Cut(c, k)
  BY <1>4, <1>8, <1>9 DEF T
<1>11. ToSet(f) = {f[i] : i \in 1..n + 1}
  BY <1>2 DEF ToSet
<1>12. x \in ToSet(f) \/ Cut(c, k)
  BY <1>9, <1>10, <1>11
<1> QED
  BY <1>12 DEF f

\* A key that was cut apart has versions in two leaves of the tree.
LEMMA CutStraddles ==
  ASSUME CacheInv, Reach = DOMAIN cache_, NEW k, Cut(cache_, k)
  PROVE  Straddles(k)
<1> DEFINE S == {id \in Reach : /\ Readable(id) /\ Node(id).level = 0
                                /\ \E e \in ToSet(Node(id).buf) : e.key = k}
<1>1. PICK x, y \in DOMAIN cache_ : /\ x # y /\ cache_[x].level = 0 /\ cache_[y].level = 0
                                    /\ k \in KeysIn(cache_[x].buf) /\ k \in KeysIn(cache_[y].buf)
  BY DEF Cut
<1>2. \A z \in {x, y} : Readable(z) /\ Node(z) = cache_[z]
  BY <1>1, ReadableCached
<1>3. x \in S /\ y \in S
  BY <1>1, <1>2 DEF KeysIn
<1>4. S \subseteq Known
  BY DEF CacheInv
<1> HIDE DEF S
<1>5. IsFiniteSet(S)
  <2>1. S \in SUBSET Nat /\ manifest_.next \in Nat /\ \A s \in S : s <= manifest_.next
    BY <1>4 DEF CacheInv, Known
  <2> QED
    BY <2>1, FS_BoundedSetOfNaturals
<1>6. Cardinality(S) \in Nat /\ Cardinality(S) # 0
  BY <1>3, <1>5, FS_CardinalityType, FS_EmptySet
<1>7. Cardinality(S) # 1
  BY <1>1, <1>3, <1>5, FS_Singleton
<1>8. Cardinality(S) > 1
  BY <1>6, <1>7
<1> QED
  BY <1>8 DEF Straddles, S

LEMMA PathsFind ==
  ASSUME SmallEntries, ScanInv, ShapeInv, OrderLives, session = 1
  PROVE  EntriesOnPath
<1> SUFFICES ASSUME Idle, NEW id \in Reach, NEW e \in ToSet(Node(id).buf)
             PROVE  id \in ToSet(find_path(e.key)) \/ Straddles(e.key)
  BY Zenon DEF EntriesOnPath
<1>1. /\ Shape(cache_, Root) /\ Reach = DOMAIN cache_ /\ Sorted(cache_, Root) /\ LiveInv
      /\ \A q \in DOMAIN cache_ : Node(q) = cache_[q]
  BY IdleTree, IdleOrder
<1>2. CacheInv
  BY <1>1 DEF LiveInv
<1>3. id \in DOMAIN cache_ /\ e \in ToSet(cache_[id].buf)
  BY <1>1
<1>4. e.key \in KeysIn(cache_[id].buf)
  BY <1>3 DEF KeysIn
<1>5. cache_[id].buf \in Seq(Genuine)
  BY <1>2, <1>3 DEF CacheInv, NodeIn
<1>6. e.key \in Nat
  BY <1>4, <1>5, GenuineKeys
<1>7. Holds(cache_, Root, id, e.key)
  <2>1. id # Root => Spans(cache_, cache_[id])
    BY <1>1, <1>3 DEF Sorted
  <2> QED
    BY <1>4, <2>1 DEF Spans, Holds
<1>8. id \in ToSet(find_path(e.key)) \/ Cut(cache_, e.key)
  BY <1>1, <1>2, <1>3, <1>6, <1>7, PathHolds
<1>9. Cut(cache_, e.key) => Straddles(e.key)
  BY <1>1, <1>2, CutStraddles
<1> QED
  BY <1>8, <1>9

\* Between flushes every entry is in a node that find_path visits for its key, unless
\* its key was cut apart by a split (tree.cpp:168-185 against flush.cpp:10-40).
THEOREM RoutingFindsPlacement == FaultSpec => [](SmallEntries /\ session = 1 => EntriesOnPath)
<1>1. SmallEntries /\ ScanInv /\ ShapeInv /\ OrderLives /\ session = 1 => EntriesOnPath
  BY PathsFind
<1> QED
  BY <1>1, OrderInvariant, TreeInvariant, PTL

-----------------------------------------------------------------------------
(* Age *)

\* Of a key that was not cut apart, the versions nearer to the root are newer.
Aged(c) ==
  \A p, q \in DOMAIN c : c[q].level < c[p].level =>
    \A e \in ToSet(c[p].buf), f \in ToSet(c[q].buf) :
      e.key = f.key => f.seq <= e.seq \/ Cut(c, e.key)

\* The buffers are sorted.
Tidy(c) == \A q \in DOMAIN c : InOrder(c[q].buf)

\* The write buffer w has newer versions than the nodes.
Younger(c, w) ==
  \A e \in ToSet(w), q \in DOMAIN c : \A f \in ToSet(c[q].buf) : e.key = f.key => f.seq <= e.seq

AgeOrder(c, w) == Aged(c) /\ Tidy(c) /\ Younger(c, w) /\ InOrder(w)

AgeInv == ~Doomed => AgeOrder(Tree, write_buf)

\* Every entry of d is in c, in a node of the same level.
Stays(c, d) ==
  \A q \in DOMAIN d : \A e \in ToSet(d[q].buf) :
    \E p \in DOMAIN c : c[p].level = d[q].level /\ e \in ToSet(c[p].buf)

LEMMA AgeKept ==
  ASSUME NEW c, NEW d, NEW w, AgeOrder(c, w), CutKept(c, d), Stays(c, d), Tidy(d)
  PROVE  AgeOrder(d, w)
<1>1. ASSUME NEW p \in DOMAIN d, NEW q \in DOMAIN d, d[q].level < d[p].level,
             NEW e \in ToSet(d[p].buf), NEW f \in ToSet(d[q].buf), e.key = f.key
      PROVE  f.seq <= e.seq \/ Cut(d, e.key)
  <2>1. PICK x \in DOMAIN c : c[x].level = d[p].level /\ e \in ToSet(c[x].buf)
    BY DEF Stays
  <2>2. PICK y \in DOMAIN c : c[y].level = d[q].level /\ f \in ToSet(c[y].buf)
    BY DEF Stays
  <2>3. f.seq <= e.seq \/ Cut(c, e.key)
    BY <1>1, <2>1, <2>2 DEF AgeOrder, Aged
  <2> QED
    BY <2>3 DEF CutKept
<1>2. Younger(d, w)
  BY DEF Younger, Stays, AgeOrder
<1> QED
  BY <1>1, <1>2 DEF AgeOrder, Aged

\* Two nodes of a level whose ranges hold the same key.
LEMMA SameLevel ==
  ASSUME NEW c, NEW root, Shape(c, root), Sorted(c, root), NEW k \in Nat,
         NEW x \in DOMAIN c, NEW y \in DOMAIN c, c[x].level = c[y].level, x # y,
         Holds(c, root, x, k), Holds(c, root, y, k)
  PROVE  Cut(c, k)
<1> DEFINE n == c[root].level
           T == {i \in Nat : \A u, v \in DOMAIN c :
                   /\ c[u].level + i = n /\ c[v].level = c[u].level /\ u # v
                   /\ Holds(c, root, u, k) /\ Holds(c, root, v, k)
                   => Cut(c, k)}
<1>1. \A q \in DOMAIN c : /\ c[q].level \in Nat /\ c[q].level <= n
                          /\ q # root => \E p \in DOMAIN c : /\ q \in ToSet(c[p].kids)
                                                             /\ c[p].level = c[q].level + 1
  BY DEF Shape
<1>2. n \in Nat /\ root \in DOMAIN c /\ c[root].level = n
  BY DEF Shape
<1> HIDE DEF n
<1>3. 0 \in T
  <2> SUFFICES ASSUME NEW u \in DOMAIN c, NEW v \in DOMAIN c, c[u].level + 0 = n,
                      c[v].level = c[u].level, u # v
               PROVE  FALSE
    OBVIOUS
  <2>1. u = root /\ v = root
    BY <1>1, <1>2
  <2> QED
    BY <2>1
<1>4. ASSUME NEW i \in Nat, i \in T PROVE i + 1 \in T
  <2> SUFFICES ASSUME NEW u \in DOMAIN c, NEW v \in DOMAIN c, c[u].level + (i + 1) = n,
                      c[v].level = c[u].level, u # v, Holds(c, root, u, k), Holds(c, root, v, k)
               PROVE  Cut(c, k)
    OBVIOUS
  <2>1. u # root /\ v # root /\ c[u].level \in Nat
    BY <1>1, <1>2
  <2>2. PICK p \in DOMAIN c : u \in ToSet(c[p].kids) /\ c[p].level = c[u].level + 1
    BY <1>1, <2>1
  <2>3. PICK q \in DOMAIN c : v \in ToSet(c[q].kids) /\ c[q].level = c[v].level + 1
    BY <1>1, <2>1
  <2>4. Holds(c, root, p, k) /\ Holds(c, root, q, k)
    BY <2>2, <2>3, HoldsUp
  <2>5. CASE p # q
    <3>1. c[p].level + i = n /\ c[q].level = c[p].level
      BY <2>1, <2>2, <2>3
    <3> QED
      BY <1>4, <2>4, <2>5, <3>1
  <2>6. CASE p = q
    <3> DEFINE h == c[p].kids
    <3>1. /\ DOMAIN h = 1..Len(h) /\ Len(h) \in Nat
          /\ \A a, b \in 1..Len(h) : a < b => Before(c, h[a], h[b])
      BY KidsInOrder
    <3>2. PICK a \in 1..Len(h) : u = h[a]
      BY <2>2, <3>1 DEF ToSet
    <3>3. PICK b \in 1..Len(h) : v = h[b]
      BY <2>3, <2>6, <3>1 DEF ToSet
    <3>4. Before(c, u, v) \/ Before(c, v, u)
      <4>1. a < b \/ b < a
        BY <3>1, <3>2, <3>3
      <4> QED
        BY <3>1, <3>2, <3>3, <4>1
    <3> HIDE DEF h
    <3>5. /\ c[u].min <= k /\ k <= c[u].max /\ c[v].min <= k /\ k <= c[v].max
          /\ Spans(c, c[u]) /\ Spans(c, c[v])
      BY <2>1 DEF Holds, Sorted
    <3>6. /\ c[u].min \in Nat /\ c[u].max \in Nat /\ c[v].min \in Nat /\ c[v].max \in Nat
      BY <3>5, SpansNumbers
    <3>7. CASE Before(c, u, v)
      <4>1. c[u].max = c[v].min /\ c[u].max = k
        BY <3>5, <3>6, <3>7 DEF Before
      <4> QED
        BY <3>7, <4>1 DEF Before
    <3>8. CASE Before(c, v, u)
      <4>1. c[v].max = c[u].min /\ c[v].max = k
        BY <3>5, <3>6, <3>8 DEF Before
      <4> QED
        BY <3>8, <4>1 DEF Before
    <3> QED
      BY <3>4, <3>7, <3>8
  <2> QED
    BY <2>5, <2>6
<1> HIDE DEF T
<1>5. Nat \subseteq T
  BY <1>3, <1>4, SetInduction
<1>6. n - c[x].level \in Nat /\ c[x].level + (n - c[x].level) = n
  <2>1. c[x].level \in Nat /\ c[x].level <= n
    BY <1>1
  <2> QED
    BY <1>2, <2>1
<1> QED
  BY <1>5, <1>6 DEF T

\* A new entry goes in front of the first that is not below it.
LEMMA SkiplistInsertOrder ==
  ASSUME NEW E, IsEntries(E), NEW s \in Seq(E), NEW x \in E, InOrder(s)
  PROVE  InOrder(skiplist_insert(s, x))
<1> DEFINE m == Len(s)
           L == {i \in DOMAIN s : Less(s[i], x)}
           n == Cardinality(L)
           a == SubSeq(s, 1, n)
           b == SubSeq(s, n + 1, Len(s))
           t == a \o <<x>> \o b
<1>1. m \in Nat /\ DOMAIN s = 1..m /\ \A i \in 1..m : s[i] \in E
  OBVIOUS
<1>2. ASSUME NEW i \in 1..m, NEW j \in 1..m, j < i, Less(s[i], x) PROVE Less(s[j], x)
  <2>1. ~Less(s[i], s[j])
    BY <1>1, <1>2 DEF InOrder
  <2>2. /\ s[i].key \in Nat /\ s[i].seq \in Nat /\ s[j].key \in Nat /\ s[j].seq \in Nat
        /\ x.key \in Nat /\ x.seq \in Nat
    BY <1>1 DEF IsEntries
  <2> QED
    BY <1>2, <2>1, <2>2 DEF Less
<1>3. n \in 0..m /\ L = 1..n
  <2>1. L \subseteq 1..m /\ \A i \in L, j \in 1..m : j < i => j \in L
    BY <1>1, <1>2
  <2> HIDE DEF L
  <2> QED
    BY <1>1, <2>1, InitialPositions
<1>4. (\A i \in 1..n : Less(s[i], x)) /\ \A i \in n + 1..m : ~Less(s[i], x)
  <2>1. \A i \in 1..m : i \in L <=> Less(s[i], x)
    BY <1>1
  <2> HIDE DEF L, n
  <2> QED
    BY <1>1, <1>3, <2>1
<1>5. skiplist_insert(s, x) = t
  BY DEF skiplist_insert
<1> HIDE DEF L, n
<1>6. Len(a) = n /\ (\A i \in 1..n : a[i] = s[i]) /\ a \in Seq(E)
  BY <1>1, <1>3, SubSeqProperties
<1>7. Len(b) = m - n /\ (\A i \in 1..m - n : b[i] = s[n + i]) /\ b \in Seq(E)
  <2> DEFINE z == n + 1
  <2>1. z \in 1..m + 1 /\ (m - z) + 1 = m - n /\ b = SubSeq(s, z, m)
    BY <1>1, <1>3
  <2> HIDE DEF z, b
  <2>2. Len(b) = (m - z) + 1 /\ b \in Seq(E) /\ \A i \in 1..(m - z) + 1 : b[i] = s[(z + i) - 1]
    BY <1>1, <2>1, SubSeqProperties
  <2>3. \A i \in 1..m - n : (z + i) - 1 = n + i
    BY <1>1, <1>3 DEF z
  <2> QED
    BY <2>1, <2>2, <2>3
<1> HIDE DEF a, b
<1>8. /\ Len(t) = m + 1 /\ DOMAIN t = 1..m + 1
      /\ \A i \in 1..n : t[i] = s[i]
      /\ t[n + 1] = x
      /\ \A i \in n + 2..m + 1 : t[i] = s[i - 1]
  <2>1. a \o <<x>> \in Seq(E) /\ Len(a \o <<x>>) = n + 1
        /\ (\A i \in 1..n : (a \o <<x>>)[i] = s[i]) /\ (a \o <<x>>)[n + 1] = x
    BY <1>1, <1>3, <1>6
  <2> DEFINE u == a \o <<x>>
  <2> HIDE DEF u
  <2>2. /\ u \o b \in Seq(E) /\ Len(u \o b) = Len(u) + Len(b)
        /\ \A i \in 1..Len(u) : (u \o b)[i] = u[i]
        /\ \A i \in 1..Len(b) : (u \o b)[Len(u) + i] = b[i]
    <3>1. u \in Seq(E)
      BY <2>1 DEF u
    <3> QED
      BY <1>7, <3>1, ConcatIs
  <2>3. Len(u) = n + 1 /\ (\A i \in 1..n : u[i] = s[i]) /\ u[n + 1] = x
    BY <2>1 DEF u
  <2>4. t = u \o b
    BY DEF u
  <2> HIDE DEF t
  <2>5. Len(t) = m + 1 /\ DOMAIN t = 1..m + 1
    BY <1>1, <1>3, <1>7, <2>2, <2>3, <2>4
  <2>6. \A i \in 1..n + 1 : t[i] = u[i]
    BY <2>2, <2>3, <2>4
  <2>7. (\A i \in 1..n : t[i] = s[i]) /\ t[n + 1] = x
    BY <1>3, <2>3, <2>6
  <2>8. ASSUME NEW i \in n + 2..m + 1 PROVE t[i] = s[i - 1]
    <3>1. i - (n + 1) \in 1..m - n /\ n + (i - (n + 1)) = i - 1 /\ (n + 1) + (i - (n + 1)) = i
      BY <1>1, <1>3
    <3>2. t[(n + 1) + (i - (n + 1))] = b[i - (n + 1)]
      BY <1>7, <2>2, <2>3, <2>4, <3>1
    <3> QED
      BY <1>7, <3>1, <3>2
  <2> QED
    BY <2>5, <2>7, <2>8
<1> HIDE DEF t
<1>9. ASSUME NEW i \in 1..m + 1, NEW j \in 1..m + 1, i < j PROVE ~Less(t[j], t[i])
  <2>1. CASE j = n + 1
    <3>1. Less(t[i], x) /\ t[j] = x /\ t[i] \in E
      BY <1>1, <1>3, <1>4, <1>8, <1>9, <2>1
    <3>2. t[i].key \in Nat /\ t[i].seq \in Nat /\ x.key \in Nat /\ x.seq \in Nat
      BY <3>1 DEF IsEntries
    <3> QED
      BY <3>1, <3>2 DEF Less
  <2>2. CASE i = n + 1
    <3>1. j \in n + 2..m + 1 /\ j - 1 \in n + 1..m
      BY <1>1, <1>3, <1>9, <2>2
    <3> QED
      BY <1>4, <1>8, <2>2, <3>1
  <2>3. CASE i \in 1..n /\ j \in 1..n
    BY <1>1, <1>3, <1>8, <1>9, <2>3 DEF InOrder
  <2>4. CASE i \in 1..n /\ j \in n + 2..m + 1
    <3>1. t[i] = s[i] /\ t[j] = s[j - 1] /\ i \in 1..m /\ j - 1 \in 1..m /\ i < j - 1
      BY <1>1, <1>3, <1>8, <2>4
    <3> QED
      BY <1>1, <3>1 DEF InOrder
  <2>5. CASE i \in n + 2..m + 1 /\ j \in n + 2..m + 1
    <3>1. t[i] = s[i - 1] /\ t[j] = s[j - 1] /\ i - 1 \in 1..m /\ j - 1 \in 1..m /\ i - 1 < j - 1
      BY <1>1, <1>3, <1>8, <1>9, <2>5
    <3> QED
      BY <1>1, <3>1 DEF InOrder
  <2>6. i \in 1..n \/ i = n + 1 \/ i \in n + 2..m + 1
    BY <1>3
  <2>7. j \in 1..n \/ j = n + 1 \/ j \in n + 2..m + 1
    BY <1>3
  <2>8. ~(i \in n + 2..m + 1 /\ j \in 1..n)
    BY <1>3, <1>9
  <2> QED
    BY <2>1, <2>2, <2>3, <2>4, <2>5, <2>6, <2>7, <2>8
<1> QED
  BY <1>5, <1>8, <1>9 DEF InOrder

-----------------------------------------------------------------------------
(* Steps of the clients and steps that hardly touch the tree keep the age order *)

LEMMA TreeBufs ==
  ASSUME LiveInv, TreeInv, ~Doomed
  PROVE  /\ DOMAIN Tree = DOMAIN cache_
         /\ \A q \in DOMAIN cache_ : /\ Tree[q].buf = cache_[q].buf /\ Tree[q].level = cache_[q].level
                                     /\ cache_[q].buf \in Seq(Genuine)
                                     /\ ToSet(cache_[q].buf) \subseteq Genuine
<1>1. \A q \in DOMAIN cache_ : cache_[q].buf \in Seq(Genuine)
  BY DEF LiveInv, CacheInv, NodeIn
<1>2. \A q \in DOMAIN cache_ : ToSet(cache_[q].buf) \subseteq Genuine
  BY <1>1, ToSetFacts
<1>3. CASE ~Splitting
  <2>1. Tree = cache_
    BY <1>3, TreeIs
  <2> QED
    BY <1>1, <1>2, <2>1
<1>4. CASE Splitting
  <2> DEFINE op == Head(todo)
  <2>1. /\ DOMAIN Tree = DOMAIN cache_ /\ \A q \in DOMAIN cache_ : q # op.id => Tree[q] = cache_[q]
        /\ Tree[op.id].level = cache_[op.id].level /\ Tree[op.id].buf = cache_[op.id].buf
    BY <1>4, TreeSplitting DEF LiveInv, TreeInv
  <2> QED
    BY <1>1, <1>2, <2>1
<1> QED
  BY <1>3, <1>4

\* One node changes its buffer without losing a key or getting an entry.
LEMMA AgeOne ==
  ASSUME NEW c, NEW d, NEW w, AgeOrder(c, w), NEW p \in DOMAIN c,
         DOMAIN d = DOMAIN c, \A q \in DOMAIN c \ {p} : d[q] = c[q], SameLinks(d[p], c[p]),
         KeysIn(c[p].buf) \subseteq KeysIn(d[p].buf), ToSet(d[p].buf) \subseteq ToSet(c[p].buf),
         InOrder(d[p].buf)
  PROVE  AgeOrder(d, w)
<1>1. CutKept(c, d)
  <2>1. \A q \in DOMAIN c : c[q].level = 0 =>
          q \in DOMAIN d /\ d[q].level = 0 /\ KeysIn(c[q].buf) \subseteq KeysIn(d[q].buf)
    BY DEF SameLinks
  <2> QED
    BY <2>1, CutSame
<1>2. Stays(c, d)
  BY DEF Stays, SameLinks
<1>3. Tidy(d)
  BY DEF Tidy, AgeOrder
<1> QED
  BY <1>1, <1>2, <1>3, AgeKept

\* The batch w goes into the root r.
LEMMA MergeAge ==
  ASSUME NEW c, NEW r, Shape(c, r), NEW w, AgeOrder(c, w), NEW d, DOMAIN d = DOMAIN c,
         \A q \in DOMAIN c \ {r} : d[q] = c[q], d[r].level = c[r].level,
         ToSet(d[r].buf) = ToSet(c[r].buf) \cup ToSet(w), InOrder(d[r].buf)
  PROVE  AgeOrder(d, <<>>)
<1>1. /\ r \in DOMAIN c /\ \A q \in DOMAIN c : c[q].level \in Nat /\ c[q].level <= c[r].level
  BY DEF Shape
<1>2. CutKept(c, d)
  <2>1. \A q \in DOMAIN c : c[q].level = 0 =>
          q \in DOMAIN d /\ d[q].level = 0 /\ KeysIn(c[q].buf) \subseteq KeysIn(d[q].buf)
    BY DEF KeysIn
  <2> QED
    BY <2>1, CutSame
<1>3. ASSUME NEW p \in DOMAIN d, NEW q \in DOMAIN d, d[q].level < d[p].level,
             NEW e \in ToSet(d[p].buf), NEW f \in ToSet(d[q].buf), e.key = f.key
      PROVE  f.seq <= e.seq \/ Cut(d, e.key)
  <2>1. q # r /\ d[q] = c[q] /\ c[q].level < c[p].level
    BY <1>1, <1>3
  <2>2. CASE e \in ToSet(c[p].buf)
    <3>1. f.seq <= e.seq \/ Cut(c, e.key)
      BY <1>3, <2>1, <2>2 DEF AgeOrder, Aged
    <3> QED
      BY <1>2, <3>1 DEF CutKept
  <2>3. CASE e \in ToSet(w)
    BY <1>3, <2>1, <2>3 DEF AgeOrder, Younger
  <2> QED
    BY <1>3, <2>2, <2>3
<1>4. Tidy(d)
  BY DEF Tidy, AgeOrder
<1>5. ToSet(<<>>) = {}
  BY DEF ToSet
<1>6. Younger(d, <<>>) /\ InOrder(<<>>)
  BY <1>5 DEF Younger, InOrder
<1> QED
  BY <1>3, <1>4, <1>6 DEF AgeOrder, Aged

\* The clients either leave everything alone, write to the write buffer or drain it.
LEMMA ClientKinds ==
  ASSUME LiveInv, TreeInv, Client
  PROVE  \/ UNCHANGED <<cache_, todo, write_buf>>
         \/ UNCHANGED <<cache_, todo>> /\ \E x : /\ write_buf' = skiplist_insert(write_buf, x)
                                                 /\ x.seq = seq_ /\ x.key \in Keys
         \/ write_buf' = <<>> /\ (UNCHANGED <<cache_, todo>> \/ Drains)
<1>1. ASSUME NEW k \in Keys, Get(k) PROVE UNCHANGED <<cache_, todo, write_buf>>
  <2>1. cache_' = cache_
    BY <1>1, ReadableCached DEF Get, LiveInv
  <2> QED
    BY <1>1, <2>1 DEF Get
<1>2. ASSUME NEW k \in Keys, remove(k) \/ \E sz \in Sizes : insert(k, sz)
      PROVE  UNCHANGED <<cache_, todo>> /\ \E x : /\ write_buf' = skiplist_insert(write_buf, x)
                                                  /\ x.seq = seq_ /\ x.key \in Keys
  <2>1. PICK del, sz : Write(k, del, sz)
    BY <1>2 DEF remove, insert
  <2> DEFINE x == Entry(k, writes + 1, seq_, del, sz)
  <2>2. UNCHANGED <<cache_, todo>> /\ write_buf' = skiplist_insert(write_buf, x)
    BY <2>1 DEF Write, memory
  <2>3. x.seq = seq_ /\ x.key = k
    BY DEF Entry
  <2> HIDE DEF x
  <2> QED
    BY <2>2, <2>3
<1>3. CASE RequestFlush
  BY <1>3 DEF RequestFlush, memory, disk
<1>4. CASE BackgroundFlush \/ Flush \/ Close
  <2>1. write_buf' = <<>>
    BY <1>4 DEF BackgroundFlush, Flush, Close, PersistRoot, Drain
  <2>2. UNCHANGED <<cache_, todo, manifest_>> \/ Drains
    BY ClientIs
  <2> QED
    BY <2>1, <2>2
<1> QED
  BY <1>1, <1>2, <1>3, <1>4 DEF Client

LEMMA QuietAge ==
  ASSUME AgeInv, UNCHANGED <<cache_, todo, write_buf>>
  PROVE  AgeInv'
BY DEF AgeInv, Tree, Splitting, Doomed, Do

\* A write.
LEMMA WriteAge ==
  ASSUME LiveInv, TreeInv, AgeInv, UNCHANGED <<cache_, todo>>,
         NEW x, write_buf' = skiplist_insert(write_buf, x), x.seq = seq_, x.key \in Keys
  PROVE  AgeInv'
<1>1. (Doomed' <=> Doomed) /\ Tree' = Tree
  BY DEF Tree, Splitting, Doomed, Do
<1> SUFFICES ASSUME ~Doomed PROVE AgeOrder(Tree, write_buf')
  BY <1>1 DEF AgeInv
<1> DEFINE w == write_buf
           c == Tree
           E == Genuine \cup {x}
<1>2. AgeOrder(c, w)
  BY DEF AgeInv
<1>3. /\ w \in Seq(Genuine) /\ writes \in Nat /\ seq_ = writes + 1
      /\ \A k \in Keys : latest[k].seq \in 0..writes
  BY DEF LiveInv, WritesInv
<1>4. w \in Seq(E) /\ IsEntries(E) /\ x \in E
  <2>1. \A e \in Genuine : e.key \in Nat /\ e.seq \in Nat
    BY GenuineEntries DEF IsEntries
  <2>0. Keys \subseteq Nat
    BY TreeAssumption
  <2>2. x.key \in Nat /\ x.seq \in Nat
    <3>1. x.key \in Nat
      BY ONLY <2>0, x.key \in Keys
    <3>2. x.seq = writes + 1 /\ writes \in Nat
      BY <1>3
    <3> QED
      BY ONLY <3>1, <3>2
  <2>3. w \in Seq(E)
    BY <1>3
  <2> QED
    BY <2>1, <2>2, <2>3 DEF IsEntries
<1> HIDE DEF w, E
<1>5. InOrder(skiplist_insert(w, x)) /\ ToSet(skiplist_insert(w, x)) = ToSet(w) \cup {x}
  BY <1>2, <1>4, SkiplistInsertOrder, SkiplistInsertFacts DEF AgeOrder
<1>6. \A q \in DOMAIN c : \A f \in ToSet(c[q].buf) : f.seq <= x.seq
  <2> SUFFICES ASSUME NEW q \in DOMAIN c, NEW f \in ToSet(c[q].buf) PROVE f.seq <= x.seq
    OBVIOUS
  <2>1. f \in Genuine
    BY TreeBufs
  <2>2. f.key \in Keys /\ f.seq \in Nat /\ f.seq <= latest[f.key].seq
    BY <2>1 DEF Genuine
  <2> QED
    BY <1>3, <2>2
<1> HIDE DEF c
<1>7. Younger(c, skiplist_insert(w, x))
  BY <1>2, <1>5, <1>6 DEF Younger, AgeOrder
<1> QED
  BY <1>2, <1>5, <1>7 DEF AgeOrder, w, c

LEMMA ClientAge ==
  ASSUME LiveInv, TreeInv, AgeInv, Client
  PROVE  AgeInv'
<1>1. CASE UNCHANGED <<cache_, todo, write_buf>>
  BY <1>1, QuietAge
<1>2. CASE UNCHANGED <<cache_, todo>> /\ \E x : /\ write_buf' = skiplist_insert(write_buf, x)
                                                /\ x.seq = seq_ /\ x.key \in Keys
  BY <1>2, WriteAge
<1>3. CASE write_buf' = <<>> /\ UNCHANGED <<cache_, todo>>
  <2>1. (Doomed' <=> Doomed) /\ Tree' = Tree
    BY <1>3 DEF Tree, Splitting, Doomed, Do
  <2>2. ToSet(<<>>) = {}
    BY DEF ToSet
  <2>3. Younger(Tree, <<>>) /\ InOrder(<<>>)
    BY <2>2 DEF Younger, InOrder
  <2> QED
    BY <1>3, <2>1, <2>3 DEF AgeInv, AgeOrder
<1>4. CASE write_buf' = <<>> /\ Drains
  <2> DEFINE r == Root
             c == cache_
             d == cache_'
             w == write_buf
             n == Merged
  <2>1. /\ ~Splitting /\ ~Doomed /\ Tree = cache_ /\ Tree' = cache_' /\ r \in DOMAIN c
        /\ d = [c EXCEPT ![r].buf = n]
    BY <1>4, TreeIs DEF Drains, Splitting, Doomed, Do
  <2>2. Shape(c, r) /\ AgeOrder(c, w)
    BY <2>1 DEF AgeInv, TreeInv
  <2>3. NodeIn(c[r], Known, Genuine) /\ c[r].buf \in Seq(Genuine) /\ w \in Seq(Genuine)
        /\ Node(r) = c[r]
    BY <2>1 DEF LiveInv, CacheInv, WritesInv, NodeIn, Node
  <2>4. ToSet(n) = ToSet(c[r].buf) \cup ToSet(w) /\ InOrder(n)
    <3> DEFINE b == c[r].buf
    <3>1. n = StableSort(b \o w) /\ b \in Seq(Genuine) /\ w \in Seq(Genuine)
      BY <2>3 DEF Merged
    <3> HIDE DEF b, w, n, c
    <3>2. b \o w \in Seq(Genuine) /\ ToSet(b \o w) = ToSet(b) \cup ToSet(w)
      BY <3>1, ToSetConcat
    <3>3. ToSet(n) = ToSet(b \o w) /\ InOrder(n)
      BY <3>1, <3>2, SortFacts, GenuineEntries
    <3> QED
      BY <3>2, <3>3 DEF b
  <2> HIDE DEF c, d, r, n, w
  <2>5. /\ DOMAIN d = DOMAIN c /\ \A q \in DOMAIN c \ {r} : d[q] = c[q]
        /\ d[r] = [c[r] EXCEPT !.buf = n]
    BY <2>1
  <2>6. d[r].level = c[r].level /\ d[r].buf = n
    BY <2>3, <2>5 DEF NodeIn
  <2>7. AgeOrder(d, <<>>)
    BY <2>2, <2>4, <2>5, <2>6, MergeAge
  <2> QED
    BY <1>4, <2>1, <2>7 DEF AgeInv, d
<1> QED
  BY <1>1, <1>2, <1>3, <1>4, ClientKinds

\* Work under cache_mu_ that leaves tree and buffers alone.
LEMMA QuietWorkAge ==
  ASSUME QueueInv, FilesInv, LiveInv, TreeInv, AgeInv,
         Done \/ Return \/ Opened \/ SaveManifest \/ CollectGarbage \/ CheckChild
  PROVE  AgeInv'
<1>0. UNCHANGED write_buf
  BY DEF Done, Return, Opened, SaveManifest, CollectGarbage, CheckChild, memory
<1>1. CASE UNCHANGED <<cache_, todo>>
  BY <1>0, <1>1, QuietAge
<1>2. ASSUME UNCHANGED cache_, NEW ops, IsSeq(ops), Call(ops), \A x \in ToSet(ops) : x.op # "insert_child",
             todo # <<>>, ~Splitting
      PROVE  AgeInv'
  <2>1. ops # <<>> => Head(ops).op # "insert_child"
    BY <1>2, FirstIn
  <2>2. ~Splitting' /\ ~Doomed
    BY <1>2, <2>1, NextCall DEF Splitting, Do, LiveInv, Doomed
  <2>3. Tree = cache_ /\ Tree' = cache_
    BY <1>2, <2>2, TreeIs
  <2> QED
    BY <1>0, <2>2, <2>3 DEF AgeInv
<1>3. CASE UNCHANGED cache_ /\ Call(<<>>)
  <2>1. todo # <<>> /\ ~Splitting
    BY DEF Done, Return, Opened, SaveManifest, CollectGarbage, CheckChild, Do, Splitting
  <2>2. IsSeq(<<>>) /\ ToSet(<<>>) = {}
    BY CallsNone DEF Calls, ToSet
  <2> QED
    BY <1>2, <1>3, <2>1, <2>2
<1>4. CASE CheckChild
  <2>1. todo # <<>> /\ ~Splitting /\ ~Doomed /\ UNCHANGED cache_
    BY <1>4 DEF CheckChild, Do, Splitting, Doomed, memory
  <2>2. StackOK
    BY <2>1 DEF TreeInv
  <2>3. PICK ops : IsSeq(ops) /\ Call(ops) /\ \A x \in ToSet(ops) : x.op # "insert_child"
    BY <1>4, <2>2, CheckCalls
  <2> QED
    BY <1>2, <2>1, <2>3
<1> QED
  BY <1>1, <1>3, <1>4 DEF Done, Return, Opened, SaveManifest, CollectGarbage, memory, disk

\* The rewrite of a node in place.
LEMMA PersistAge ==
  ASSUME QueueInv, FilesInv, LiveInv, TreeInv, AgeInv, PersistNode
  PROVE  AgeInv'
<1> DEFINE id == Head(todo).id
           c == cache_
           d == cache_'
           n == flush_to_disk(c[id])
<1>1. /\ todo # <<>> /\ ~Splitting /\ ~Doomed /\ id \in DOMAIN c
      /\ d = [c EXCEPT ![id] = n] /\ Call(<<>>) /\ UNCHANGED write_buf
  BY DEF PersistNode, Do, Splitting, Doomed, LiveInv, CallsInv, CallReady
<1>2. IsSeq(<<>>) /\ ToSet(<<>>) = {}
  BY CallsNone DEF Calls, ToSet
<1>3. ~Splitting'
  BY <1>1, <1>2, NextCall DEF Splitting, Do, LiveInv, TreeInv
<1>4. Tree = c /\ Tree' = d
  BY <1>1, <1>3, TreeIs
<1>5. NodeIn(c[id], Known, Genuine) /\ c[id].buf \in Seq(Genuine)
  BY <1>1 DEF LiveInv, CacheInv, NodeIn
<1>6. AgeOrder(c, write_buf)
  BY <1>1, <1>4 DEF AgeInv
<1> HIDE DEF id, c, d
<1>7. SameLinks(n, c[id]) /\ n.buf = sort_buffer(c[id].buf)
  BY <1>5, FlushToDiskIs
<1>8. InOrder(n.buf) /\ ToSet(n.buf) \subseteq ToSet(c[id].buf) /\ KeysIn(n.buf) = KeysIn(c[id].buf)
  BY ONLY <1>5, <1>7, CleanBuf, GenuineEntries
<1> HIDE DEF n
<1>9. DOMAIN d = DOMAIN c /\ (\A q \in DOMAIN c \ {id} : d[q] = c[q]) /\ d[id] = n
  BY <1>1
<1>10. AgeOrder(d, write_buf)
  BY <1>1, <1>6, <1>7, <1>8, <1>9, AgeOne
<1> QED
  BY <1>1, <1>4, <1>10 DEF AgeInv

\* insert_child into a parent with a free slot.
LEMMA InsertChildAge ==
  ASSUME QueueInv, FilesInv, LiveInv, TreeInv, EmptyInv, AgeInv, InsertChild
  PROVE  AgeInv'
<1> DEFINE op == Head(todo)
           p == op.id
           c == Tree
           d == Tree'
           w == c[p].kids
           n == Spanning(c[p], Node(Head(w)), Node(Last(w)))
           ops == <<Persist(p)>>
<1>1. /\ todo # <<>> /\ Splitting /\ ~Doomed /\ p \in DOMAIN cache_
      /\ cache_' = [cache_ EXCEPT ![p] = n] /\ Call(ops) /\ UNCHANGED manifest_
  BY InsertChildEffect
<1>2. StackOK /\ AgeOrder(c, write_buf)
  BY <1>1 DEF TreeInv, AgeInv
<1>3. /\ DOMAIN c = DOMAIN cache_ /\ \A q \in DOMAIN cache_ : q # p => c[q] = cache_[q]
      /\ NodeIn(c[p], Known, Genuine)
  BY <1>1, <1>2, TreeSplitting DEF LiveInv
<1>4. UNCHANGED write_buf
  BY DEF InsertChild
<1>6. IsSeq(ops) /\ Head(ops) = Persist(p) /\ ops # <<>>
  BY CallsOne DEF Calls, Persist
<1>7. ~Splitting'
  BY <1>1, <1>6, NextCall DEF Splitting, Do, LiveInv, Persist
<1>8. d = cache_'
  BY <1>1, <1>7, TreeIs
<1>12. SameLinks(n, c[p]) /\ n.buf = c[p].buf
  <2>1. NodeIn(c[p], Known, Genuine) /\ n = Spanning(c[p], Node(Head(w)), Node(Last(w)))
    BY <1>3
  <2> HIDE DEF n, c, w, p
  <2> QED
    BY <2>1, SpanningIs
<1> HIDE DEF n, op, p, c, d, ops
<1>14. DOMAIN d = DOMAIN c /\ (\A q \in DOMAIN c \ {p} : d[q] = c[q]) /\ d[p] = n /\ p \in DOMAIN c
  BY <1>1, <1>3, <1>8
<1>15. InOrder(c[p].buf)
  BY <1>2, <1>14 DEF AgeOrder, Tidy
<1>16. AgeOrder(d, write_buf)
  BY <1>2, <1>12, <1>14, <1>15, AgeOne
<1> QED
  BY <1>4, <1>16 DEF AgeInv, d

\* An empty leaf and an empty write buffer.
LEMMA FirstAge ==
  ASSUME TreeInv', EnsureRoot, write_buf = <<>>
  PROVE  AgeInv'
<1> DEFINE e == << >>
           root == create(0, e, e)
           o == [op |-> "opened"]
<1>1. todo' = <<Save, o>> /\ \E m : cache_' = [id \in {m} |-> root]
  BY DEF EnsureRoot
<1>2. Head(todo') = Save /\ Save.op = "save"
  BY <1>1, PairFacts DEF Save
<1>3. ~Splitting' /\ ~Doomed'
  BY <1>2 DEF Splitting, Do, Doomed
<1>4. Tree' = cache_' /\ Shape(Tree', Root')
  BY <1>3, TreeIs DEF TreeInv
<1>5. DOMAIN Tree' = {Root'} /\ Tree'[Root'] = root
  BY <1>1, <1>4 DEF Shape
<1>6. root.buf = <<>>
  <2> DEFINE G == Genuine
             z == 0
  <2>1. e \in Seq(G) /\ IsEntries(G) /\ Len(e) <= MAX_FANOUT
    BY GenuineEntries, TreeAssumption
  <2>2. root.buf = sort_buffer(e)
    BY DEF create
  <2> HIDE DEF e, G, z
  <2>3. sort_buffer(e) = <<>>
    BY <2>1, SortBufferEmpty DEF e
  <2> QED
    BY <2>2, <2>3
<1> HIDE DEF root
<1>7. ToSet(<<>>) = {} /\ InOrder(<<>>)
  BY DEF ToSet, InOrder
<1>8. write_buf' = <<>>
  BY DEF EnsureRoot, Load
<1>9. Aged(Tree') /\ Tidy(Tree')
  BY <1>5, <1>6, <1>7 DEF Aged, Tidy
<1>10. Younger(Tree', write_buf')
  BY <1>7, <1>8 DEF Younger
<1> QED
  BY <1>3, <1>7, <1>8, <1>9, <1>10 DEF AgeInv, AgeOrder

-----------------------------------------------------------------------------
(* Splits keep the age order *)

\* The entries of the node gone fall into a and b, which are l and r in d; a new root
\* has none.
Shared(c, d, gone, l, r, a, b) ==
  /\ l \in DOMAIN d /\ r \in DOMAIN d /\ d[l] = a /\ d[r] = b
  /\ \A q \in DOMAIN c \ {gone} : q \in DOMAIN d /\ d[q].level = c[q].level /\ d[q].buf = c[q].buf
  /\ \A q \in DOMAIN d : q \in {l, r} \/ q \in DOMAIN c \ {gone} \/ d[q].buf = <<>>
  /\ \A h \in {a, b} : /\ h.level = c[gone].level
                       /\ InOrder(h.buf) /\ ToSet(h.buf) \subseteq ToSet(c[gone].buf)

LEMMA AgeCut ==
  ASSUME NEW c, NEW d, NEW w, AgeOrder(c, w), NEW root, NEW gone, NEW l, NEW r, NEW a, NEW b,
         CutHalves(c, root, gone, l, r, a, b), Shared(c, d, gone, l, r, a, b)
  PROVE  AgeOrder(d, w)
<1>0. /\ l \in DOMAIN d /\ r \in DOMAIN d /\ d[l] = a /\ d[r] = b
      /\ \A q \in DOMAIN c \ {gone} : q \in DOMAIN d /\ d[q].level = c[q].level /\ d[q].buf = c[q].buf
      /\ \A q \in DOMAIN d : q \in {l, r} \/ q \in DOMAIN c \ {gone} \/ d[q].buf = <<>>
      /\ \A h \in {a, b} : /\ h.level = c[gone].level
                           /\ InOrder(h.buf) /\ ToSet(h.buf) \subseteq ToSet(c[gone].buf)
  BY DEF Shared
<1>1. CutKept(c, d)
  BY <1>0, HalvesInOrder
<1>2. InOrder(<<>>) /\ ToSet(<<>>) = {}
  BY DEF InOrder, ToSet
<1>3. Tidy(d)
  BY <1>0, <1>2 DEF Tidy, AgeOrder
<1>4. gone \in DOMAIN c
  BY DEF CutHalves
<1>5. Stays(c, d)
  <2> SUFFICES ASSUME NEW q \in DOMAIN d, NEW e \in ToSet(d[q].buf)
               PROVE  \E p \in DOMAIN c : c[p].level = d[q].level /\ e \in ToSet(c[p].buf)
    BY DEF Stays
  <2>1. CASE q \in {l, r}
    BY <1>0, <1>4, <2>1
  <2>2. CASE q \in DOMAIN c \ {gone}
    BY <1>0, <2>2
  <2>3. CASE d[q].buf = <<>>
    BY <1>2, <2>3
  <2>4. q \in {l, r} \/ q \in DOMAIN c \ {gone} \/ d[q].buf = <<>>
    BY <1>0
  <2> QED
    BY ONLY <2>1, <2>2, <2>3, <2>4
<1> QED
  BY <1>1, <1>3, <1>5, AgeKept

LEMMA SplitKeepsAge ==
  ASSUME AgeInv, NEW x, NEW parent, NEW l, NEW r, NEW a, NEW b, NodeCut(x, parent, l, r, a, b)
  PROVE  AgeInv'
<1> SUFFICES ASSUME ~Doomed' PROVE AgeOrder(Tree, write_buf)'
  BY DEF AgeInv
<1> DEFINE c == Tree
           d == Tree'
           w == write_buf
           root == Root
<1>1. /\ AgeOrder(c, w) /\ w = write_buf'
      /\ CutHalves(c, root, x, l, r, a, b)
      /\ \A h \in {a, b} : /\ h.level = c[x].level
                           /\ InOrder(h.buf) /\ ToSet(h.buf) \subseteq ToSet(c[x].buf)
  BY DEF NodeCut, AgeInv
<1>2. /\ l \in DOMAIN d /\ r \in DOMAIN d /\ d[l] = a /\ d[r] = b
      /\ \A q \in DOMAIN c \ {x} : q \in DOMAIN d /\ d[q].level = c[q].level /\ d[q].buf = c[q].buf
      /\ \A q \in DOMAIN d : q \in {l, r} \/ q \in DOMAIN c \ {x} \/ d[q].buf = <<>>
  <2>1. CASE x = Root
    <3>1. SplitsRoot(c, d, x, Root', l, r, a, b)
      BY <2>1 DEF NodeCut
    <3> HIDE DEF c, d
    <3> QED
      BY <3>1 DEF SplitsRoot
  <2>2. CASE x # Root
    <3>1. Splits(c, d, x, parent, l, r, a, b)
      BY <2>2 DEF NodeCut
    <3> HIDE DEF c, d
    <3> QED
      BY <3>1 DEF Splits
  <2> QED
    BY <2>1, <2>2
<1> HIDE DEF c, d, w, root
<1>3. Shared(c, d, x, l, r, a, b)
  BY <1>1, <1>2 DEF Shared
<1>4. AgeOrder(d, w)
  BY <1>1, <1>3, AgeCut
<1> QED
  BY <1>1, <1>4 DEF d

LEMMA SplitAge ==
  ASSUME SmallEntries, QueueInv, FilesInv, LiveInv, TreeInv, EmptyInv, OrderInv, AgeInv,
         SplitLeaf \/ SplitParent
  PROVE  AgeInv'
BY SplitLeafCut, SplitParentCut, SplitKeepsAge

-----------------------------------------------------------------------------
(* A flush keeps the age order *)

\* Where the entry e of node y of d comes from: a node of c at the same level, or p, one
\* level above.
Comes(c, d, p, y, e) ==
  \/ \E s \in DOMAIN c : c[s].level = d[y].level /\ e \in ToSet(c[s].buf)
  \/ d[y].level + 1 = c[p].level /\ e \in ToSet(c[p].buf)

\* Children that receive entries of p get no other.
Pushes(c, d, p, n, old, new) ==
  \A i \in 1..n : /\ InOrder(d[new[i]].buf)
                  /\ ToSet(d[new[i]].buf) \subseteq ToSet(c[old[i]].buf) \cup ToSet(c[p].buf)

LEMMA PushedFrom ==
  ASSUME NEW c, NEW d, NEW root, Shape(c, root), NEW p, NEW n, NEW old, NEW new, NEW hit,
         Flushes(c, d, p, n, old, new, hit), Pushes(c, d, p, n, old, new),
         NEW y \in DOMAIN d, NEW e \in ToSet(d[y].buf)
  PROVE  Comes(c, d, p, y, e)
<1>1. /\ p \in DOMAIN c /\ old = c[p].kids /\ DOMAIN old = 1..n
      /\ ToSet(old) = {old[i] : i \in 1..n} /\ ToSet(new) = {new[i] : i \in 1..n}
      /\ \A i \in 1..n : old[i] \in DOMAIN c /\ SameLinks(d[new[i]], c[old[i]])
      /\ d[p].buf = <<>>
      /\ y = p \/ y \in ToSet(new) \/ (y \in DOMAIN c \ (ToSet(old) \cup {p}) /\ d[y] = c[y])
  BY DEF Flushes
<1>2. CASE y = p
  <2>1. ToSet(<<>>) = {}
    BY DEF ToSet
  <2> QED
    BY <1>1, <1>2, <2>1
<1>3. CASE y \in DOMAIN c /\ d[y] = c[y]
  BY <1>3 DEF Comes
<1>4. CASE y \in ToSet(new)
  <2>1. PICK i \in 1..n : y = new[i]
    BY <1>1, <1>4
  <2>2. c[p].level = c[old[i]].level + 1 /\ d[y].level = c[old[i]].level
    BY <1>1, <2>1 DEF Shape, SameLinks
  <2>3. e \in ToSet(c[old[i]].buf) \/ e \in ToSet(c[p].buf)
    BY <2>1 DEF Pushes
  <2> QED
    BY <1>1, <2>1, <2>2, <2>3 DEF Comes
<1> QED
  BY <1>1, <1>2, <1>3, <1>4

LEMMA AgeFlush ==
  ASSUME NEW c, NEW d, NEW w, AgeOrder(c, w), NEW root, Shape(c, root), Sorted(c, root), CutKept(c, d),
         NEW p, NEW n, NEW old, NEW new, NEW hit,
         Flushes(c, d, p, n, old, new, hit), Pushes(c, d, p, n, old, new),
         \A q \in DOMAIN c : \A e \in ToSet(c[q].buf) : e.key \in Nat
  PROVE  AgeOrder(d, w)
<1>1. /\ p \in DOMAIN c /\ d[p].level = c[p].level /\ d[p].buf = <<>>
      /\ ToSet(new) = {new[i] : i \in 1..n}
      /\ \A q \in DOMAIN d : q = p \/ q \in ToSet(new) \/ (q \in DOMAIN c \ {p} /\ d[q] = c[q])
  BY DEF Flushes
<1>2. ToSet(<<>>) = {} /\ InOrder(<<>>)
  BY DEF ToSet, InOrder
<1>3. \A y \in DOMAIN d : \A e \in ToSet(d[y].buf) : Comes(c, d, p, y, e)
  BY PushedFrom
<1>4. Younger(d, w)
  <2>1. \A y \in DOMAIN d : \A e \in ToSet(d[y].buf) : \E s \in DOMAIN c : e \in ToSet(c[s].buf)
    BY <1>1, <1>3 DEF Comes
  <2> QED
    BY <2>1 DEF Younger, AgeOrder
<1>5. Tidy(d)
  <2> SUFFICES ASSUME NEW q \in DOMAIN d PROVE InOrder(d[q].buf)
    BY DEF Tidy
  <2>1. CASE q = p
    BY <1>1, <1>2, <2>1
  <2>2. CASE q \in ToSet(new)
    BY <1>1, <2>2 DEF Pushes
  <2>3. CASE q \in DOMAIN c /\ d[q] = c[q]
    BY <2>3 DEF Tidy, AgeOrder
  <2> QED
    BY <1>1, <2>1, <2>2, <2>3
<1>6. \A q \in DOMAIN c : c[q].level \in Nat
  BY DEF Shape
<1>7. ASSUME NEW i \in 1..n PROVE d[new[i]].level \in Nat /\ d[new[i]].level + 1 = c[p].level
  <2>1. /\ old = c[p].kids /\ DOMAIN old = 1..n /\ ToSet(old) = {old[j] : j \in 1..n}
        /\ old[i] \in DOMAIN c /\ d[new[i]].level = c[old[i]].level
    BY <1>7 DEF Flushes, SameLinks
  <2>2. old[i] \in ToSet(c[p].kids)
    BY <1>7, <2>1
  <2>3. c[p].level = c[old[i]].level + 1
    BY <1>1, <2>2 DEF Shape
  <2> QED
    BY <1>6, <2>1, <2>3
\* Nodes of the same level as p.
<1>8. ASSUME NEW x \in DOMAIN c, c[x].level = c[p].level, x # p,
             NEW e \in ToSet(c[x].buf), NEW f \in ToSet(c[p].buf), e.key = f.key
      PROVE  Cut(c, e.key)
  <2> DEFINE k == e.key
  <2>1. k \in Nat /\ k \in KeysIn(c[x].buf) /\ k \in KeysIn(c[p].buf)
    BY <1>1, <1>8 DEF KeysIn
  <2> HIDE DEF k
  <2>2. Holds(c, root, x, k)
    BY <1>8, <2>1 DEF Holds, Sorted, Spans
  <2>3. Holds(c, root, p, k)
    BY <1>1, <2>1 DEF Holds, Sorted, Spans
  <2>4. Cut(c, k)
    BY <1>1, <1>8, <2>1, <2>2, <2>3, SameLevel
  <2> QED
    BY <2>4 DEF k
<1>9. ASSUME NEW x \in DOMAIN d, NEW y \in DOMAIN d, d[y].level < d[x].level,
             NEW e \in ToSet(d[x].buf), NEW f \in ToSet(d[y].buf), e.key = f.key
      PROVE  f.seq <= e.seq \/ Cut(c, e.key)
  <2>0. d[x].level \in Nat /\ d[y].level \in Nat
    BY <1>1, <1>6, <1>7
  <2>1. CASE \E s \in DOMAIN c : c[s].level = d[y].level /\ f \in ToSet(c[s].buf)
    <3>1. PICK s \in DOMAIN c : c[s].level = d[y].level /\ f \in ToSet(c[s].buf)
      BY <2>1
    <3>2. CASE \E t \in DOMAIN c : c[t].level = d[x].level /\ e \in ToSet(c[t].buf)
      BY <1>9, <3>1, <3>2 DEF AgeOrder, Aged
    <3>3. CASE d[x].level + 1 = c[p].level /\ e \in ToSet(c[p].buf)
      <4>1. c[s].level < c[p].level
        BY <1>9, <2>0, <3>1, <3>3
      <4> QED
        BY <1>1, <1>9, <3>1, <3>3, <4>1 DEF AgeOrder, Aged
    <3> QED
      BY <1>3, <3>2, <3>3 DEF Comes
  <2>2. CASE d[y].level + 1 = c[p].level /\ f \in ToSet(c[p].buf)
    <3>1. x # p
      BY <1>1, <1>2
    <3>2. x \notin ToSet(new)
      <4>1. d[x].level + 1 # c[p].level
        BY <1>9, <2>0, <2>2
      <4> QED
        BY <1>1, <1>7, <4>1
    <3>3. x \in DOMAIN c /\ d[x] = c[x]
      BY <1>1, <3>1, <3>2
    <3>4. c[p].level <= c[x].level
      BY <1>6, <1>9, <2>0, <2>2, <3>3
    <3>5. CASE c[p].level = c[x].level
      BY <1>8, <1>9, <2>2, <3>1, <3>3, <3>5
    <3>6. CASE c[p].level < c[x].level
      BY <1>1, <1>9, <2>2, <3>3, <3>6 DEF AgeOrder, Aged
    <3> QED
      BY <1>1, <1>6, <3>3, <3>4, <3>5, <3>6
  <2> QED
    BY <1>3, <2>1, <2>2 DEF Comes
<1>10. Aged(d)
  BY <1>9 DEF Aged, CutKept
<1> QED
  BY <1>4, <1>5, <1>10 DEF AgeOrder

LEMMA RefreshedBuf ==
  ASSUME NEW K, NEW n, NodeIn(n, K, Genuine), InOrder(n.buf), NEW h, h = Refreshed(n)
  PROVE  InOrder(h.buf) /\ ToSet(h.buf) \subseteq ToSet(n.buf)
<1>1. CASE n.kids = <<>>
  BY <1>1 DEF Refreshed
<1>2. CASE n.kids # <<>>
  <2> DEFINE span == Spanning(n, Node(Head(n.kids)), Node(Last(n.kids)))
             lo == IF n.min = NoKey \/ span.min < n.min THEN span.min ELSE n.min
             hi == IF n.max = NoKey \/ span.max > n.max THEN span.max ELSE n.max
             m == Ranged(n, lo, hi)
  <2>1. Refreshed(n) = flush_to_disk(m)
    <3>1. Refreshed(n) = LET s == Spanning(n, Node(Head(n.kids)), Node(Last(n.kids)))
                         IN  flush_to_disk([n EXCEPT
                               !.min = IF @ = NoKey \/ s.min < @ THEN s.min ELSE @,
                               !.max = IF @ = NoKey \/ s.max > @ THEN s.max ELSE @])
      BY <1>2 DEF Refreshed
    <3> HIDE DEF span
    <3>2. Refreshed(n) = flush_to_disk([n EXCEPT
                               !.min = IF n.min = NoKey \/ span.min < n.min THEN span.min ELSE n.min,
                               !.max = IF n.max = NoKey \/ span.max > n.max THEN span.max ELSE n.max])
      BY <3>1 DEF span
    <3> QED
      BY <3>2 DEF Ranged
  <2> HIDE DEF lo, hi
  <2>2. NodeIn(m, K, Genuine) /\ m.buf = n.buf
    BY RangeReplaced
  <2> HIDE DEF m
  <2>3. h.buf = sort_buffer(m.buf) /\ m.buf \in Seq(Genuine)
    BY <2>1, <2>2, FlushToDiskIs DEF NodeIn
  <2>4. InOrder(h.buf) /\ ToSet(h.buf) \subseteq ToSet(m.buf)
    BY ONLY <2>3, CleanBuf, GenuineEntries
  <2> QED
    BY <2>2, <2>4
<1> QED
  BY <1>1, <1>2

\* What a child is made of the entries D it receives.
LEMMA MadeBuf ==
  ASSUME NEW K, NEW a, NodeIn(a, K, Genuine), InOrder(a.buf), NEW D \in Seq(Genuine),
         NEW m, m = IF D = <<>> THEN a ELSE Rewritten(a, D)
  PROVE  InOrder(m.buf) /\ ToSet(m.buf) \subseteq ToSet(a.buf) \cup ToSet(D)
<1>1. CASE D = <<>>
  BY <1>1
<1>2. CASE D # <<>>
  <2> DEFINE own == a.buf
             s == merge_sorted_entries(D, own)
  <2>1. own \in Seq(Genuine) /\ m.buf = sort_buffer(s)
    BY <1>2 DEF NodeIn, Rewritten, create
  <2> HIDE DEF own
  <2>2. s \in Seq(Genuine) /\ ToSet(s) \subseteq ToSet(D) \cup ToSet(own)
    <3> DEFINE G == Genuine
    <3>1. IsEntries(G) /\ own \in Seq(G) /\ D \in Seq(G)
      BY <2>1, GenuineEntries
    <3> HIDE DEF G
    <3>2. s \in Seq(G) /\ ToSet(s) \subseteq ToSet(D) \cup ToSet(own)
      BY <3>1, MergeCovers
    <3> QED
      BY <3>2 DEF G
  <2> HIDE DEF s
  <2>3. InOrder(m.buf) /\ ToSet(m.buf) \subseteq ToSet(s)
    BY ONLY <2>1, <2>2, CleanBuf, GenuineEntries
  <2> QED
    BY <2>2, <2>3 DEF own
<1> QED
  BY <1>1, <1>2

LEMMA DoFlushAge ==
  ASSUME QueueInv, FilesInv, LiveInv, TreeInv, OrderInv, AgeInv, DoFlush
  PROVE  AgeInv'
<1> DEFINE p == Head(todo).id
           old == cache_[p].kids
           new == NewKids(p)
           n == Len(old)
           hit == HitBy(p)
           chk == Check(p, cache_'[p].kids)
           ops == <<Persist(p)>> \o Commit \o <<chk>>
           Part(i) == PartsOf(p)[i]
           made(i) == MadeKids(p)[i]
           mins == Mins(old)
<1>1. FlushCall(p, old, new, n, hit, chk, ops)
  BY FlushTo
<1> HIDE DEF new, hit, chk, ops
<1>2. /\ ~Doomed /\ ~Splitting /\ Tree = cache_ /\ p \in DOMAIN cache_ /\ UnreadKids(p) = {} /\ cache_[p].kids # <<>>
      /\ Flushes(Tree, Tree', p, n, old, new, hit) /\ UNCHANGED write_buf
      /\ \A i \in 1..n : Tree'[new[i]] = Refreshed(made(i))
  BY <1>1 DEF FlushCall
<1>3. Shape(cache_, Root) /\ Sorted(cache_, Root) /\ AgeOrder(cache_, write_buf)
  BY <1>2 DEF TreeInv, OrderInv, AgeInv
<1>4. /\ DOMAIN mins = 1..n
      /\ \A i \in 1..n :
           /\ mins[i] = cache_[old[i]].min /\ Part(i) \in Seq(Genuine)
           /\ ToSet(Part(i)) = {e \in ToSet(cache_[p].buf) : Rightmost(e.key, mins) = i}
           /\ made(i) = IF Part(i) = <<>> THEN cache_[old[i]] ELSE Rewritten(cache_[old[i]], Part(i))
  BY <1>2, PartsIs, ZenonT(30) DEF LiveInv
<1>5. \A i \in 1..n : /\ old[i] \in DOMAIN cache_ /\ NodeIn(made(i), Known, Genuine)
                     /\ Covers(ToSet(made(i).buf), ToSet(cache_[old[i]].buf) \cup ToSet(Part(i)))
  BY <1>2, MadeKidsFacts DEF LiveInv
<1>6. old = cache_[p].kids
  OBVIOUS
<1>7. \A q \in DOMAIN cache_ : NodeIn(cache_[q], Known, Genuine) /\ InOrder(cache_[q].buf)
  <2>1. \A q \in DOMAIN cache_ : NodeIn(cache_[q], Known, Genuine)
    BY DEF LiveInv, CacheInv
  <2> QED
    BY <1>3, <2>1 DEF AgeOrder, Tidy
<1>8. \A q \in DOMAIN cache_ : \A e \in ToSet(cache_[q].buf) : e.key \in Nat
  <2>1. Keys \subseteq Nat
    BY TreeAssumption
  <2>2. \A e \in Genuine : e.key \in Keys
    BY DEF Genuine
  <2> QED
    BY <1>2, <2>1, <2>2, TreeBufs
<1> HIDE DEF p, old, n, Part, made, mins
<1>9. ASSUME NEW i \in 1..n
      PROVE  /\ InOrder(Tree'[new[i]].buf)
             /\ ToSet(Tree'[new[i]].buf) \subseteq ToSet(cache_[old[i]].buf) \cup ToSet(cache_[p].buf)
             /\ KeysIn(cache_[old[i]].buf) \subseteq KeysIn(Tree'[new[i]].buf)
  <2> DEFINE a == cache_[old[i]]
             m == made(i)
             D == Part(i)
             K == Known
             b == Tree'[new[i]]
  <2>1. /\ NodeIn(a, K, Genuine) /\ InOrder(a.buf) /\ NodeIn(m, K, Genuine) /\ b = Refreshed(m)
        /\ D \in Seq(Genuine) /\ m = (IF D = <<>> THEN a ELSE Rewritten(a, D))
        /\ ToSet(D) \subseteq ToSet(cache_[p].buf) /\ Covers(ToSet(m.buf), ToSet(a.buf) \cup ToSet(D))
    BY <1>2, <1>4, <1>5, <1>7
  <2> HIDE DEF a, m, D, K, b
  <2>2. InOrder(m.buf) /\ ToSet(m.buf) \subseteq ToSet(a.buf) \cup ToSet(D)
    BY <2>1, MadeBuf
  <2>3. InOrder(b.buf) /\ ToSet(b.buf) \subseteq ToSet(m.buf)
    BY <2>1, <2>2, RefreshedBuf
  <2>4. Covers(ToSet(b.buf), ToSet(m.buf))
    BY <2>1, RefreshedFacts, GenuineEntries
  <2>5. KeysIn(a.buf) \subseteq KeysIn(b.buf)
    BY <2>1, <2>4 DEF Covers, KeysIn
  <2> QED
    BY <2>1, <2>2, <2>3, <2>5 DEF a, b
<1> DEFINE C == Tree
           d == Tree'
           s == Root
           w == write_buf
<1>10. /\ Sorted(C, s) /\ Shape(C, s) /\ Flushes(C, d, p, n, old, new, hit) /\ AgeOrder(C, w)
  BY <1>2, <1>3
<1>11. Pushes(C, d, p, n, old, new)
  BY <1>2, <1>9 DEF Pushes
<1>12. \A q \in DOMAIN C : \A e \in ToSet(C[q].buf) : e.key \in Nat
  BY <1>2, <1>8
<1>13. C[p].level # 0 /\ IsInjective(old) /\ \A i \in 1..n : KeysIn(C[old[i]].buf) \subseteq KeysIn(d[new[i]].buf)
  BY <1>2, <1>3, <1>6, <1>9 DEF Shape
<1> HIDE DEF C, d, s, w
<1>14. CutKept(C, d)
  BY ONLY <1>10, <1>13, CutFlushed
<1>15. AgeOrder(d, w)
  BY ONLY <1>10, <1>11, <1>12, <1>14, AgeFlush
<1> QED
  BY <1>2, <1>15 DEF AgeInv, d, w

-----------------------------------------------------------------------------
(* All steps keep the age order *)

LEMMA WorkAge ==
  ASSUME SmallEntries, QueueInv, FilesInv, LiveInv, TreeInv, EmptyInv, OrderInv, AgeInv, Client \/ Work
  PROVE  AgeInv'
BY ClientAge, QuietWorkAge, PersistAge, InsertChildAge, DoFlushAge, SplitAge DEF Work

LEMMA AgeNext ==
  ASSUME SmallEntries, QueueInv, FilesInv, ScanInv, ShapeInv, ShapeInv', Alive => EmptyInv,
         Alive => OrderInv, Alive => AgeInv, [FaultNext]_vars
  PROVE  (Alive => AgeInv)'
<1>1. CASE UNCHANGED vars
  <2>1. UNCHANGED <<cache_, todo, write_buf>> /\ UNCHANGED <<session, status, threw>>
    BY <1>1 DEF vars, memory, life
  <2> QED
    BY <2>1, QuietAge DEF Alive
<1>2. CASE Client \/ Work
  <2>1. session' = session /\ threw' = threw /\ status # "down"
    BY <1>2, WorkGoesOn
  <2>2. Alive' => LiveInv /\ TreeInv /\ EmptyInv /\ OrderInv /\ AgeInv
    BY <2>1 DEF ScanInv, ShapeInv, Alive
  <2> QED
    BY <1>2, <2>2, WorkAge
<1>3. CASE Ending
  <2>1. ~Alive'
    BY <1>3, EndingEnds DEF Alive
  <2> QED
    BY <2>1
<1>4. CASE Open \/ EnsureRoot
  <2>1. Alive' => TreeInv'
    BY DEF ShapeInv
  <2>2. Alive' => EnsureRoot /\ write_buf = <<>>
    BY <1>4, FirstSession DEF Unborn
  <2> QED
    BY <2>1, <2>2, FirstAge
<1> QED
  BY <1>1, <1>2, <1>3, <1>4, AllSteps

AgeLives == SmallEntries /\ Alive => AgeInv

LEMMA AgeStep ==
  ASSUME QueueInv, FilesInv, ScanInv, ShapeInv, ShapeInv', Alive => EmptyInv,
         OrderLives, AgeLives, [FaultNext]_vars
  PROVE  AgeLives'
<1>1. CASE SmallEntries
  <2>1. (Alive => OrderInv) /\ (Alive => AgeInv)
    BY <1>1 DEF OrderLives, AgeLives
  <2>2. (Alive => AgeInv)'
    BY <1>1, <2>1, AgeNext
  <2> QED
    BY <2>2 DEF AgeLives
<1>2. CASE ~SmallEntries
  BY <1>2 DEF AgeLives, SmallEntries
<1> QED
  BY <1>1, <1>2

LEMMA AgeInvariant == FaultSpec => []AgeLives
<1>1. Init => AgeLives
  BY DEF Init, Alive, AgeLives
<1>2. QueueInv /\ FilesInv /\ ScanInv /\ ShapeInv /\ ShapeInv' /\ (Alive => EmptyInv)
        /\ OrderLives /\ AgeLives /\ [FaultNext]_vars => AgeLives'
  BY AgeStep
<1> QED
  BY <1>1, <1>2, EmptyInvariant, TreeInvariant, FilesInvariant, OrderInvariant, PTL DEF FaultSpec

-----------------------------------------------------------------------------
(* Lookups *)

\* A path goes down one level at a time.
LEMMA PathLevels ==
  ASSUME CacheInv, NEW c, c = cache_, Shape(c, Root), Sorted(c, Root), NEW k \in Nat,
         NEW n, n = c[Root].level, NEW f, f = find_path(k)
  PROVE  /\ DOMAIN f = 1..n + 1 /\ n \in Nat
         /\ \A i \in 1..n + 1 : f[i] \in DOMAIN c /\ c[f[i]].level + i = n + 1
<1> DEFINE R == Root
<1>1. RootLevel = n /\ n \in Nat /\ R \in DOMAIN c /\ c[R].level = n
  BY ReadableCached DEF Shape, RootLevel
<1>2. /\ DOMAIN f = 1..n + 1 /\ f[1] = R
      /\ \A i \in 1..n + 1 : i # 1 => f[i] = PathStep(k, f[i - 1])
  BY <1>1, PathSteps
<1>3. Shape(c, R) /\ Sorted(c, R)
  OBVIOUS
<1> HIDE DEF R
<1> DEFINE T == {i \in Nat : i + 1 \in 1..n + 1 =>
                                f[i + 1] \in DOMAIN c /\ c[f[i + 1]].level + (i + 1) = n + 1}
<1>4. 0 \in T
  BY <1>1, <1>2
<1>5. ASSUME NEW i \in Nat, i \in T PROVE i + 1 \in T
  <2> SUFFICES ASSUME (i + 1) + 1 \in 1..n + 1
               PROVE  /\ f[(i + 1) + 1] \in DOMAIN c
                      /\ c[f[(i + 1) + 1]].level + ((i + 1) + 1) = n + 1
    OBVIOUS
  <2> DEFINE x == f[i + 1]
             h == c[x].kids
             m == Len(h)
  <2>1. i + 1 \in 1..n + 1 /\ (i + 1) + 1 # 1 /\ ((i + 1) + 1) - 1 = i + 1
    BY <1>1
  <2>2. x \in DOMAIN c /\ c[x].level + (i + 1) = n + 1
    BY <1>5, <2>1
  <2>3. f[(i + 1) + 1] = PathStep(k, x)
    BY <1>2, <2>1
  <2> HIDE DEF x
  <2>4. c[x].level \in Nat /\ c[x].level # 0
    BY <1>1, <1>3, <2>1, <2>2 DEF Shape
  <2>5. h # <<>> /\ \A q \in ToSet(h) : q \in DOMAIN c /\ c[x].level = c[q].level + 1
    BY <1>3, <2>2, <2>4 DEF Shape
  <2>6. /\ DOMAIN h = 1..m /\ m \in Nat
        /\ \A j \in 1..m : h[j] \in DOMAIN c \ {R} /\ c[h[j]].min \in Nat
        /\ \A j, l \in 1..m : j < l => c[h[j]].min <= c[h[l]].min
    BY <1>3, <2>2, KidsInOrder
  <2>7. m \in Nat \ {0}
    <3>1. IsList(h)
      BY <1>3, <2>2 DEF Sorted
    <3> QED
      BY <2>5, <3>1, ListEnds
  <2> HIDE DEF h, m
  <2>8. \E r \in 1..m : PathStep(k, x) = h[r]
    <3>1. x \in DOMAIN cache_ /\ h = cache_[x].kids
      BY <2>2 DEF h
    <3>2. \A j \in 1..m : h[j] \in DOMAIN cache_
      BY <2>6
    <3>3. \A j \in 1..m : cache_[h[j]].min \in Nat
      BY <2>6
    <3>4. \A j, l \in 1..m : j < l => cache_[h[j]].min <= cache_[h[l]].min
      BY <2>6
    <3>5. DOMAIN h = 1..m
      BY <2>6
    <3>6. \E r \in 1..m : /\ PathStep(k, x) = h[r] /\ (r # 1 => cache_[h[r]].min <= k)
                          /\ \A j \in 1..m : r < j => k < cache_[h[j]].min
      BY ONLY CacheInv, k \in Nat, <2>7, <3>1, <3>2, <3>3, <3>4, <3>5, PathStepIs
    <3> QED
      BY <3>6
  <2>9. PathStep(k, x) \in ToSet(h)
    BY <2>6, <2>8 DEF ToSet
  <2>10. PathStep(k, x) \in DOMAIN c /\ c[x].level = c[PathStep(k, x)].level + 1
    BY <2>5, <2>9
  <2>11. c[PathStep(k, x)].level \in Nat
    BY <1>3, <2>10 DEF Shape
  <2> QED
    BY <1>1, <2>2, <2>3, <2>10, <2>11
<1>6. Nat \subseteq T
  <2> HIDE DEF T
  <2> QED
    BY <1>4, <1>5, SetInduction
<1>7. ASSUME NEW i \in 1..n + 1 PROVE f[i] \in DOMAIN c /\ c[f[i]].level + i = n + 1
  <2>1. i - 1 \in Nat /\ (i - 1) + 1 = i
    BY <1>1
  <2>2. i - 1 \in T
    BY <1>6, <2>1
  <2> QED
    BY <2>1, <2>2
<1> QED
  BY <1>1, <1>2, <1>7

\* The layers that get looks at, newest first: the write buffer, then the path.
Layers(k) == <<skiplist_find(write_buf, k)>> \o
             [i \in DOMAIN find_path(k) |-> node_get(Node(find_path(k)[i]).buf, k)]

LEMMA LayersAre ==
  ASSUME NEW k, NEW n \in Nat, DOMAIN find_path(k) = 1..n + 1
  PROVE  /\ DOMAIN Layers(k) = 1..n + 2 /\ Layers(k)[1] = node_get(write_buf, k)
         /\ \A i \in 1..n + 1 : Layers(k)[i + 1] = node_get(Node(find_path(k)[i]).buf, k)
<1> DEFINE V(i) == node_get(Node(find_path(k)[i]).buf, k)
           s == <<skiplist_find(write_buf, k)>>
           t == [i \in 1..n + 1 |-> V(i)]
           E == {skiplist_find(write_buf, k)} \cup {V(i) : i \in 1..n + 1}
<1>1. Layers(k) = s \o t
  BY DEF Layers
<1>2. \A i \in 1..n + 1 : V(i) \in E
  OBVIOUS
<1>3. skiplist_find(write_buf, k) \in E /\ skiplist_find(write_buf, k) = node_get(write_buf, k)
  BY DEF skiplist_find
<1> HIDE DEF V, E
<1>4. t \in Seq(E) /\ Len(t) = n + 1 /\ \A i \in 1..n + 1 : t[i] = V(i)
  <2>1. t \in [1..n + 1 -> E] /\ n + 1 \in Nat
    BY <1>2
  <2>2. t \in Seq(E) /\ DOMAIN t = 1..n + 1
    BY <2>1, SeqDef
  <2>3. Len(t) = n + 1
    BY <2>2, LenProperties
  <2> QED
    BY <2>2, <2>3
<1>5. s \in Seq(E) /\ Len(s) = 1 /\ s[1] = node_get(write_buf, k)
  BY <1>3
<1> HIDE DEF s, t
<1>6. /\ s \o t \in Seq(E) /\ Len(s \o t) = 1 + (n + 1)
      /\ \A j \in 1..1 : (s \o t)[j] = s[j] /\ \A i \in 1..n + 1 : (s \o t)[1 + i] = t[i]
  BY <1>4, <1>5, ConcatIs
<1>7. DOMAIN (s \o t) = 1..n + 2
  BY <1>6
<1>8. (s \o t)[1] = s[1] /\ \A i \in 1..n + 1 : (s \o t)[i + 1] = t[i]
  BY <1>6
<1> QED
  BY <1>1, <1>4, <1>5, <1>7, <1>8 DEF V

\* get returns the value of some newest version it can see: its first hit g.
LEMMA GetIs ==
  ASSUME NEW k, NEW n \in Nat, DOMAIN Layers(k) = 1..n,
         \A i \in 1..n : Layers(k)[i] # {} => \E g : Layers(k)[i] = {g}
  PROVE  \/ /\ \A i \in 1..n : Layers(k)[i] = {}
            /\ get(k) = NoValue
         \/ \E i \in 1..n : \E g :
              /\ Layers(k)[i] = {g} /\ \A j \in 1..n : j < i => Layers(k)[j] = {}
              /\ get(k) = IF g.del THEN NoValue ELSE g.val
<1> DEFINE L == Layers(k)
           hits == {i \in DOMAIN L : L[i] # {}}
           m == Min(hits)
           hit == CHOOSE e \in L[m] : TRUE
<1>1. get(k) = IF hits = {} \/ hit.del THEN NoValue ELSE hit.val
  BY Zenon DEF get, Layers
<1> HIDE DEF L
<1>2. CASE hits = {}
  <2>1. \A i \in 1..n : L[i] = {}
    BY <1>2 DEF L
  <2>2. get(k) = NoValue
    BY <1>1, <1>2
  <2> QED
    BY <2>1, <2>2 DEF L
<1>3. CASE hits # {}
  <2>1. hits \subseteq Nat
    BY DEF L
  <2>2. \E x \in hits : \A y \in hits : x <= y
    BY <1>3, <2>1, LeastNatural
  <2>3. m \in hits /\ \A y \in hits : m <= y
    BY <2>2 DEF Min
  <2> HIDE DEF m
  <2>4. m \in 1..n /\ L[m] # {}
    BY <2>3 DEF L
  <2>5. PICK g : L[m] = {g}
    BY <2>4 DEF L
  <2>6. hit = g
    BY <2>5
  <2>7. \A j \in 1..n : j < m => L[j] = {}
    BY <2>3, <2>4 DEF L
  <2>8. get(k) = IF g.del THEN NoValue ELSE g.val
    BY <1>1, <1>3, <2>6
  <2> QED
    BY <2>4, <2>5, <2>7, <2>8 DEF L
<1> QED
  BY <1>2, <1>3

\* The buffers that get looks at, in their order.
Layer(k, i) == IF i = 1 THEN write_buf ELSE cache_[find_path(k)[i - 1]].buf

\* The tree that get reads: complete, in order, and newer versions nearer to the root.
LookupReady ==
  /\ WritesInv /\ CacheInv /\ Shape(cache_, Root) /\ Sorted(cache_, Root)
  /\ AgeOrder(cache_, write_buf)

LEMMA LayerFacts ==
  ASSUME LookupReady, NEW k \in Nat, NEW n, n = cache_[Root].level, NEW f, f = find_path(k)
  PROVE  /\ n \in Nat /\ DOMAIN f = 1..n + 1 /\ DOMAIN Layers(k) = 1..n + 2
         /\ \A i \in 1..n + 1 : f[i] \in DOMAIN cache_ /\ cache_[f[i]].level + i = n + 1
         /\ \A i \in 1..n + 2 : /\ Layers(k)[i] = node_get(Layer(k, i), k)
                                /\ Layer(k, i) \in Seq(Genuine) /\ InOrder(Layer(k, i))
<1>1. CacheInv /\ Shape(cache_, Root) /\ Sorted(cache_, Root)
  BY DEF LookupReady
<1>2. /\ DOMAIN f = 1..n + 1 /\ n \in Nat
      /\ \A i \in 1..n + 1 : f[i] \in DOMAIN cache_ /\ cache_[f[i]].level + i = n + 1
  BY <1>1, PathLevels
<1>3. /\ DOMAIN Layers(k) = 1..n + 2 /\ Layers(k)[1] = node_get(write_buf, k)
      /\ \A i \in 1..n + 1 : Layers(k)[i + 1] = node_get(Node(f[i]).buf, k)
  BY <1>2, LayersAre
<1>4. \A q \in DOMAIN cache_ : cache_[q].buf \in Seq(Genuine) /\ InOrder(cache_[q].buf)
  BY DEF LookupReady, CacheInv, NodeIn, AgeOrder, Tidy
<1>5. write_buf \in Seq(Genuine) /\ InOrder(write_buf)
  BY DEF LookupReady, WritesInv, AgeOrder
<1>6. ASSUME NEW i \in 1..n + 2
      PROVE  /\ Layers(k)[i] = node_get(Layer(k, i), k)
             /\ Layer(k, i) \in Seq(Genuine) /\ InOrder(Layer(k, i))
  <2>1. CASE i = 1
    BY <1>3, <1>5, <2>1 DEF Layer
  <2>2. CASE i # 1
    <3>1. i - 1 \in 1..n + 1 /\ (i - 1) + 1 = i
      BY <1>2, <2>2
    <3>2. f[i - 1] \in DOMAIN cache_
      BY <1>2, <3>1
    <3>3. Node(f[i - 1]) = cache_[f[i - 1]]
      BY <3>2 DEF Node
    <3>4. Layers(k)[i] = node_get(cache_[f[i - 1]].buf, k)
      BY <1>3, <3>1, <3>3
    <3> QED
      BY <1>4, <2>2, <3>2, <3>4 DEF Layer
  <2> QED
    BY <2>1, <2>2
<1> QED
  BY <1>2, <1>3, <1>6

\* A version of k is in a buffer that get looks at.
LEMMA LayerOf ==
  ASSUME LookupReady, NEW k \in Nat, ~Cut(cache_, k), NEW n, n = cache_[Root].level,
         NEW q \in DOMAIN cache_, NEW e \in ToSet(cache_[q].buf), e.key = k
  PROVE  \E i \in 1..n + 1 : q = find_path(k)[i] /\ Layer(k, i + 1) = cache_[q].buf
<1> DEFINE f == find_path(k)
<1>1. CacheInv /\ Shape(cache_, Root) /\ Sorted(cache_, Root)
  BY DEF LookupReady
<1>2. DOMAIN f = 1..n + 1 /\ n \in Nat
  BY LayerFacts
<1>3. k \in KeysIn(cache_[q].buf)
  BY DEF KeysIn
<1>4. Holds(cache_, Root, q, k)
  <2>1. q # Root => Spans(cache_, cache_[q])
    BY <1>1 DEF Sorted
  <2> QED
    BY <1>3, <2>1 DEF Spans, Holds
<1>5. q \in ToSet(f)
  BY <1>1, <1>4, PathHolds
<1> HIDE DEF f
<1>6. PICK i \in 1..n + 1 : q = f[i]
  BY <1>2, <1>5 DEF ToSet
<1>7. i + 1 # 1 /\ (i + 1) - 1 = i
  BY <1>2
<1>8. Layer(k, i + 1) = cache_[q].buf
  BY <1>6, <1>7 DEF Layer, f
<1> QED
  BY <1>6, <1>8 DEF f

\* The first buffer with a version of k has the newest one.
LEMMA FirstIsNewest ==
  ASSUME LookupReady, NEW k \in Nat, ~Cut(cache_, k), NEW n, n = cache_[Root].level,
         NEW m \in 1..n + 2, NEW g \in ToSet(Layer(k, m)), g.key = k,
         \A f \in ToSet(Layer(k, m)) : f.key = k => f.seq <= g.seq,
         \A j \in 1..n + 2 : j < m => \A f \in ToSet(Layer(k, j)) : f.key # k,
         NEW e \in Pool, e.key = k
  PROVE  e.seq <= g.seq
<1>1. n \in Nat /\ \A i \in 1..n + 1 : /\ find_path(k)[i] \in DOMAIN cache_
                                       /\ cache_[find_path(k)[i]].level + i = n + 1
  BY LayerFacts
<1>2. \A q \in DOMAIN cache_ : cache_[q].level \in Nat
  BY DEF LookupReady, Shape
<1>3. e \in ToSet(write_buf) \/ \E q \in DOMAIN cache_ : e \in ToSet(cache_[q].buf)
  BY PoolFacts DEF LookupReady
<1>4. Layer(k, 1) = write_buf /\ 1 \in 1..n + 2
  BY <1>1 DEF Layer
<1>5. CASE e \in ToSet(write_buf)
  <2>1. ~(1 < m)
    BY <1>4, <1>5
  <2>2. m = 1
    BY <1>1, <2>1
  <2> QED
    BY <1>4, <1>5, <2>2
<1>6. CASE \E q \in DOMAIN cache_ : e \in ToSet(cache_[q].buf)
  <2>1. PICK q \in DOMAIN cache_ : e \in ToSet(cache_[q].buf)
    BY <1>6
  <2>2. PICK i \in 1..n + 1 : q = find_path(k)[i] /\ Layer(k, i + 1) = cache_[q].buf
    BY <2>1, LayerOf
  <2>3. i + 1 \in 1..n + 2 /\ ~(i + 1 < m)
    BY <1>1, <2>1, <2>2
  <2>4. CASE m = i + 1
    BY <2>1, <2>2, <2>4
  <2>5. CASE m = 1
    BY <1>4, <2>1, <2>5 DEF LookupReady, AgeOrder, Younger
  <2>6. CASE m # 1 /\ m # i + 1
    <3> DEFINE p == find_path(k)[m - 1]
    <3>1. m - 1 \in 1..n + 1 /\ m - 1 < i
      BY <1>1, <2>3, <2>6
    <3>2. p \in DOMAIN cache_ /\ cache_[p].level + (m - 1) = n + 1 /\ cache_[q].level + i = n + 1
      BY <1>1, <2>2, <3>1
    <3>3. Layer(k, m) = cache_[p].buf
      BY <2>6 DEF Layer
    <3> HIDE DEF p
    <3>4. cache_[q].level < cache_[p].level
      BY <1>1, <1>2, <2>1, <3>1, <3>2
    <3> QED
      BY <2>1, <3>2, <3>3, <3>4 DEF LookupReady, AgeOrder, Aged
  <2> QED
    BY <2>4, <2>5, <2>6
<1> QED
  BY <1>3, <1>5, <1>6

\* What get sees of a key that was not cut apart: nothing, when memory has no version
\* of it, and the newest version otherwise.
LEMMA GetSees ==
  ASSUME LookupReady, NEW k \in Keys, ~Cut(cache_, k)
  PROVE  \/ get(k) = NoValue /\ \A e \in Pool : e.key # k
         \/ \E g \in Pool : /\ g.key = k /\ \A e \in Pool : e.key = k => e.seq <= g.seq
                            /\ get(k) = IF g.del THEN NoValue ELSE g.val
<1>1. k \in Nat
  BY TreeAssumption
<1>2. PICK n : n = cache_[Root].level
  OBVIOUS
<1>3. /\ n \in Nat /\ DOMAIN Layers(k) = 1..n + 2
      /\ \A i \in 1..n + 1 : find_path(k)[i] \in DOMAIN cache_
      /\ \A i \in 1..n + 2 : /\ Layers(k)[i] = node_get(Layer(k, i), k)
                             /\ Layer(k, i) \in Seq(Genuine) /\ InOrder(Layer(k, i))
  BY <1>1, <1>2, LayerFacts
<1>4. \A i \in 1..n + 2 :
        /\ Layers(k)[i] = {} <=> \A e \in ToSet(Layer(k, i)) : e.key # k
        /\ \A e \in ToSet(Layer(k, i)) : e.key = k =>
             \E g \in ToSet(Layer(k, i)) :
               /\ Layers(k)[i] = {g} /\ g.key = k
               /\ \A f \in ToSet(Layer(k, i)) : f.key = k => f.seq <= g.seq
  <2>1. TAKE i \in 1..n + 2
  <2>2. Layers(k)[i] = node_get(Layer(k, i), k) /\ Layer(k, i) \in Seq(Genuine) /\ InOrder(Layer(k, i))
    BY <1>3
  <2> QED
    BY ONLY <1>1, <2>2, GenuineEntries, NodeGetNewest
<1>5. \A i \in 1..n + 2 : Layers(k)[i] # {} => \E g : Layers(k)[i] = {g}
  BY <1>4
<1>6. \/ /\ \A i \in 1..n + 2 : Layers(k)[i] = {}
         /\ get(k) = NoValue
      \/ \E i \in 1..n + 2 : \E g :
           /\ Layers(k)[i] = {g} /\ \A j \in 1..n + 2 : j < i => Layers(k)[j] = {}
           /\ get(k) = IF g.del THEN NoValue ELSE g.val
  <2>1. n + 2 \in Nat
    BY <1>3
  <2> QED
    BY ONLY <1>3, <1>5, <2>1, GetIs
<1>7. \A i \in 1..n + 2 : ToSet(Layer(k, i)) \subseteq Pool
  <2>1. TAKE i \in 1..n + 2
  <2>2. CASE i = 1
    BY <2>2, PoolFacts DEF Layer, LookupReady
  <2>3. CASE i # 1
    <3>1. i - 1 \in 1..n + 1
      BY <1>3, <2>3
    <3>2. Layer(k, i) = cache_[find_path(k)[i - 1]].buf /\ find_path(k)[i - 1] \in DOMAIN cache_
      BY <1>3, <2>3, <3>1 DEF Layer
    <3> QED
      BY <3>2, PoolFacts DEF LookupReady
  <2> QED
    BY <2>2, <2>3
<1>8. CASE get(k) = NoValue /\ \A i \in 1..n + 2 : Layers(k)[i] = {}
  <2>1. ASSUME NEW e \in Pool, e.key = k PROVE FALSE
    <3>1. \A i \in 1..n + 2 : e \notin ToSet(Layer(k, i))
      BY <1>4, <1>8, <2>1
    <3>2. 1 \in 1..n + 2 /\ Layer(k, 1) = write_buf
      BY <1>3 DEF Layer
    <3>3. PICK q \in DOMAIN cache_ : e \in ToSet(cache_[q].buf)
      BY <3>1, <3>2, PoolFacts DEF LookupReady
    <3>4. PICK i \in 1..n + 1 : Layer(k, i + 1) = cache_[q].buf
      BY <1>1, <1>2, <2>1, <3>3, LayerOf
    <3>5. i + 1 \in 1..n + 2
      BY <1>3
    <3> QED
      BY <3>1, <3>3, <3>4, <3>5
  <2> QED
    BY <1>8, <2>1
<1>9. ASSUME NEW m \in 1..n + 2, NEW h, Layers(k)[m] = {h}, \A j \in 1..n + 2 : j < m => Layers(k)[j] = {},
             get(k) = IF h.del THEN NoValue ELSE h.val
      PROVE  \E g \in Pool : /\ g.key = k /\ \A e \in Pool : e.key = k => e.seq <= g.seq
                             /\ get(k) = IF g.del THEN NoValue ELSE g.val
  <2>1. /\ h \in ToSet(Layer(k, m)) /\ h.key = k
        /\ \A f \in ToSet(Layer(k, m)) : f.key = k => f.seq <= h.seq
    BY <1>4, <1>9
  <2>2. \A j \in 1..n + 2 : j < m => \A f \in ToSet(Layer(k, j)) : f.key # k
    BY <1>4, <1>9
  <2>3. \A e \in Pool : e.key = k => e.seq <= h.seq
    BY <1>1, <1>2, <2>1, <2>2, FirstIsNewest
  <2>4. h \in Pool
    BY <1>7, <2>1
  <2> QED
    BY <1>9, <2>1, <2>3, <2>4
<1> QED
  BY <1>6, <1>8, <1>9

\* The age order between flushes.
LEMMA IdleAge ==
  ASSUME SmallEntries, ScanInv, ShapeInv, AgeLives, session = 1, Idle
  PROVE  AgeOrder(cache_, write_buf)
<1>1. Alive /\ todo = <<>> /\ ~Splitting /\ ~Doomed
  BY DEF Alive, Idle, Splitting, Doomed, Do
<1>2. Tree = cache_ /\ AgeInv
  BY <1>1, TreeIs DEF AgeLives, ScanInv, LiveInv
<1> QED
  BY <1>1, <1>2 DEF AgeInv

LEMMA GetsFind ==
  ASSUME SmallEntries, ScanInv, ShapeInv, OrderLives, AgeLives, session = 1
  PROVE  GetLatest
<1> SUFFICES ASSUME Idle, NEW k \in Keys
             PROVE  Straddles(k) \/ get(k) = IF latest[k].del THEN NoValue ELSE latest[k].val
  BY Zenon DEF GetLatest
<1>1. LiveInv /\ Shape(cache_, Root) /\ Reach = DOMAIN cache_ /\ Sorted(cache_, Root)
      /\ AgeOrder(cache_, write_buf)
  BY IdleTree, IdleOrder, IdleAge
<1>2. LookupReady /\ CacheInv /\ WritesInv
  BY <1>1 DEF LiveInv, LookupReady
<1>3. CASE Cut(cache_, k)
  BY <1>1, <1>2, <1>3, CutStraddles
<1>4. CASE ~Cut(cache_, k)
  <2>1. \/ get(k) = NoValue /\ \A e \in Pool : e.key # k
        \/ \E g \in Pool : /\ g.key = k /\ \A e \in Pool : e.key = k => e.seq <= g.seq
                           /\ get(k) = IF g.del THEN NoValue ELSE g.val
    BY <1>2, <1>4, GetSees
  <2>2. /\ latest[k].seq \in Nat /\ latest[k].val = latest[k].seq
        /\ latest[k].val = NoValue => latest[k].del
    BY <1>2 DEF WritesInv
  <2>3. ~Do("throw")
    BY DEF Idle, Do
  <2>4. latest[k].val # NoValue => \E e \in Pool : e.key = k /\ e.seq = latest[k].seq
    BY <1>1, <2>3 DEF LiveInv, NewestKept
  <2>5. CASE \A e \in Pool : e.key # k
    <3>1. get(k) = NoValue
      BY <2>1, <2>5
    <3>2. latest[k].del
      BY <2>2, <2>4, <2>5
    <3> QED
      BY <3>1, <3>2
  <2>6. ASSUME NEW g \in Pool, g.key = k, \A e \in Pool : e.key = k => e.seq <= g.seq,
               get(k) = IF g.del THEN NoValue ELSE g.val
        PROVE  get(k) = IF latest[k].del THEN NoValue ELSE latest[k].val
    <3>1. g \in Genuine
      BY <1>2, <2>6, PoolFacts
    <3>2. /\ g.val = g.seq /\ g.seq \in Nat /\ g.seq <= latest[k].seq
          /\ g.seq = latest[k].seq => g.del = latest[k].del
      BY <2>6, <3>1 DEF Genuine
    <3>3. CASE latest[k].val # NoValue
      <4>1. latest[k].seq <= g.seq
        BY <2>4, <2>6, <3>3
      <4>2. g.seq = latest[k].seq
        BY <2>2, <3>2, <4>1
      <4> QED
        BY <2>2, <2>6, <3>2, <4>2
    <3>4. CASE latest[k].val = NoValue
      <4>1. latest[k].del /\ g.seq = 0 /\ g.val = NoValue
        BY <2>2, <3>2, <3>4 DEF NoValue
      <4> QED
        BY <2>6, <4>1
    <3> QED
      BY <3>3, <3>4
  <2> QED
    BY <2>1, <2>5, <2>6
<1> QED
  BY <1>3, <1>4

\* Between flushes get returns the last write of every key, nothing after a remove,
\* unless the versions of the key were cut apart by a split: the first hit of write
\* buffer, root, ..., leaf is the newest version there is (GravTree::get and find_path,
\* tree.cpp:168-256).
THEOREM LookupsFindNewest == FaultSpec => [](SmallEntries /\ session = 1 => GetLatest)
<1>1. SmallEntries /\ ScanInv /\ ShapeInv /\ OrderLives /\ AgeLives /\ session = 1 => GetLatest
  BY GetsFind
<1> QED
  BY <1>1, AgeInvariant, OrderInvariant, TreeInvariant, PTL
=============================================================================
