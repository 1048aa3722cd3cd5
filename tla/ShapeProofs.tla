----------------------------- MODULE ShapeProofs -----------------------------
(***************************************************************************)
(* The shape of the tree in the session that built it, until something     *)
(* throws: levels, links between the nodes, the stack of calls that work   *)
(* on them, and what follows for the manifest, the files and the nodes a   *)
(* flush empties.                                                          *)
(***************************************************************************)
EXTENDS TreeProofs

-----------------------------------------------------------------------------
(* Sequences without repetition *)

\* w is the list kids with the element at i replaced by left and right.
SplitAt(w, kids, i, left, right) ==
  /\ Len(w) = Len(kids) + 1 /\ w[i] = left /\ w[i + 1] = right
  /\ \A j \in 1..i - 1 : w[j] = kids[j]
  /\ \A j \in i + 1..Len(kids) : w[j + 1] = kids[j]

LEMMA ConcatIs ==
  ASSUME NEW E, NEW s \in Seq(E), NEW t \in Seq(E)
  PROVE  /\ s \o t \in Seq(E) /\ Len(s \o t) = Len(s) + Len(t)
         /\ \A j \in 1..Len(s) : (s \o t)[j] = s[j]
         /\ \A j \in 1..Len(t) : (s \o t)[Len(s) + j] = t[j]
<1> DEFINE u == s \o t
<1>1. /\ u \in Seq(E) /\ Len(u) = Len(s) + Len(t)
      /\ \A i \in 1..Len(s) + Len(t) : u[i] = IF i <= Len(s) THEN s[i] ELSE t[i - Len(s)]
  BY ConcatProperties
<1>2. Len(s) \in Nat /\ Len(t) \in Nat
  OBVIOUS
<1> HIDE DEF u
<1>3. ASSUME NEW j \in 1..Len(t) PROVE u[Len(s) + j] = t[j]
  <2>1. Len(s) + j \in 1..Len(s) + Len(t) /\ ~(Len(s) + j <= Len(s)) /\ (Len(s) + j) - Len(s) = j
    BY <1>2
  <2> QED
    BY <1>1, <2>1
<1>4. \A j \in 1..Len(s) : u[j] = s[j]
  BY <1>1, <1>2
<1> QED
  BY <1>1, <1>3, <1>4 DEF u

LEMMA WithSplitIs ==
  ASSUME NEW K, NEW kids \in Seq(K), NEW old \in ToSet(kids), NEW left \in K, NEW right \in K
  PROVE  /\ WithSplit(kids, old, left, right) \in Seq(K)
         /\ \E i \in 1..Len(kids) :
              kids[i] = old /\ SplitAt(WithSplit(kids, old, left, right), kids, i, left, right)
<1> DEFINE i == CHOOSE j \in DOMAIN kids : kids[j] = old
           a == SubSeq(kids, 1, i - 1)
           c == <<left, right>>
           b == SubSeq(kids, i + 1, Len(kids))
           d == a \o c
           w == d \o b
<1>1. WithSplit(kids, old, left, right) = w
  BY DEF WithSplit
<1>2. \E j \in DOMAIN kids : kids[j] = old
  BY ToSetFacts
<1>3. i \in 1..Len(kids) /\ Len(kids) \in Nat /\ kids[i] = old
  BY <1>2
<1> HIDE DEF i
<1>4. a \in Seq(K) /\ Len(a) = i - 1 /\ \A j \in 1..i - 1 : a[j] = kids[j]
  BY <1>3
<1>5. b \in Seq(K) /\ Len(b) = Len(kids) - i /\ \A j \in 1..Len(kids) - i : b[j] = kids[i + j]
  BY <1>3
<1>6. c \in Seq(K) /\ Len(c) = 2 /\ c[1] = left /\ c[2] = right
  OBVIOUS
<1> HIDE DEF a, b, c
<1>7. /\ d \in Seq(K) /\ Len(d) = i + 1 /\ d[i] = left /\ d[i + 1] = right
      /\ \A j \in 1..i - 1 : d[j] = kids[j]
  <2>1. /\ d \in Seq(K) /\ Len(d) = Len(a) + Len(c)
        /\ \A j \in 1..Len(a) : d[j] = a[j]
        /\ \A j \in 1..Len(c) : d[Len(a) + j] = c[j]
    <3>1. a \in Seq(K) /\ c \in Seq(K)
      BY <1>4, <1>6
    <3> QED
      BY ONLY <3>1, ConcatIs
  <2> HIDE DEF d
  <2>4. d[Len(a) + 1] = c[1] /\ d[Len(a) + 2] = c[2]
    BY <1>6, <2>1
  <2>5. (i - 1) + 1 = i /\ (i - 1) + 2 = i + 1
    BY <1>3
  <2> QED
    BY <1>3, <1>4, <1>6, <2>1, <2>4, <2>5
<1> HIDE DEF d
<1>8. /\ w \in Seq(K) /\ Len(w) = Len(d) + Len(b)
      /\ \A j \in 1..Len(d) : w[j] = d[j]
      /\ \A j \in 1..Len(b) : w[Len(d) + j] = b[j]
  <2>1. d \in Seq(K) /\ b \in Seq(K)
    BY <1>5, <1>7
  <2> QED
    BY ONLY <2>1, ConcatIs
<1> HIDE DEF w
<1>9. \A j \in i + 1..Len(kids) : w[j + 1] = kids[j]
  <2> SUFFICES ASSUME NEW j \in i + 1..Len(kids) PROVE w[j + 1] = kids[j]
    OBVIOUS
  <2>1. j - i \in 1..Len(b) /\ (i + 1) + (j - i) = j + 1 /\ i + (j - i) = j
    BY <1>3, <1>5
  <2>2. w[Len(d) + (j - i)] = b[j - i] /\ b[j - i] = kids[i + (j - i)]
    BY <1>5, <1>8, <2>1
  <2> QED
    BY <1>7, <2>1, <2>2
<1>10. i \in 1..Len(d) /\ i + 1 \in 1..Len(d) /\ \A j \in 1..i - 1 : j \in 1..Len(d)
  BY <1>3, <1>7
<1>11. SplitAt(w, kids, i, left, right)
  BY <1>3, <1>5, <1>7, <1>8, <1>9, <1>10 DEF SplitAt
<1> QED
  BY <1>1, <1>3, <1>8, <1>11

\* A split keeps a list of children free of repetition.
LEMMA SplitAtDistinct ==
  ASSUME NEW K, NEW kids \in Seq(K), NEW w \in Seq(K), NEW i \in 1..Len(kids),
         NEW left \in K, NEW right \in K, SplitAt(w, kids, i, left, right),
         IsInjective(kids), left # right, left \notin ToSet(kids), right \notin ToSet(kids)
  PROVE  /\ IsInjective(w) /\ w # <<>>
         /\ ToSet(w) = (ToSet(kids) \ {kids[i]}) \cup {left, right}
<1>1. /\ DOMAIN kids = 1..Len(kids) /\ DOMAIN w = 1..Len(kids) + 1 /\ Len(kids) \in Nat
      /\ Len(w) = Len(kids) + 1
  BY DEF SplitAt
<1>2. ToSet(kids) = {kids[j] : j \in 1..Len(kids)} /\ ToSet(w) = {w[j] : j \in 1..Len(w)}
  BY ToSetFacts
<1>3. ASSUME NEW j \in 1..Len(kids) + 1
      PROVE  \/ j < i /\ w[j] = kids[j] /\ j \in 1..Len(kids)
             \/ j = i /\ w[j] = left
             \/ j = i + 1 /\ w[j] = right
             \/ j > i + 1 /\ j - 1 \in i + 1..Len(kids) /\ w[j] = kids[j - 1]
  <2>1. CASE j < i
    BY <1>1, <2>1 DEF SplitAt
  <2>2. CASE j = i \/ j = i + 1
    BY <2>2 DEF SplitAt
  <2>3. CASE j > i + 1
    <3>1. j - 1 \in i + 1..Len(kids) /\ (j - 1) + 1 = j
      BY <1>1, <2>3
    <3>2. w[(j - 1) + 1] = kids[j - 1]
      BY <3>1 DEF SplitAt
    <3> QED
      BY <2>3, <3>1, <3>2
  <2> QED
    BY <1>1, <2>1, <2>2, <2>3
<1>4. \A j \in 1..Len(kids) : kids[j] # left /\ kids[j] # right
  BY <1>2
<1>5. \A x, y \in 1..Len(kids) : kids[x] = kids[y] => x = y
  BY <1>1 DEF IsInjective
<1>6. ASSUME NEW x \in 1..Len(kids) + 1, NEW y \in 1..Len(kids) + 1, w[x] = w[y] PROVE x = y
  <2>1. i + 1..Len(kids) \subseteq 1..Len(kids)
    BY <1>1
  <2> QED
    BY <1>1, <1>3, <1>4, <1>5, <1>6, <2>1
<1>7. ASSUME NEW v PROVE v \in ToSet(w) <=> v \in (ToSet(kids) \ {kids[i]}) \cup {left, right}
  <2>1. ASSUME v \in ToSet(w) PROVE v \in (ToSet(kids) \ {kids[i]}) \cup {left, right}
    <3>1. PICK j \in 1..Len(kids) + 1 : v = w[j]
      BY <1>1, <1>2, <2>1
    <3>2. CASE j < i /\ w[j] = kids[j] /\ j \in 1..Len(kids)
      <4>1. kids[j] # kids[i]
        BY <1>5, <3>2
      <4> QED
        BY <1>2, <3>1, <3>2, <4>1
    <3>3. CASE j > i + 1 /\ j - 1 \in i + 1..Len(kids) /\ w[j] = kids[j - 1]
      <4>1. j - 1 \in 1..Len(kids) /\ j - 1 # i
        BY <1>1, <3>3
      <4>2. kids[j - 1] # kids[i]
        BY <1>5, <4>1
      <4> QED
        BY <1>2, <3>1, <3>3, <4>1, <4>2
    <3> QED
      BY <1>3, <3>1, <3>2, <3>3
  <2>2. ASSUME v \in (ToSet(kids) \ {kids[i]}) \cup {left, right} PROVE v \in ToSet(w)
    <3>1. CASE v \in {left, right}
      <4>1. i \in 1..Len(w) /\ i + 1 \in 1..Len(w) /\ w[i] = left /\ w[i + 1] = right
        BY <1>1 DEF SplitAt
      <4> QED
        BY <1>2, <3>1, <4>1
    <3>2. CASE v \in ToSet(kids) \ {kids[i]}
      <4>1. PICK j \in 1..Len(kids) : v = kids[j] /\ j # i
        BY <1>2, <3>2
      <4>2. CASE j < i
        <5>1. j \in 1..i - 1 /\ j \in 1..Len(w)
          BY <1>1, <4>2
        <5> QED
          BY <1>2, <4>1, <5>1 DEF SplitAt
      <4>3. CASE j > i
        <5>1. j \in i + 1..Len(kids) /\ j + 1 \in 1..Len(w)
          BY <1>1, <4>3
        <5> QED
          BY <1>2, <4>1, <5>1 DEF SplitAt
      <4> QED
        BY <4>1, <4>2, <4>3
    <3> QED
      BY <2>2, <3>1, <3>2
  <2> QED
    BY <2>1, <2>2
<1>8. IsInjective(w)
  BY <1>1, <1>6 DEF IsInjective
<1>9. w # <<>>
  BY <1>1
<1> QED
  BY <1>7, <1>8, <1>9

\* s is cut into a and b.
IsCut(s, a, b) ==
  /\ Len(s) = Len(a) + Len(b)
  /\ \A j \in 1..Len(a) : a[j] = s[j]
  /\ \A j \in 1..Len(b) : b[j] = s[Len(a) + j]

LEMMA HalvesCut ==
  ASSUME NEW E, NEW s \in Seq(E)
  PROVE  /\ LeftHalf(s) \in Seq(E) /\ RightHalf(s) \in Seq(E)
         /\ IsCut(s, LeftHalf(s), RightHalf(s))
         /\ Len(LeftHalf(s)) = Len(s) \div 2
<1> DEFINE n == Len(s) \div 2
           a == SubSeq(s, 1, n)
           b == SubSeq(s, n + 1, Len(s))
<1>1. n \in Nat /\ n <= Len(s) /\ Len(s) \in Nat
  OBVIOUS
<1>2. LeftHalf(s) = a /\ RightHalf(s) = b
  BY DEF LeftHalf, RightHalf
<1> HIDE DEF n
<1>3. a \in Seq(E) /\ Len(a) = n /\ \A j \in 1..n : a[j] = s[j]
  BY <1>1
<1>4. b \in Seq(E) /\ Len(b) = Len(s) - n /\ \A j \in 1..Len(s) - n : b[j] = s[n + j]
  BY <1>1
<1> HIDE DEF a, b
<1>5. IsCut(s, a, b)
  BY <1>1, <1>3, <1>4 DEF IsCut
<1> QED
  BY <1>2, <1>3, <1>4, <1>5 DEF n

\* The parts of a list without repetition have none and share nothing.
LEMMA CutDistinct ==
  ASSUME NEW E, NEW s \in Seq(E), NEW a \in Seq(E), NEW b \in Seq(E), IsCut(s, a, b)
  PROVE  /\ ToSet(s) = ToSet(a) \cup ToSet(b)
         /\ IsInjective(s) =>
              IsInjective(a) /\ IsInjective(b) /\ ToSet(a) \cap ToSet(b) = {}
<1>1. /\ DOMAIN s = 1..Len(a) + Len(b) /\ DOMAIN a = 1..Len(a) /\ DOMAIN b = 1..Len(b)
      /\ Len(a) \in Nat /\ Len(b) \in Nat /\ Len(s) = Len(a) + Len(b)
  BY DEF IsCut
<1>2. /\ ToSet(s) = {s[j] : j \in 1..Len(s)} /\ ToSet(a) = {a[j] : j \in 1..Len(a)}
      /\ ToSet(b) = {b[j] : j \in 1..Len(b)}
  BY ToSetFacts
<1>3. /\ \A j \in 1..Len(a) : j \in 1..Len(s) /\ a[j] = s[j]
      /\ \A j \in 1..Len(b) : Len(a) + j \in 1..Len(s) /\ b[j] = s[Len(a) + j]
      /\ \A j \in 1..Len(s) : j \in 1..Len(a) \/ (j - Len(a) \in 1..Len(b) /\ Len(a) + (j - Len(a)) = j)
  BY <1>1 DEF IsCut
<1>4. ToSet(s) = ToSet(a) \cup ToSet(b)
  <2>1. ToSet(a) \subseteq ToSet(s) /\ ToSet(b) \subseteq ToSet(s)
    BY <1>2, <1>3
  <2>2. ASSUME NEW v \in ToSet(s) PROVE v \in ToSet(a) \cup ToSet(b)
    <3>1. PICK j \in 1..Len(s) : v = s[j]
      BY <1>2
    <3>2. CASE j \in 1..Len(a)
      BY <1>2, <1>3, <3>1, <3>2
    <3>3. CASE j - Len(a) \in 1..Len(b) /\ Len(a) + (j - Len(a)) = j
      <4>1. b[j - Len(a)] = v
        BY <1>3, <3>1, <3>3
      <4> QED
        BY <1>2, <3>3, <4>1
    <3> QED
      BY <1>3, <3>2, <3>3
  <2> QED
    BY <2>1, <2>2
<1>5. ASSUME IsInjective(s)
      PROVE  IsInjective(a) /\ IsInjective(b) /\ ToSet(a) \cap ToSet(b) = {}
  <2>1. \A x, y \in 1..Len(s) : s[x] = s[y] => x = y
    BY <1>1, <1>5 DEF IsInjective
  <2>2. IsInjective(a)
    BY <1>1, <1>3, <2>1 DEF IsInjective
  <2>3. ASSUME NEW x \in 1..Len(b), NEW y \in 1..Len(b), b[x] = b[y] PROVE x = y
    <3>1. Len(a) + x = Len(a) + y
      BY <1>3, <2>1, <2>3
    <3> QED
      BY <1>1, <3>1
  <2>4. IsInjective(b)
    BY <1>1, <2>3 DEF IsInjective
  <2>5. ASSUME NEW x \in 1..Len(a), NEW y \in 1..Len(b), a[x] = b[y] PROVE FALSE
    <3>1. x = Len(a) + y
      BY <1>3, <2>1, <2>5
    <3> QED
      BY <1>1, <3>1
  <2> QED
    BY <1>2, <2>2, <2>4, <2>5
<1> QED
  BY <1>4, <1>5

-----------------------------------------------------------------------------
(* Trees *)

\* The nodes c form a tree below root: levels go down by one from parent to child,
\* the leaves are the nodes without children, every node but the root has exactly
\* one parent, and no node is named twice.
Shape(c, root) ==
  /\ root \in DOMAIN c
  /\ \A q \in DOMAIN c : /\ c[q].level \in Nat /\ c[q].level <= c[root].level
                         /\ c[q].kids = <<>> <=> c[q].level = 0
                         /\ IsInjective(c[q].kids)
  /\ \A q \in DOMAIN c : \A k \in ToSet(c[q].kids) :
       k \in DOMAIN c \ {root} /\ c[q].level = c[k].level + 1
  /\ \A p, q \in DOMAIN c : \A k \in ToSet(c[p].kids) \cap ToSet(c[q].kids) : p = q
  /\ \A k \in DOMAIN c \ {root} : \E q \in DOMAIN c : k \in ToSet(c[q].kids)

\* Level and children of a node stay the same.
SameLinks(m, n) == m.level = n.level /\ m.kids = n.kids

LEMMA ShapeSame ==
  ASSUME NEW c, NEW root, Shape(c, root), NEW d, DOMAIN d = DOMAIN c,
         \A q \in DOMAIN c : SameLinks(d[q], c[q])
  PROVE  Shape(d, root)
<1>1. root \in DOMAIN c /\ \A q \in DOMAIN c : d[q].level = c[q].level /\ d[q].kids = c[q].kids
  BY DEF Shape, SameLinks
<1>2. \A q \in DOMAIN d : /\ d[q].level \in Nat /\ d[q].level <= d[root].level
                          /\ d[q].kids = <<>> <=> d[q].level = 0
                          /\ IsInjective(d[q].kids)
  BY <1>1 DEF Shape
<1>3. \A q \in DOMAIN d : \A k \in ToSet(d[q].kids) :
        k \in DOMAIN d \ {root} /\ d[q].level = d[k].level + 1
  BY <1>1 DEF Shape
<1>4. \A x, q \in DOMAIN d : \A k \in ToSet(d[x].kids) \cap ToSet(d[q].kids) : x = q
  BY <1>1 DEF Shape
<1>5. \A k \in DOMAIN d \ {root} : \E q \in DOMAIN d : k \in ToSet(d[q].kids)
  BY <1>1 DEF Shape
<1> QED
  BY <1>1, <1>2, <1>3, <1>4, <1>5 DEF Shape

LEMMA ShapeSplit ==
  ASSUME NEW c, NEW root, Shape(c, root), NEW d,
         NEW p \in DOMAIN c, NEW gone \in ToSet(c[p].kids), NEW l, NEW r,
         l # r, l \notin DOMAIN c, r \notin DOMAIN c,
         DOMAIN d = (DOMAIN c \ {gone}) \cup {l, r},
         \A q \in {l, r} : /\ d[q].level = c[gone].level /\ IsInjective(d[q].kids)
                           /\ d[q].kids = <<>> <=> c[gone].level = 0,
         ToSet(d[l].kids) \cup ToSet(d[r].kids) = ToSet(c[gone].kids),
         ToSet(d[l].kids) \cap ToSet(d[r].kids) = {},
         d[p].level = c[p].level, IsInjective(d[p].kids), d[p].kids # <<>>,
         ToSet(d[p].kids) = (ToSet(c[p].kids) \ {gone}) \cup {l, r},
         \A q \in DOMAIN c \ {gone, p} : SameLinks(d[q], c[q])
  PROVE  Shape(d, root)
<1>1. /\ gone \in DOMAIN c /\ gone # root /\ c[p].level = c[gone].level + 1 /\ p # gone
      /\ root \in DOMAIN d /\ root \notin {l, r} /\ d[root].level = c[root].level
      /\ c[p].level # 0
  BY DEF Shape, SameLinks
<1> DEFINE K(q) == ToSet(c[q].kids)
           L(q) == ToSet(d[q].kids)
<1>2. \A q \in DOMAIN c \ {gone, p} : L(q) = K(q)
  BY DEF SameLinks
<1>3. L(l) \cup L(r) = K(gone) /\ L(l) \cap L(r) = {} /\ L(p) = (K(p) \ {gone}) \cup {l, r}
  OBVIOUS
<1>4. \A q \in DOMAIN c : \A k \in K(q) : k \in DOMAIN c \ {root} /\ c[q].level = c[k].level + 1
  BY DEF Shape
<1>5. \A x, q \in DOMAIN c : \A k \in K(x) \cap K(q) : x = q
  BY DEF Shape
<1>6. \A k \in DOMAIN c \ {root} : \E q \in DOMAIN c : k \in K(q)
  BY DEF Shape
<1>7. \A q \in DOMAIN c : c[q].level \in Nat /\ c[q].level <= c[root].level
  BY DEF Shape
<1>8. \A q \in DOMAIN d : /\ d[q].level \in Nat /\ d[q].level <= d[root].level
                          /\ d[q].kids = <<>> <=> d[q].level = 0
                          /\ IsInjective(d[q].kids)
  <2>1. ASSUME NEW q \in DOMAIN c \ {gone, p}
        PROVE  /\ d[q].level \in Nat /\ d[q].level <= d[root].level
               /\ d[q].kids = <<>> <=> d[q].level = 0
               /\ IsInjective(d[q].kids)
    BY <1>1 DEF Shape, SameLinks
  <2>2. d[p].level \in Nat /\ d[p].level <= d[root].level /\ d[p].level # 0
    BY <1>1, <1>7
  <2>3. ASSUME NEW q \in {l, r} PROVE d[q].level \in Nat /\ d[q].level <= d[root].level
    BY <1>1, <1>7
  <2> QED
    BY <2>1, <2>2, <2>3
<1> HIDE DEF K, L
<1>9. ASSUME NEW q \in DOMAIN d, NEW k \in L(q)
      PROVE  k \in DOMAIN d \ {root} /\ d[q].level = d[k].level + 1
  <2>1. \A x \in DOMAIN c \ {gone} : d[x].level = c[x].level
    BY DEF SameLinks
  <2>2. CASE q \in {l, r}
    <3>1. k \in K(gone)
      BY <1>3, <2>2
    <3>2. k \in DOMAIN c \ {root} /\ c[gone].level = c[k].level + 1 /\ k # gone
      BY <1>1, <1>4, <1>7, <3>1
    <3> QED
      BY <2>1, <2>2, <3>2
  <2>3. CASE q = p
    <3>1. CASE k \in {l, r}
      BY <1>1, <2>3, <3>1
    <3>2. CASE k \in K(p) \ {gone}
      BY <1>4, <2>1, <2>3, <3>2
    <3> QED
      BY <1>3, <2>3, <3>1, <3>2
  <2>4. CASE q \in DOMAIN c \ {gone, p}
    <3>1. k \in K(q)
      BY <1>2, <2>4
    <3>2. k # gone
      BY <1>5, <2>4, <3>1 DEF K
    <3> QED
      BY <1>4, <2>1, <2>4, <3>1, <3>2
  <2> QED
    BY <2>2, <2>3, <2>4
<1>10. ASSUME NEW x \in DOMAIN d, NEW q \in DOMAIN d, NEW k \in L(x) \cap L(q) PROVE x = q
  <2>1. \A y \in DOMAIN c : K(y) \subseteq DOMAIN c
    BY <1>4
  <2>2. \A y \in DOMAIN d : \/ y \in {l, r} /\ L(y) \subseteq K(gone)
                            \/ y = p /\ L(y) = (K(p) \ {gone}) \cup {l, r}
                            \/ y \in DOMAIN c \ {gone, p} /\ L(y) = K(y)
    BY <1>2, <1>3
  <2>3. CASE k \in {l, r}
    BY <1>1, <2>1, <2>2, <2>3
  <2>4. CASE k \notin {l, r}
    <3>1. \A y \in DOMAIN d : k \in L(y) =>
            (y \in {l, r} /\ k \in K(gone)) \/ (y \in DOMAIN c \ {gone} /\ k \in K(y))
      BY <1>1, <2>2, <2>4
    <3>2. CASE x \in {l, r} /\ q \in {l, r}
      BY <1>3, <3>2
    <3> QED
      BY <1>1, <1>5, <3>1, <3>2
  <2> QED
    BY <2>3, <2>4
<1>11. ASSUME NEW k \in DOMAIN d \ {root} PROVE \E q \in DOMAIN d : k \in L(q)
  <2>1. CASE k \in {l, r}
    BY <1>1, <1>3, <2>1
  <2>2. CASE k \in DOMAIN c \ {gone}
    <3>1. PICK q \in DOMAIN c : k \in K(q)
      BY <1>6, <2>2
    <3>2. CASE q = gone
      BY <1>3, <3>1, <3>2
    <3>3. CASE q = p
      BY <1>1, <1>3, <2>2, <3>1, <3>3
    <3>4. CASE q \notin {gone, p}
      BY <1>2, <3>1, <3>4
    <3> QED
      BY <3>2, <3>3, <3>4
  <2> QED
    BY <2>1, <2>2
<1> QED
  BY <1>1, <1>8, <1>9, <1>10, <1>11 DEF Shape, L

LEMMA ShapeSplitRoot ==
  ASSUME NEW c, NEW root, Shape(c, root), NEW d, NEW l, NEW r, NEW t,
         l # r, l # t, r # t, l \notin DOMAIN c, r \notin DOMAIN c, t \notin DOMAIN c,
         DOMAIN d = (DOMAIN c \ {root}) \cup {l, r, t},
         \A q \in {l, r} : /\ d[q].level = c[root].level /\ IsInjective(d[q].kids)
                           /\ d[q].kids = <<>> <=> c[root].level = 0,
         ToSet(d[l].kids) \cup ToSet(d[r].kids) = ToSet(c[root].kids),
         ToSet(d[l].kids) \cap ToSet(d[r].kids) = {},
         d[t].level = c[root].level + 1, IsInjective(d[t].kids), d[t].kids # <<>>,
         ToSet(d[t].kids) = {l, r},
         \A q \in DOMAIN c \ {root} : SameLinks(d[q], c[q])
  PROVE  Shape(d, t)
<1> DEFINE K(q) == ToSet(c[q].kids)
           L(q) == ToSet(d[q].kids)
<1>2. \A q \in DOMAIN c \ {root} : L(q) = K(q)
  BY DEF SameLinks
<1>3. L(l) \cup L(r) = K(root) /\ L(l) \cap L(r) = {} /\ L(t) = {l, r}
  OBVIOUS
<1>4. \A q \in DOMAIN c : \A k \in K(q) : k \in DOMAIN c \ {root} /\ c[q].level = c[k].level + 1
  BY DEF Shape
<1>5. \A x, q \in DOMAIN c : \A k \in K(x) \cap K(q) : x = q
  BY DEF Shape
<1>6. \A k \in DOMAIN c \ {root} : \E q \in DOMAIN c : k \in K(q)
  BY DEF Shape
<1>7. /\ \A q \in DOMAIN c : c[q].level \in Nat /\ c[q].level <= c[root].level
      /\ root \in DOMAIN c
  BY DEF Shape
<1>8. \A q \in DOMAIN d : /\ d[q].level \in Nat /\ d[q].level <= d[t].level
                          /\ d[q].kids = <<>> <=> d[q].level = 0
                          /\ IsInjective(d[q].kids)
  <2>1. ASSUME NEW q \in DOMAIN c \ {root}
        PROVE  /\ d[q].level \in Nat /\ d[q].level <= d[t].level
               /\ d[q].kids = <<>> <=> d[q].level = 0
               /\ IsInjective(d[q].kids)
    BY <1>7 DEF Shape, SameLinks
  <2>2. d[t].level \in Nat /\ d[t].level # 0
    BY <1>7
  <2>3. ASSUME NEW q \in {l, r} PROVE d[q].level \in Nat /\ d[q].level <= d[t].level
    BY <1>7
  <2> QED
    BY <2>1, <2>2, <2>3
<1> HIDE DEF K, L
<1>9. ASSUME NEW q \in DOMAIN d, NEW k \in L(q)
      PROVE  k \in DOMAIN d \ {t} /\ d[q].level = d[k].level + 1
  <2>1. \A x \in DOMAIN c \ {root} : d[x].level = c[x].level
    BY DEF SameLinks
  <2>2. CASE q \in {l, r}
    <3>1. k \in K(root)
      BY <1>3, <2>2
    <3> QED
      BY <1>4, <1>7, <2>1, <2>2, <3>1
  <2>3. CASE q = t
    BY <1>3, <2>3
  <2>4. CASE q \in DOMAIN c \ {root}
    <3>1. k \in K(q)
      BY <1>2, <2>4
    <3> QED
      BY <1>4, <2>1, <2>4, <3>1
  <2> QED
    BY <2>2, <2>3, <2>4
<1>10. ASSUME NEW x \in DOMAIN d, NEW q \in DOMAIN d, NEW k \in L(x) \cap L(q) PROVE x = q
  <2>1. \A y \in DOMAIN c : K(y) \subseteq DOMAIN c
    BY <1>4
  <2>2. \A y \in DOMAIN d : \/ y \in {l, r} /\ L(y) \subseteq K(root)
                            \/ y = t /\ L(y) = {l, r}
                            \/ y \in DOMAIN c \ {root} /\ L(y) = K(y)
    BY <1>2, <1>3
  <2>3. CASE k \in {l, r}
    BY <1>7, <2>1, <2>2, <2>3
  <2>4. CASE k \notin {l, r}
    <3>1. \A y \in DOMAIN d : k \in L(y) =>
            (y \in {l, r} /\ k \in K(root)) \/ (y \in DOMAIN c \ {root} /\ k \in K(y))
      BY <2>2, <2>4
    <3>2. CASE x \in {l, r} /\ q \in {l, r}
      BY <1>3, <3>2
    <3> QED
      BY <1>5, <1>7, <3>1, <3>2
  <2> QED
    BY <2>3, <2>4
<1>11. ASSUME NEW k \in DOMAIN d \ {t} PROVE \E q \in DOMAIN d : k \in L(q)
  <2>1. CASE k \in {l, r}
    BY <1>3, <2>1
  <2>2. CASE k \in DOMAIN c \ {root}
    <3>1. PICK q \in DOMAIN c : k \in K(q)
      BY <1>6, <2>2
    <3>2. CASE q = root
      BY <1>3, <3>1, <3>2
    <3>3. CASE q # root
      BY <1>2, <3>1, <3>3
    <3> QED
      BY <3>2, <3>3
  <2> QED
    BY <2>1, <2>2
<1> QED
  BY <1>8, <1>9, <1>10, <1>11 DEF Shape, L

\* From the tree c to the tree d, the n children old of p got the names new.
Renames(c, d, p, n, old, new) ==
  /\ p \in DOMAIN c /\ n \in Nat /\ old = c[p].kids /\ DOMAIN old = 1..n /\ DOMAIN new = 1..n
  /\ ToSet(old) = {old[i] : i \in 1..n} /\ ToSet(new) = {new[i] : i \in 1..n}
  /\ IsInjective(new) /\ n # 0 /\ new # <<>>
  /\ \A i \in 1..n : new[i] = old[i] \/ new[i] \notin DOMAIN c
  /\ DOMAIN d = (DOMAIN c \ {old[i] : i \in {j \in 1..n : new[j] # old[j]}}) \cup ToSet(new)
  /\ \A i \in 1..n : SameLinks(d[new[i]], c[old[i]])
  /\ d[p].level = c[p].level /\ d[p].kids = new
  /\ \A q \in DOMAIN c \ (ToSet(old) \cup {p}) : SameLinks(d[q], c[q])

LEMMA ShapeRename ==
  ASSUME NEW c, NEW d, NEW p, NEW n, NEW old, NEW new, NEW root, Shape(c, root),
         Renames(c, d, p, n, old, new)
  PROVE  Shape(d, root)
<1>0. /\ p \in DOMAIN c /\ n \in Nat /\ old = c[p].kids /\ DOMAIN old = 1..n /\ DOMAIN new = 1..n
      /\ ToSet(old) = {old[i] : i \in 1..n} /\ ToSet(new) = {new[i] : i \in 1..n}
      /\ IsInjective(new) /\ n # 0 /\ new # <<>>
      /\ \A i \in 1..n : new[i] = old[i] \/ new[i] \notin DOMAIN c
      /\ DOMAIN d = (DOMAIN c \ {old[i] : i \in {j \in 1..n : new[j] # old[j]}}) \cup ToSet(new)
      /\ \A i \in 1..n : SameLinks(d[new[i]], c[old[i]])
      /\ d[p].level = c[p].level /\ d[p].kids = new
      /\ \A q \in DOMAIN c \ (ToSet(old) \cup {p}) : SameLinks(d[q], c[q])
  BY DEF Renames
<1> USE <1>0
<1> DEFINE K(q) == ToSet(c[q].kids)
           L(q) == ToSet(d[q].kids)
           Was(q) == IF q \in ToSet(new) THEN old[CHOOSE i \in 1..n : new[i] = q] ELSE q
<1>1. \A i, j \in 1..n : new[i] = new[j] => i = j
  BY DEF IsInjective
<1>2. \A i, j \in 1..n : old[i] = old[j] => i = j
  BY DEF IsInjective, Shape
<1>3. \A i \in 1..n : new[i] \in ToSet(new) /\ Was(new[i]) = old[i]
  BY <1>1
<1>4. \A q : q \notin ToSet(new) => Was(q) = q
  OBVIOUS
<1> HIDE DEF Was
<1>5. /\ \A q \in DOMAIN c : \A k \in K(q) : k \in DOMAIN c \ {root} /\ c[q].level = c[k].level + 1
      /\ \A x, q \in DOMAIN c : \A k \in K(x) \cap K(q) : x = q
      /\ \A k \in DOMAIN c \ {root} : \E q \in DOMAIN c : k \in K(q)
      /\ \A q \in DOMAIN c : c[q].level \in Nat /\ c[q].level <= c[root].level
      /\ root \in DOMAIN c
  BY DEF Shape
<1>6. \A i \in 1..n : old[i] \in K(p) /\ old[i] \in DOMAIN c \ {root} /\ old[i] # p
  <2>1. K(p) = {old[i] : i \in 1..n}
    OBVIOUS
  <2> HIDE DEF K
  <2>2. p \notin K(p)
    BY <1>5
  <2> QED
    BY <1>5, <2>1, <2>2
<1>7. ASSUME NEW q \in DOMAIN d
      PROVE  /\ Was(q) \in DOMAIN c /\ (q # p => SameLinks(d[q], c[Was(q)]))
             /\ (q = p => Was(q) = p) /\ (q # p => Was(q) # p)
             /\ (Was(q) = root <=> q = root)
  <2>1. CASE q \in ToSet(new)
    <3>1. PICK i \in 1..n : q = new[i]
      BY <2>1
    <3>2. Was(q) = old[i] /\ old[i] \in DOMAIN c \ {root} /\ old[i] # p
      BY <1>3, <1>6, <3>1
    <3>3. q # p /\ q # root
      BY <1>5, <1>6, <3>1
    <3> QED
      BY <3>1, <3>2, <3>3
  <2>2. CASE q \notin ToSet(new)
    <3>1. Was(q) = q /\ q \in DOMAIN c
      BY <1>4, <2>2
    <3>2. ASSUME NEW i \in 1..n, q = old[i] PROVE FALSE
      <4>1. new[i] # old[i]
        BY <1>3, <2>2, <3>2
      <4>2. q \in {old[j] : j \in {h \in 1..n : new[h] # old[h]}}
        BY <3>2, <4>1
      <4> QED
        BY <2>2, <4>2
    <3>3. q \notin ToSet(old)
      BY <3>2
    <3> QED
      BY <3>1, <3>3
  <2> QED
    BY <2>1, <2>2
<1>8. \A x, q \in DOMAIN d : Was(x) = Was(q) => x = q
  <2> SUFFICES ASSUME NEW x \in DOMAIN d, NEW q \in DOMAIN d, Was(x) = Was(q) PROVE x = q
    OBVIOUS
  <2>1. ASSUME NEW y \in DOMAIN d, y \notin ToSet(new) PROVE y \notin ToSet(old)
    <3>1. ASSUME NEW i \in 1..n, y = old[i] PROVE FALSE
      <4>1. new[i] # old[i]
        BY <1>3, <2>1, <3>1
      <4>2. y \in {old[j] : j \in {h \in 1..n : new[h] # old[h]}}
        BY <3>1, <4>1
      <4> QED
        BY <2>1, <4>2
    <3> QED
      BY <3>1
  <2>2. ASSUME NEW y \in ToSet(new) PROVE \E i \in 1..n : y = new[i] /\ Was(y) = old[i]
    BY <1>3, ZenonT(30)
  <2> QED
    BY <1>2, <1>4, <2>1, <2>2
<1>9. p \in DOMAIN d /\ root \in DOMAIN d
  <2>1. p \notin {old[i] : i \in {j \in 1..n : new[j] # old[j]}}
    BY <1>6
  <2>2. root \notin {old[i] : i \in {j \in 1..n : new[j] # old[j]}}
    BY <1>6
  <2> QED
    BY <1>5, <2>1, <2>2
<1>10. /\ \A q \in DOMAIN d : d[q].level = c[Was(q)].level
       /\ \A q \in DOMAIN d \ {p} : L(q) = K(Was(q)) /\ d[q].kids = c[Was(q)].kids
       /\ d[root].level = c[root].level /\ L(p) = ToSet(new) /\ K(p) = ToSet(old)
  BY <1>7, <1>9 DEF SameLinks
<1>11. c[p].level # 0
  <2>1. 1 \in 1..n /\ <<>> # old
    BY DEF Shape
  <2> QED
    BY <2>1 DEF Shape
<1>12. \A q \in DOMAIN d : /\ d[q].level \in Nat /\ d[q].level <= d[root].level
                           /\ d[q].kids = <<>> <=> d[q].level = 0
                           /\ IsInjective(d[q].kids)
  <2>1. \A q \in DOMAIN d : d[q].level \in Nat /\ d[q].level <= d[root].level
    <3> HIDE DEF K, L
    <3> SUFFICES ASSUME NEW q \in DOMAIN d PROVE d[q].level \in Nat /\ d[q].level <= d[root].level
      OBVIOUS
    <3>1. Was(q) \in DOMAIN c /\ d[q].level = c[Was(q)].level
      BY <1>7, <1>10
    <3> QED
      BY <1>5, <1>10, <3>1
  <2>2. ASSUME NEW q \in DOMAIN d \ {p}
        PROVE  (d[q].kids = <<>> <=> d[q].level = 0) /\ IsInjective(d[q].kids)
    <3> HIDE DEF K, L
    <3>1. Was(q) \in DOMAIN c /\ d[q].level = c[Was(q)].level /\ d[q].kids = c[Was(q)].kids
      BY <1>7, <1>10
    <3>2. (c[Was(q)].kids = <<>> <=> c[Was(q)].level = 0) /\ IsInjective(c[Was(q)].kids)
      BY <3>1 DEF Shape
    <3> QED
      BY <3>1, <3>2
  <2> QED
    BY <1>11, <2>1, <2>2
<1> HIDE DEF K, L
<1>13. \A k \in DOMAIN d : k \in L(p) <=> Was(k) \in K(p)
  <2> SUFFICES ASSUME NEW k \in DOMAIN d PROVE k \in L(p) <=> Was(k) \in K(p)
    OBVIOUS
  <2>1. ASSUME k \in L(p) PROVE Was(k) \in K(p)
    <3>1. PICK i \in 1..n : k = new[i]
      BY <1>10, <2>1
    <3> QED
      BY <1>3, <1>6, <3>1
  <2>2. ASSUME Was(k) \in K(p) PROVE k \in L(p)
    <3>1. PICK i \in 1..n : Was(k) = old[i]
      BY <1>10, <2>2
    <3>2. new[i] \in DOMAIN d /\ Was(new[i]) = Was(k)
      BY <1>3, <3>1
    <3> QED
      BY <1>3, <1>8, <1>10, <3>2
  <2> QED
    BY <2>1, <2>2
<1>14. \A q \in DOMAIN d : L(q) \subseteq DOMAIN d
  <2> SUFFICES ASSUME NEW q \in DOMAIN d, NEW k \in L(q) PROVE k \in DOMAIN d
    OBVIOUS
  <2>1. CASE q = p
    BY <1>10, <2>1
  <2>2. CASE q # p
    <3>1. k \in K(Was(q)) /\ Was(q) \in DOMAIN c /\ Was(q) # p
      BY <1>7, <1>10, <2>2
    <3>2. k \in DOMAIN c /\ k \notin K(p)
      BY <1>5, <3>1
    <3>3. k \notin {old[i] : i \in {j \in 1..n : new[j] # old[j]}}
      BY <1>6, <3>2
    <3> QED
      BY <3>2, <3>3
  <2> QED
    BY <2>1, <2>2
<1>15. \A q \in DOMAIN d : \A k \in DOMAIN d : k \in L(q) <=> Was(k) \in K(Was(q))
  <2> SUFFICES ASSUME NEW q \in DOMAIN d, q # p, NEW k \in DOMAIN d
               PROVE  k \in L(q) <=> Was(k) \in K(Was(q))
    BY <1>7, <1>13
  <2>1. L(q) = K(Was(q)) /\ Was(q) \in DOMAIN c /\ Was(q) # p
    BY <1>7, <1>10
  <2>2. \A x \in K(Was(q)) : x \in DOMAIN c /\ x \notin K(p)
    BY <1>5, <2>1
  <2>3. ASSUME k \in K(Was(q)) PROVE Was(k) = k
    <3>1. k \notin ToSet(new)
      <4>1. ASSUME NEW i \in 1..n, k = new[i] PROVE FALSE
        BY <1>6, <2>2, <2>3, <4>1
      <4> QED
        BY <4>1
    <3> QED
      BY <1>4, <3>1
  <2>4. ASSUME Was(k) \in K(Was(q)) PROVE Was(k) = k
    <3>1. k \notin ToSet(new)
      <4>1. ASSUME NEW i \in 1..n, k = new[i] PROVE FALSE
        BY <1>3, <1>6, <2>2, <2>4, <4>1
      <4> QED
        BY <4>1
    <3> QED
      BY <1>4, <3>1
  <2> QED
    BY <2>1, <2>3, <2>4
<1>16. ASSUME NEW q \in DOMAIN d, NEW k \in L(q)
       PROVE  k \in DOMAIN d \ {root} /\ d[q].level = d[k].level + 1
  <2>1. k \in DOMAIN d /\ Was(k) \in K(Was(q))
    BY <1>14, <1>15
  <2>2. Was(q) \in DOMAIN c /\ Was(k) \in DOMAIN c \ {root}
    BY <1>5, <1>7, <2>1
  <2>3. c[Was(q)].level = c[Was(k)].level + 1
    BY <1>5, <2>1, <2>2
  <2>4. k # root
    BY <1>7, <1>9, <2>2
  <2> QED
    BY <1>10, <2>1, <2>3, <2>4
<1>17. ASSUME NEW x \in DOMAIN d, NEW q \in DOMAIN d, NEW k \in L(x) \cap L(q) PROVE x = q
  <2>1. k \in DOMAIN d /\ Was(x) \in DOMAIN c /\ Was(q) \in DOMAIN c
    BY <1>7, <1>14
  <2>2. Was(k) \in K(Was(x)) /\ Was(k) \in K(Was(q))
    BY <1>15, <2>1
  <2>3. Was(x) = Was(q)
    BY <1>5, <2>1, <2>2
  <2> QED
    BY <1>8, <2>3
<1>18. ASSUME NEW k \in DOMAIN d \ {root} PROVE \E q \in DOMAIN d : k \in L(q)
  <2>1. PICK x \in DOMAIN c : Was(k) \in K(x)
    BY <1>5, <1>7
  <2>2. PICK q \in DOMAIN d : Was(q) = x
    <3>1. CASE x \in ToSet(old)
      <4>1. PICK i \in 1..n : x = old[i]
        BY <3>1
      <4>2. new[i] \in DOMAIN d
        BY <1>3
      <4> QED
        BY <1>3, <4>1, <4>2
    <3>2. CASE x \notin ToSet(old)
      <4>1. x \notin {old[i] : i \in {j \in 1..n : new[j] # old[j]}}
        BY <3>2
      <4>2. x \notin ToSet(new)
        <5>1. ASSUME NEW i \in 1..n, x = new[i] PROVE FALSE
          <6>1. x = old[i]
            BY <5>1
          <6> QED
            BY <3>2, <6>1
        <5> QED
          BY <5>1
      <4> QED
        BY <1>4, <4>1, <4>2
    <3> QED
      BY <3>1, <3>2
  <2> QED
    BY <1>15, <2>1, <2>2
<1> QED
  BY <1>9, <1>12, <1>16, <1>17, <1>18 DEF Shape, L

-----------------------------------------------------------------------------
(* The parts of the nodes that are made *)

\* SSTNode::create with room for all children.
LEMMA CreateExact ==
  ASSUME NEW K, NEW G, IsEntries(G), NEW level, NEW entries \in Seq(G), NEW kids \in Seq(K),
         Len(kids) <= MAX_FANOUT
  PROVE  /\ NodeIn(create(level, entries, kids), K, G)
         /\ create(level, entries, kids).level = level
         /\ create(level, entries, kids).kids = kids
         /\ create(level, entries, kids).buf = sort_buffer(entries)
<1> DEFINE buf == sort_buffer(entries)
           n == Min({Len(kids), MAX_FANOUT})
           c == SubSeq(kids, 1, n)
           lo == IF buf = <<>> THEN NoKey ELSE Head(buf).key
           hi == IF buf = <<>> THEN NoKey ELSE Last(buf).key
           m == [level |-> level, kids |-> c, min |-> lo, max |-> hi, buf |-> buf]
<1>1. create(level, entries, kids) = m
  BY Zenon DEF create
<1>2. NodeIn(create(level, entries, kids), K, G)
  BY CreateFacts
<1>3. n = Len(kids) /\ Len(kids) \in Nat
  <2>1. Len(kids) \in Nat /\ MAX_FANOUT \in Nat
    BY TreeAssumption
  <2>2. \E x \in {Len(kids), MAX_FANOUT} : \A y \in {Len(kids), MAX_FANOUT} : x <= y
    BY <2>1
  <2>3. n \in {Len(kids), MAX_FANOUT} /\ \A y \in {Len(kids), MAX_FANOUT} : n <= y
    BY <2>2 DEF Min
  <2> QED
    BY <2>1, <2>3
<1> HIDE DEF n
<1>4. c = kids
  <2>1. c = SubSeq(kids, 1, Len(kids))
    BY <1>3
  <2>2. SubSeq(kids, 1, Len(kids)) \in Seq(K) /\ Len(SubSeq(kids, 1, Len(kids))) = Len(kids)
        /\ \A i \in 1..Len(kids) : SubSeq(kids, 1, Len(kids))[i] = kids[i]
    BY <1>3
  <2> DEFINE d == SubSeq(kids, 1, Len(kids))
  <2>3. d \in Seq(K) /\ Len(d) = Len(kids) /\ \A i \in 1..Len(kids) : d[i] = kids[i]
    BY <2>2
  <2> HIDE DEF d
  <2>4. d = kids
    BY <2>3, SeqEqual
  <2> QED
    BY <2>1, <2>4 DEF d
<1> HIDE DEF buf, c, lo, hi
<1> QED
  BY <1>1, <1>2, <1>4 DEF buf

\* A node with another range keeps its level.
LEMMA RangedLinks ==
  ASSUME NEW K, NEW G, NEW n, NodeIn(n, K, G), NEW lo, NEW hi
  PROVE  SameLinks(Ranged(n, lo, hi), n) /\ Ranged(n, lo, hi).min = lo /\ Ranged(n, lo, hi).max = hi
BY DEF NodeIn, Ranged, SameLinks

LEMMA SpanningLinks ==
  ASSUME NEW K, NEW G, NEW n, NodeIn(n, K, G), NEW a, NEW b
  PROVE  /\ SameLinks(Spanning(n, a, b), n)
         /\ Spanning(n, a, b).min = a.min /\ Spanning(n, a, b).max = b.max
<1>1. Spanning(n, a, b) = Ranged(n, a.min, b.max)
  BY DEF Spanning, Ranged
<1> QED
  BY <1>1, RangedLinks

LEMMA FlushToDiskLinks ==
  ASSUME NEW K, NEW G, NEW n, NodeIn(n, K, G)
  PROVE  SameLinks(flush_to_disk(n), n)
<1> DEFINE buf == sort_buffer(n.buf)
           lo  == IF buf # <<>> /\ (n.min = NoKey \/ Head(buf).key < n.min)
                  THEN Head(buf).key ELSE n.min
           hi  == IF buf # <<>> /\ (n.max = NoKey \/ Last(buf).key > n.max)
                  THEN Last(buf).key ELSE n.max
<1>1. flush_to_disk(n) = [n EXCEPT !.buf = buf, !.min = lo, !.max = hi]
  BY Zenon DEF flush_to_disk
<1> HIDE DEF buf, lo, hi
<1> QED
  BY <1>1 DEF NodeIn, SameLinks

LEMMA RefreshedLinks ==
  ASSUME NEW K, NEW G, NEW n, NodeIn(n, K, G)
  PROVE  SameLinks(Refreshed(n), n)
<1>1. CASE n.kids = <<>>
  BY <1>1 DEF Refreshed, SameLinks
<1>2. CASE n.kids # <<>>
  <2> DEFINE span == Spanning(n, Node(Head(n.kids)), Node(Last(n.kids)))
             lo == IF n.min = NoKey \/ span.min < n.min THEN span.min ELSE n.min
             hi == IF n.max = NoKey \/ span.max > n.max THEN span.max ELSE n.max
             m == Ranged(n, lo, hi)
  <2>1. Refreshed(n) = flush_to_disk(m)
    <3>1. Refreshed(n) = LET s == Spanning(n, Node(Head(n.kids)), Node(Last(n.kids)))
                         IN  flush_to_disk([n EXCEPT
                               !.min = IF @ = NoKey \/ s.min < @ THEN s.min ELSE @,
                               !.max = IF @ = NoKey \/ s.max > @ THEN s.max ELSE @])
      BY <1>2 DEF Refreshed
    <3> HIDE DEF span
    <3>2. Refreshed(n) = flush_to_disk([n EXCEPT
                               !.min = IF n.min = NoKey \/ span.min < n.min THEN span.min ELSE n.min,
                               !.max = IF n.max = NoKey \/ span.max > n.max THEN span.max ELSE n.max])
      BY <3>1 DEF span
    <3> QED
      BY <3>2 DEF Ranged
  <2> HIDE DEF lo, hi
  <2>2. NodeIn(m, K, G) /\ SameLinks(m, n)
    BY RangeReplaced, RangedLinks
  <2> HIDE DEF m
  <2>3. SameLinks(flush_to_disk(m), m)
    BY <2>2, FlushToDiskLinks
  <2> QED
    BY <2>1, <2>2, <2>3 DEF SameLinks
<1> QED
  BY <1>1, <1>2

LEMMA RewrittenLinks ==
  ASSUME NEW K, NEW G, IsEntries(G), NEW n, NodeIn(n, K, G), Len(n.kids) <= MAX_FANOUT,
         NEW entries \in Seq(G)
  PROVE  SameLinks(Rewritten(n, entries), n)
<1> DEFINE own == n.buf
           s == merge_sorted_entries(entries, own)
<1>1. own \in Seq(G) /\ n.kids \in Seq(K)
  BY DEF NodeIn
<1> HIDE DEF own
<1>2. s \in Seq(G)
  BY <1>1, MergeCovers
<1>3. Rewritten(n, entries) = create(n.level, s, n.kids)
  BY DEF Rewritten, own
<1> HIDE DEF s
<1> QED
  BY <1>1, <1>2, <1>3, CreateExact DEF SameLinks

-----------------------------------------------------------------------------
(* What the steps that change the tree do to memory *)

\* do_flush up to the rewrite of the parent p: its children old are now new.
LEMMA FlushEffect ==
  ASSUME FilesInv, CacheInv, NEW p \in DOMAIN cache_, cache_[p].kids # <<>>,
         IsInjective(cache_[p].kids), UnreadKids(p) = {},
         FlushChildren(p, Len(cache_[p].kids) + 1)
  PROVE  LET old == cache_[p].kids
             new == NewKids(p)
             n == Len(old)
         IN  /\ n \in Nat \ {0} /\ old \in Seq(Known) /\ DOMAIN old = 1..n
             /\ new \in Seq(Known') /\ Len(new) = n /\ DOMAIN new = 1..n /\ IsInjective(new)
             /\ HitBy(p) \subseteq 1..n /\ Known \subseteq Known'
             /\ \A i \in 1..n : /\ old[i] \in DOMAIN cache_ /\ old[i] # p
                                /\ i \notin HitBy(p) => new[i] = old[i]
                                /\ i \in HitBy(p) => new[i] \notin Known
                                /\ cache_'[new[i]] = Refreshed(MadeKids(p)[i])
             /\ DOMAIN cache_' =
                  (DOMAIN cache_ \ {old[i] : i \in HitBy(p)}) \cup {new[i] : i \in 1..n}
             /\ cache_'[p] = Spanning(Pushed(cache_[p], new), Refreshed(MadeKids(p)[1]),
                                      Refreshed(MadeKids(p)[n]))
             /\ \A q \in DOMAIN cache_ : q # p /\ q \notin ToSet(old) =>
                  q \in DOMAIN cache_' /\ cache_'[q] = cache_[q]
             /\ manifest_'.root = Root
             /\ DOMAIN cache_ = ValidIds(manifest_) => DOMAIN cache_' = ValidIds(manifest_')
             /\ DOMAIN files \subseteq DOMAIN manifest_.nodes =>
                  DOMAIN files' \subseteq DOMAIN manifest_'.nodes
<1> DEFINE parent == cache_[p]
           old    == parent.kids
           stop   == Len(old) + 1
           n      == Len(old)
           hit    == HitBy(p)
           new    == NewKids(p)
           made   == MadeKids(p)
           done   == {i \in DOMAIN old : i < stop}
           kid    == [i \in done |-> Refreshed(made[i])]
           Pos(id) == CHOOSE i \in DOMAIN new : new[i] = id
           Made(id) == IF Pos(id) \in done THEN kid[Pos(id)] ELSE made[Pos(id)]
           written == {new[i] : i \in hit \cup {j \in done : made[j].kids # <<>>}}
           cached  == {new[i] : i \in done}
           fresh   == {new[i] : i \in hit}
           ends   == UNION {ToSet(EndsOf(made[i])) : i \in {j \in DOMAIN old : j <= stop}}
           read   == {e \in ends : Readable(e)}
           gone   == {old[i] : i \in hit}
           erased == {old[i] : i \in {j \in hit : Cardinality({h \in hit : h <= j}) <= stop}}
           whole  == Spanning(Pushed(parent, new), Head(kid), Last(kid))
           top    == IF stop > Len(old) THEN whole
                     ELSE [parent EXCEPT !.kids = new, !.buf = StableSort(@)]
           next == manifest_.next
           m1 == register(manifest_, fresh)
           m2 == invalidate(m1, gone)
           m3 == register(m2, written)
           m4 == take_ids(m3, Cardinality(hit))
           D == ((DOMAIN cache_ \cup ToSet(old) \cup read) \ erased) \cup cached
<1>1. /\ cache_' = [id \in D |->
                      IF id \in cached THEN kid[Pos(id)] ELSE IF id = p THEN top ELSE Node(id)]
      /\ files' = [id \in DOMAIN files \cup written |->
                      IF id \in written THEN Made(id) ELSE files[id]]
      /\ manifest_' = m4
  BY Zenon DEF FlushChildren
<1>2. /\ n \in Nat \ {0} /\ old \in Seq(Known) /\ DOMAIN old = 1..n
      /\ \A i \in 1..n : old[i] \in DOMAIN cache_ /\ old[i] # p
      /\ hit \subseteq 1..n
  BY MadeKidsFacts
<1>3. /\ next \in Nat /\ DOMAIN cache_ \subseteq Known
      /\ \A i \in Known : i \in Nat /\ i < next
  BY DEF CacheInv, Known
<1>4. /\ DOMAIN new = 1..n /\ Cardinality(hit) \in Nat
      /\ \A i \in 1..n \ hit : new[i] = old[i]
      /\ \A i \in hit : new[i] \in Nat /\ new[i] >= next /\ new[i] < next + Cardinality(hit)
      /\ \A i, j \in hit : new[i] = new[j] => i = j
  <2>1. new = Renamed(old, hit)
    BY DEF NewKids
  <2> HIDE DEF new, hit, old
  <2> DEFINE r == Renamed(old, hit)
  <2>2. hit \subseteq DOMAIN old
    BY <1>2
  <2>3. /\ DOMAIN r = DOMAIN old /\ Cardinality(hit) \in Nat
        /\ \A i \in DOMAIN old \ hit : r[i] = old[i]
        /\ \A i \in hit : r[i] \in Nat /\ r[i] >= next /\ r[i] < next + Cardinality(hit)
        /\ \A i, j \in hit : r[i] = r[j] => i = j
    BY <1>2, <1>3, <2>2, RenamedFacts
  <2> HIDE DEF r
  <2>4. new = r /\ DOMAIN old = 1..n
    BY <1>2, <2>1 DEF r
  <2> QED
    BY <2>3, <2>4
<1>5. done = 1..n
  BY <1>2
<1>6. new = [i \in 1..n |-> new[i]]
  BY <1>2 DEF NewKids, Renamed
<1>7. top = whole
  BY <1>2
<1> HIDE DEF parent, old, hit, new, made, done, top
<1>21. IsInjective(old)
  BY DEF old, parent
<1> HIDE DEF n
<1>22. n = Len(old)
  BY DEF n
<1>8. /\ \A i \in 1..n : kid[i] = Refreshed(made[i])
      /\ cached = {new[i] : i \in 1..n} /\ fresh \subseteq written /\ written \subseteq cached
      /\ gone \subseteq ToSet(old)
  BY <1>2, <1>5 DEF ToSet
<1>9. \A i, j \in 1..n : new[i] = new[j] => i = j
  <2>1. \A i, j \in 1..n : old[i] = old[j] => i = j
    BY <1>2, <1>21 DEF IsInjective
  <2>2. \A k \in 1..n \ hit : new[k] \in Nat /\ new[k] < next
    BY <1>2, <1>3, <1>4
  <2> QED
    BY <1>2, <1>3, <1>4, <2>1, <2>2, SMTT(30)
<1>10. \A i \in 1..n : Pos(new[i]) = i
  BY <1>4, <1>9
<1>11. erased = gone
  <2> SUFFICES ASSUME NEW j \in hit PROVE Cardinality({h \in hit : h <= j}) <= stop
    OBVIOUS
  <2> DEFINE H == {h \in hit : h <= j}
  <2>1. H \subseteq 1..n
    BY <1>2
  <2>4. IsFiniteSet(1..n) /\ H \subseteq 1..n => Cardinality(H) <= Cardinality(1..n) /\ IsFiniteSet(H)
    BY FS_Subset
  <2> HIDE DEF H
  <2>2. IsFiniteSet(1..n) /\ Cardinality(1..n) = n
    <3>1. 1 \in Int /\ n \in Int /\ ~(1 > n) /\ n - 1 + 1 = n
      BY <1>2
    <3> QED
      BY <3>1, FS_Interval
  <2>3. Cardinality(H) <= n /\ Cardinality(H) \in Nat
    BY <2>1, <2>2, <2>4, FS_CardinalityType
  <2> QED
    BY <1>2, <1>22, <2>3 DEF H
<1>12. /\ ValidIds(manifest_') = ((ValidIds(manifest_) \cup fresh) \ gone) \cup written
       /\ manifest_'.next = next + Cardinality(hit) /\ manifest_'.root = Root
       /\ DOMAIN manifest_'.nodes = DOMAIN manifest_.nodes \cup fresh \cup written
  <2> HIDE DEF fresh, gone, written
  <2>1. /\ Shaped(m1) /\ ValidIds(m1) = ValidIds(manifest_) \cup fresh /\ m1.next = next
        /\ m1.root = Root /\ DOMAIN m1.nodes = DOMAIN manifest_.nodes \cup fresh
    BY RegisterFacts DEF FilesInv, Root
  <2> HIDE DEF m1
  <2>2. /\ Shaped(m2) /\ ValidIds(m2) = ValidIds(m1) \ gone /\ m2.next = next
        /\ m2.root = Root /\ DOMAIN m2.nodes = DOMAIN m1.nodes
    BY <2>1, InvalidateFacts
  <2> HIDE DEF m2
  <2>3. /\ Shaped(m3) /\ ValidIds(m3) = ValidIds(m2) \cup written /\ m3.next = next
        /\ m3.root = Root /\ DOMAIN m3.nodes = DOMAIN m2.nodes \cup written
    BY <2>2, RegisterFacts
  <2> HIDE DEF m3
  <2>4. /\ ValidIds(m4) = ValidIds(m3) /\ m4.next = next + Cardinality(hit)
        /\ m4.root = Root /\ m4.nodes = m3.nodes
    BY <2>3, TakeIdsFacts
  <2> HIDE DEF m4
  <2> QED
    BY <1>1, <2>1, <2>2, <2>3, <2>4
<1> DEFINE K == Known'
<1>13. Known \subseteq K /\ \A i \in 1..n : new[i] \in K
  <2>1. K = {i \in Nat : i < next + Cardinality(hit)}
    BY <1>12 DEF Known
  <2>2. Known \subseteq K
    BY <1>3, <1>4, <2>1
  <2>3. \A i \in 1..n : new[i] \in K
    BY <1>2, <1>3, <1>4, <2>1, <2>2
  <2> QED
    BY <2>2, <2>3
<1> HIDE DEF K
<1>14. new \in Seq(K) /\ Len(new) = n /\ IsInjective(new)
  <2>1. n \in Nat
    BY <1>2
  <2>2. \A i \in 1..n : new[i] \in K
    BY <1>13
  <2>3. new \in Seq(K) /\ Len(new) = n
    BY ONLY <1>6, <2>1, <2>2
  <2>4. IsInjective(new)
    BY ONLY <1>4, <1>9 DEF IsInjective
  <2> QED
    BY ONLY <2>3, <2>4
<1>15. \A i \in hit : new[i] \notin Known
  BY <1>3, <1>4
<1>16. /\ p \notin cached /\ p \notin ToSet(old)
       /\ \A id \in DOMAIN cache_ : id \in cached => id \in ToSet(old)
  <2>1. ToSet(old) = {old[i] : i \in 1..n}
    BY <1>2 DEF ToSet
  <2>2. ASSUME NEW id \in DOMAIN cache_, NEW i \in 1..n, id = new[i] PROVE id = old[i]
    BY <1>3, <1>4, <2>2
  <2>3. ASSUME NEW id \in DOMAIN cache_, id \in cached PROVE id \in ToSet(old)
    <3>1. PICK i \in 1..n : id = new[i]
      BY <1>8, <2>3
    <3>2. id = old[i]
      BY <2>2, <3>1
    <3> QED
      BY <2>1, <3>2
  <2>4. p \notin ToSet(old)
    BY <1>2, <2>1
  <2> QED
    BY <2>3, <2>4
<1>17. /\ DOMAIN cache_' = (DOMAIN cache_ \ gone) \cup cached
       /\ \A i \in 1..n : cache_'[new[i]] = kid[i]
       /\ cache_'[p] = whole
       /\ \A id \in DOMAIN cache_ : id # p /\ id \notin ToSet(old) =>
            id \in DOMAIN cache_' /\ cache_'[id] = cache_[id]
  <2>1. ToSet(old) \subseteq DOMAIN cache_
    BY <1>2 DEF ToSet
  <2>2. read \subseteq DOMAIN cache_
    BY ReadableCached
  <2>3. \A id \in DOMAIN cache_ : Node(id) = cache_[id]
    BY DEF Node
  <2> HIDE DEF read, erased, gone, cached, kid, Pos, whole
  <2>4. D = (DOMAIN cache_ \ gone) \cup cached
    BY <1>11, <2>1, <2>2
  <2>5. p \in D
    BY <1>8, <1>16, <2>4
  <2> HIDE DEF D
  <2>6. DOMAIN cache_' = D
    BY <1>1
  <2>7. \A id \in D : cache_'[id] = IF id \in cached THEN kid[Pos(id)]
                                   ELSE IF id = p THEN top ELSE Node(id)
    BY <1>1
  <2>8. \A i \in 1..n : new[i] \in cached /\ Pos(new[i]) = i
    BY <1>8, <1>10
  <2>9. \A id \in DOMAIN cache_ : id # p /\ id \notin ToSet(old) =>
            id \in DOMAIN cache_' /\ cache_'[id] = cache_[id]
    BY <1>8, <1>16, <2>3, <2>4, <2>6, <2>7
  <2>10. \A i \in 1..n : cache_'[new[i]] = kid[i]
    BY <2>4, <2>7, <2>8
  <2>11. cache_'[p] = whole
    BY <1>7, <1>16, <2>5, <2>7
  <2> QED
    BY <2>4, <2>6, <2>9, <2>10, <2>11
<1>18. whole = Spanning(Pushed(parent, new), Refreshed(made[1]), Refreshed(made[n]))
  <2> DEFINE R == {Refreshed(made[i]) : i \in 1..n}
  <2>1. kid = [i \in 1..n |-> Refreshed(made[i])]
    BY <1>5
  <2>2. \A i \in 1..n : Refreshed(made[i]) \in R
    OBVIOUS
  <2> HIDE DEF R, kid
  <2>3. kid \in Seq(R) /\ Len(kid) = n
    BY <1>2, <2>1, <2>2
  <2>4. Head(kid) = kid[1] /\ Last(kid) = kid[n]
    BY <1>2, <2>3 DEF Last
  <2>5. kid[1] = Refreshed(made[1]) /\ kid[n] = Refreshed(made[n])
    BY <1>2, <2>1
  <2> QED
    BY <2>4, <2>5
<1> HIDE DEF whole, kid, Pos
<1>19. DOMAIN cache_ = ValidIds(manifest_) => DOMAIN cache_' = ValidIds(manifest_')
  <2>1. cached \subseteq (DOMAIN cache_ \ gone) \cup fresh
    <3> SUFFICES ASSUME NEW i \in 1..n, i \notin hit PROVE new[i] \in DOMAIN cache_ \ gone
      BY <1>8
    <3>1. new[i] = old[i] /\ old[i] \in DOMAIN cache_
      BY <1>2, <1>4
    <3>2. ASSUME NEW j \in hit, old[j] = old[i] PROVE FALSE
      BY <1>2, <1>21, <3>2 DEF IsInjective
    <3> QED
      BY <3>1, <3>2
  <2>2. fresh \cap gone = {}
    BY <1>2, <1>3, <1>15
  <2> HIDE DEF fresh, gone, cached, written
  <2> QED
    BY <1>8, <1>12, <1>17, <2>1, <2>2
<1>20. DOMAIN files' = DOMAIN files \cup written
  BY <1>1
<1> QED
  BY <1>2, <1>4, <1>8, <1>12, <1>13, <1>14, <1>15, <1>17, <1>18, <1>19, <1>20
     DEF parent, old, n, new, hit, made, K

\* The node gone gives way to a and b, under a new root when it was the root.
LEMMA ReplaceEffect ==
  ASSUME FilesInv, CacheInv, NEW gone \in DOMAIN cache_, NEW a, NEW b, NEW isRoot \in BOOLEAN,
         NEW loaded, loaded \subseteq DOMAIN cache_, Replace(gone, a, b, isRoot, loaded)
  PROVE  LET l == manifest_.next
             r == l + 1
             t == l + 2
             made == IF isRoot THEN {l, r, t} ELSE {l, r}
         IN  /\ l # r /\ l # t /\ r # t /\ Known \subseteq Known' /\ l \in Nat
             /\ l \notin Known /\ r \notin Known /\ t \notin Known /\ made \subseteq Known'
             /\ DOMAIN cache_' = (DOMAIN cache_ \cup made) \ {gone}
             /\ cache_'[l] = a /\ cache_'[r] = b
             /\ \A q \in DOMAIN cache_ \ {gone} : q \in DOMAIN cache_' /\ cache_'[q] = cache_[q]
             /\ isRoot => /\ cache_'[t] = Spanning(create(a.level + 1, <<>>, <<l, r>>), a, b)
                          /\ manifest_'.root = t
             /\ ~isRoot => manifest_'.root = Root
             /\ DOMAIN cache_ = ValidIds(manifest_) => DOMAIN cache_' = ValidIds(manifest_')
             /\ DOMAIN files \subseteq DOMAIN manifest_.nodes =>
                  DOMAIN files' \subseteq DOMAIN manifest_'.nodes
<1> DEFINE l == manifest_.next
           r == l + 1
           t == l + 2
           top == Spanning(create(a.level + 1, <<>>, <<l, r>>), a, b)
           made == IF isRoot THEN {l, r, l + 2} ELSE {l, r}
           New(id) == IF id = l THEN a ELSE IF id = r THEN b ELSE top
           m1 == register(manifest_, made)
           m2 == invalidate(m1, {gone})
           m3 == take_ids(m2, Cardinality(made))
           m4 == set_root(m3, IF isRoot THEN l + 2 ELSE Root)
<1>1. /\ cache_' = [id \in (DOMAIN cache_ \cup made \cup loaded) \ {gone} |->
                       IF id \in made THEN New(id) ELSE Node(id)]
      /\ files' = [id \in DOMAIN files \cup made |->
                       IF id \in made THEN New(id) ELSE files[id]]
      /\ manifest_' = m4
  BY Zenon DEF Replace
<1>2. l \in Nat /\ DOMAIN cache_ \subseteq Known /\ \A i \in Known : i \in Nat /\ i < l
  BY DEF CacheInv, Known
<1>3. /\ \A i \in made : i \in Nat /\ i >= l /\ i \notin Known
      /\ l \in made /\ r \in made /\ Cardinality(made) \in Nat
      /\ \A i \in made : i < l + Cardinality(made)
  <2>1. made = l..l + 1 \/ made = l..l + 2
    BY <1>2, IntervalFacts
  <2>2. Cardinality(l..l + 1) = 2 /\ Cardinality(l..l + 2) = 3
    BY <1>2, IntervalFacts
  <2>3. \A i \in Known : i \in Nat /\ i < l
    BY <1>2
  <2> HIDE DEF made
  <2> QED
    BY <1>2, <2>1, <2>2, <2>3
<1>4. /\ ValidIds(manifest_') = (ValidIds(manifest_) \cup made) \ {gone}
      /\ manifest_'.next = l + Cardinality(made)
      /\ manifest_'.root = IF isRoot THEN l + 2 ELSE Root
      /\ DOMAIN manifest_'.nodes = DOMAIN manifest_.nodes \cup made
  <2> HIDE DEF made
  <2>1. /\ Shaped(m1) /\ ValidIds(m1) = ValidIds(manifest_) \cup made /\ m1.next = l
        /\ DOMAIN m1.nodes = DOMAIN manifest_.nodes \cup made
    BY RegisterFacts DEF FilesInv
  <2> HIDE DEF m1
  <2>2. /\ Shaped(m2) /\ ValidIds(m2) = ValidIds(m1) \ {gone} /\ m2.next = l
        /\ DOMAIN m2.nodes = DOMAIN m1.nodes
    BY <2>1, InvalidateFacts
  <2> HIDE DEF m2
  <2>3. /\ Shaped(m3) /\ ValidIds(m3) = ValidIds(m2) /\ m3.next = l + Cardinality(made)
        /\ m3.nodes = m2.nodes
    BY <2>2, TakeIdsFacts
  <2> HIDE DEF m3
  <2>4. /\ ValidIds(m4) = ValidIds(m3) /\ m4.next = l + Cardinality(made) /\ m4.nodes = m3.nodes
        /\ m4.root = IF isRoot THEN l + 2 ELSE Root
    BY <2>3, SetRootFacts
  <2> HIDE DEF m4
  <2> QED
    BY <1>1, <2>1, <2>2, <2>3, <2>4
<1>5. Known' = {i \in Nat : i < l + Cardinality(made)}
  BY <1>4 DEF Known
<1>6. Known \subseteq Known' /\ made \subseteq Known'
  <2> HIDE DEF made
  <2> QED
    BY <1>2, <1>3, <1>5 DEF Known
<1>7. /\ DOMAIN cache_' = (DOMAIN cache_ \cup made) \ {gone} /\ made \subseteq DOMAIN cache_'
      /\ \A i \in made : cache_'[i] = New(i)
      /\ \A i \in DOMAIN cache_ \ {gone} : i \in DOMAIN cache_' /\ cache_'[i] = cache_[i]
  <2>1. gone \notin made /\ \A i \in DOMAIN cache_ : i \notin made
    BY <1>2, <1>3
  <2>2. \A i \in DOMAIN cache_ : Node(i) = cache_[i]
    BY DEF Node
  <2> HIDE DEF made, New
  <2>3. (DOMAIN cache_ \cup made \cup loaded) \ {gone} = (DOMAIN cache_ \cup made) \ {gone}
    OBVIOUS
  <2>4. DOMAIN cache_' = (DOMAIN cache_ \cup made) \ {gone}
    BY <1>1, <2>3
  <2>5. \A i \in DOMAIN cache_' : cache_'[i] = IF i \in made THEN New(i) ELSE Node(i)
    BY <1>1, <2>3
  <2> QED
    BY <2>1, <2>2, <2>4, <2>5
<1>8. l # r /\ l # t /\ r # t /\ l \notin Known /\ r \notin Known /\ t \notin Known
  BY <1>2
<1> HIDE DEF top
<1>9. cache_'[l] = a /\ cache_'[r] = b /\ (isRoot => cache_'[t] = top)
  BY <1>7, <1>8
<1>10. gone \notin made
  BY <1>2, <1>3
<1>11. DOMAIN files' = DOMAIN files \cup made
  BY <1>1
<1> HIDE DEF New
<1>12. DOMAIN cache_ = ValidIds(manifest_) => DOMAIN cache_' = ValidIds(manifest_')
  BY <1>4, <1>7, <1>10
<1> QED
  BY <1>2, <1>4, <1>6, <1>7, <1>8, <1>9, <1>11, <1>12 DEF top

-----------------------------------------------------------------------------
(* The invariant *)

\* A leaf or an internal node was split and its parent is yet to be told.
Splitting == Do("insert_child")

\* The parent was split away in the meantime (tree.cpp:504): the next step throws.
Doomed == Splitting /\ Head(todo).id \notin DOMAIN cache_

\* The nodes in memory, with the pending insert_child carried out.
Tree ==
  IF Splitting
  THEN [cache_ EXCEPT ![Head(todo).id].kids =
          WithSplit(@, Head(todo).old, Head(todo).left, Head(todo).right)]
  ELSE cache_

\* No node has more children than fit, but for the one that a pending insert_child
\* would give one too many.
FanoutInv ==
  \A q \in DOMAIN Tree :
    Len(Tree[q].kids) <= IF Splitting /\ q = Head(todo).id THEN MAX_FANOUT + 1 ELSE MAX_FANOUT

\* The children that do_flush is still to look at are, as far as they and their
\* parent still exist, children of that parent.
CheckOK(x, K, root, c) ==
  x.op = "check" =>
    /\ x.id \in K /\ x.kids \in Seq(K) /\ root \notin ToSet(x.kids)
    /\ x.id \in DOMAIN c => ToSet(x.kids) \cap DOMAIN c \subseteq ToSet(c[x.id].kids)

\* split_leaf works on a leaf, which is the root or a child of the node on its path;
\* insert_child on a node that still names the one that was split.
HeadOK(x, root, c, t) ==
  /\ x.op = "split_leaf" =>
       /\ t[x.id].level = 0
       /\ Len(x.path) = 1 => x.id = root
       /\ Len(x.path) # 1 => /\ x.id # root
                             /\ Head(x.path) \in DOMAIN t => x.id \in ToSet(t[Head(x.path)].kids)
  /\ x.op = "insert_child" => x.old \in ToSet(c[x.id].kids) /\ x.old \notin DOMAIN c

StackOK ==
  todo # <<>> => /\ HeadOK(Head(todo), Root, cache_, Tree)
                 /\ \A x \in ToSet(todo) : CheckOK(x, Known, Root, Tree)

\* The manifest's valid nodes are those in memory, and it knows all files.
ValidInv == DOMAIN cache_ = ValidIds(manifest_) /\ DOMAIN files \subseteq DOMAIN manifest_.nodes

TreeInv == ~Doomed => Shape(Tree, Root) /\ FanoutInv /\ StackOK /\ ValidInv

ShapeInv ==
  /\ session = 0 => DOMAIN files = {}
  /\ Alive => TreeInv

\* What becomes of the tree c, as far as its ids K go, is in the tree d.
Carried(c, d, K) ==
  \A q \in DOMAIN d \cap K :
    q \in DOMAIN c /\ (ToSet(c[q].kids) \cap K) \cap DOMAIN d \subseteq ToSet(d[q].kids)

-----------------------------------------------------------------------------
(* The pending calls *)

\* The call that comes first after a step.
LEMMA NextCall ==
  ASSUME QueueInv, CallsInv, todo # <<>>, NEW ops, IsSeq(ops), Call(ops)
  PROVE  /\ ops # <<>> => todo' # <<>> /\ Head(todo') = Head(ops)
         /\ ops = <<>> => todo' = Tail(todo) /\ (todo' # <<>> =>
              Head(todo').op \in {"save", "gc", "check", "done", "return", "closed", "opened"})
         /\ ToSet(todo') \subseteq ToSet(ops) \cup ToSet(todo)
<1> DEFINE t == Tail(todo)
           E == ToSet(todo)
           S == ToSet(ops) \cup E
<1>1. t \in Seq(E) /\ todo \in Seq(E)
  BY DEF QueueInv, IsSeq
<1>2. todo' = ops \o t /\ ops \in Seq(S) /\ t \in Seq(S)
  BY <1>1 DEF IsSeq, Call
<1>3. AllPassive(t, Known)
  BY DEF CallsInv
<1>4. ToSet(t) \subseteq E
  BY <1>1, ToSetFacts
<1> HIDE DEF t, S
<1>5. ToSet(ops \o t) = ToSet(ops) \cup ToSet(t)
  BY <1>2, ToSetConcat
<1>6. ops # <<>> => ops \o t # <<>> /\ Head(ops \o t) = Head(ops)
  BY <1>2
<1>7. ops = <<>> => ops \o t = t
  BY <1>2, ConcatEmptySeq
<1>8. t # <<>> => Head(t) \in ToSet(t)
  <2> SUFFICES ASSUME t # <<>> PROVE Head(t) \in ToSet(t)
    OBVIOUS
  <2>1. Head(t) = t[1] /\ 1 \in 1..Len(t)
    BY <1>1
  <2> QED
    BY <1>1, <2>1, ToSetFacts
<1> QED
  BY <1>2, <1>3, <1>4, <1>5, <1>6, <1>7, <1>8 DEF AllPassive, t

\* The stack of calls is still in order after a step that keeps what it knows.
LEMMA StackStep ==
  ASSUME QueueInv, CallsInv, StackOK, todo # <<>>, Known \subseteq Known',
         Carried(Tree, Tree', Known), Root' = Root \/ Root' \notin Known,
         NEW ops, IsSeq(ops), Call(ops),
         ops # <<>> => HeadOK(Head(ops), Root', cache_', Tree'),
         \A x \in ToSet(ops) : CheckOK(x, Known', Root', Tree')
  PROVE  StackOK'
<1>1. /\ ops # <<>> => todo' # <<>> /\ Head(todo') = Head(ops)
      /\ ops = <<>> => (todo' # <<>> =>
           Head(todo').op \in {"save", "gc", "check", "done", "return", "closed", "opened"})
      /\ ToSet(todo') \subseteq ToSet(ops) \cup ToSet(todo)
  BY NextCall
<1>2. todo' # <<>> => HeadOK(Head(todo'), Root', cache_', Tree')
  BY <1>1 DEF HeadOK
<1> DEFINE K == Known
           L == Known'
           c == Tree
           d == Tree'
           r == Root
           s == Root'
<1>3. ASSUME NEW x \in ToSet(todo) PROVE CheckOK(x, L, s, d)
  <2>1. CheckOK(x, K, r, c)
    BY DEF StackOK
  <2>2. K \subseteq L /\ Carried(c, d, K) /\ (s = r \/ s \notin K)
    OBVIOUS
  <2> HIDE DEF K, L, c, d, r, s
  <2> SUFFICES ASSUME x.op = "check"
               PROVE  /\ x.id \in L /\ x.kids \in Seq(L) /\ s \notin ToSet(x.kids)
                      /\ x.id \in DOMAIN d => ToSet(x.kids) \cap DOMAIN d \subseteq ToSet(d[x.id].kids)
    BY DEF CheckOK
  <2>3. /\ x.id \in K /\ x.kids \in Seq(K) /\ r \notin ToSet(x.kids)
        /\ x.id \in DOMAIN c => ToSet(x.kids) \cap DOMAIN c \subseteq ToSet(c[x.id].kids)
    BY <2>1 DEF CheckOK
  <2>4. ToSet(x.kids) \subseteq K /\ x.kids \in Seq(L)
    BY <2>2, <2>3, ToSetFacts
  <2>5. ASSUME x.id \in DOMAIN d, NEW k \in ToSet(x.kids) \cap DOMAIN d PROVE k \in ToSet(d[x.id].kids)
    <3>1. x.id \in DOMAIN c
      BY <2>2, <2>3, <2>5 DEF Carried
    <3>2. k \in DOMAIN c
      BY <2>2, <2>4, <2>5 DEF Carried
    <3>3. k \in (ToSet(c[x.id].kids) \cap K) \cap DOMAIN d
      BY <2>3, <2>4, <2>5, <3>1, <3>2
    <3> QED
      BY <2>2, <2>3, <2>5, <3>3 DEF Carried
  <2> QED
    BY <2>2, <2>3, <2>4, <2>5
<1>4. \A x \in ToSet(todo') : CheckOK(x, L, s, d)
  BY <1>1, <1>3
<1> QED
  BY <1>2, <1>4 DEF StackOK

-----------------------------------------------------------------------------
(* Steps that leave the tree as it is *)

LEMMA TreeIs ==
  /\ ~Splitting => Tree = cache_
  /\ ~Splitting' => Tree' = cache_'
BY DEF Tree

\* The tree while an insert_child is pending.
LEMMA TreeSplitting ==
  ASSUME CacheInv, CallsInv, StackOK, Splitting, ~Doomed,
         NEW op, op = Head(todo)
  PROVE  /\ op.id \in DOMAIN cache_ /\ op.old \in ToSet(cache_[op.id].kids)
         /\ op.old \notin DOMAIN cache_ /\ op.left \in Known /\ op.right \in Known
         /\ cache_[op.id].kids \in Seq(Known)
         /\ DOMAIN Tree = DOMAIN cache_ /\ \A q \in DOMAIN cache_ : q # op.id => Tree[q] = cache_[q]
         /\ NodeIn(Tree[op.id], Known, Genuine)
         /\ Tree[op.id].kids = WithSplit(cache_[op.id].kids, op.old, op.left, op.right)
         /\ Tree[op.id].level = cache_[op.id].level /\ Tree[op.id].buf = cache_[op.id].buf
         /\ Tree[op.id].min = cache_[op.id].min /\ Tree[op.id].max = cache_[op.id].max
         /\ \E i \in 1..Len(cache_[op.id].kids) :
              /\ cache_[op.id].kids[i] = op.old
              /\ SplitAt(Tree[op.id].kids, cache_[op.id].kids, i, op.left, op.right)
<1> DEFINE p == op.id
           n == cache_[p]
           w == WithSplit(n.kids, op.old, op.left, op.right)
           m == [n EXCEPT !.kids = w]
<1>1. /\ todo # <<>> /\ op.op = "insert_child" /\ p \in DOMAIN cache_
      /\ op.left \in Known /\ op.right \in Known
      /\ op.old \in ToSet(n.kids) /\ op.old \notin DOMAIN cache_
  BY DEF Splitting, Doomed, Do, CallsInv, CallReady, StackOK, HeadOK
<1>2. NodeIn(n, Known, Genuine) /\ n.kids \in Seq(Known)
  BY <1>1 DEF CacheInv, NodeIn
<1>3. Tree = [cache_ EXCEPT ![p].kids = w]
  BY DEF Tree
<1> HIDE DEF w
<1>4. DOMAIN Tree = DOMAIN cache_ /\ Tree[p] = m /\ \A q \in DOMAIN cache_ : q # p => Tree[q] = cache_[q]
  BY <1>1, <1>3
<1>5. /\ w \in Seq(Known)
      /\ \E i \in 1..Len(n.kids) : n.kids[i] = op.old /\ SplitAt(w, n.kids, i, op.left, op.right)
  BY <1>1, <1>2, WithSplitIs DEF w
<1> HIDE DEF n
<1>6. NodeIn(m, Known, Genuine) /\ m.kids = w
  BY <1>2, <1>5, KidsReplaced
<1>7. m.level = n.level /\ m.buf = n.buf /\ m.min = n.min /\ m.max = n.max
  BY <1>2 DEF NodeIn
<1> HIDE DEF m
<1> QED
  BY <1>1, <1>2, <1>4, <1>5, <1>6, <1>7 DEF n, w

\* A step that touches neither tree nor calls.
LEMMA QuietTree ==
  ASSUME TreeInv, UNCHANGED <<cache_, manifest_, files, todo>>
  PROVE  TreeInv'
<1>1. Splitting' = Splitting /\ Doomed' = Doomed /\ Tree' = Tree
  BY DEF Splitting, Doomed, Tree, Do
<1>2. Root' = Root /\ Known' = Known /\ ValidIds(manifest_)' = ValidIds(manifest_)
  BY DEF Root, Known
<1>3. FanoutInv => FanoutInv'
  BY <1>1 DEF FanoutInv
<1>4. StackOK => StackOK'
  BY <1>1, <1>2 DEF StackOK
<1>5. ValidInv => ValidInv'
  BY <1>2 DEF ValidInv
<1> QED
  BY <1>1, <1>2, <1>3, <1>4, <1>5 DEF TreeInv

\* A step that keeps all levels and links.
LEMMA LinksKept ==
  ASSUME TreeInv, ~Splitting, ~Splitting',
         DOMAIN cache_' = DOMAIN cache_, \A q \in DOMAIN cache_ : SameLinks(cache_'[q], cache_[q]),
         Root' = Root
  PROVE  /\ Shape(Tree', Root') /\ FanoutInv' /\ Carried(Tree, Tree', Known)
<1>1. Tree = cache_ /\ Tree' = cache_' /\ ~Doomed
  BY TreeIs DEF Doomed
<1>2. Shape(cache_, Root) /\ FanoutInv
  BY <1>1 DEF TreeInv
<1>3. Shape(cache_', Root)
  BY <1>2, ShapeSame
<1>4. FanoutInv'
  BY <1>1, <1>2 DEF FanoutInv, SameLinks
<1>5. Carried(cache_, cache_', Known)
  BY DEF Carried, SameLinks
<1> QED
  BY <1>1, <1>3, <1>4, <1>5

\* Such a step of the first pending call.
LEMMA CallLinksKept ==
  ASSUME QueueInv, CallsInv, TreeInv, ~Splitting, todo # <<>>,
         DOMAIN cache_' = DOMAIN cache_, \A q \in DOMAIN cache_ : SameLinks(cache_'[q], cache_[q]),
         Root' = Root, Known' = Known, ValidInv',
         NEW ops, IsSeq(ops), Call(ops),
         ops # <<>> => Head(ops).op # "insert_child" /\ HeadOK(Head(ops), Root', cache_', cache_'),
         \A x \in ToSet(ops) : CheckOK(x, Known', Root', cache_')
  PROVE  TreeInv'
<1>1. ~Splitting'
  BY NextCall DEF Splitting, Do
<1>2. Shape(Tree', Root') /\ FanoutInv' /\ Carried(Tree, Tree', Known) /\ Tree' = cache_'
  BY <1>1, LinksKept, TreeIs
<1>3. StackOK
  BY DEF TreeInv, Doomed
<1>4. StackOK'
  BY <1>2, <1>3, StackStep
<1> QED
  BY <1>2, <1>4 DEF TreeInv

\* A drain puts its batch into the root and calls nothing that needs an older list
\* of children.
LEMMA DrainTree ==
  ASSUME CacheInv, TreeInv, todo = <<>>, NEW calls, NEW last, Drain(calls, last),
         UNCHANGED <<manifest_, files>>, IsSeq(calls), last.op \in {"done", "return", "closed"},
         \A x \in ToSet(calls) : x.op \notin {"check", "insert_child"},
         calls # <<>> /\ Head(calls).op = "split_leaf" =>
           Head(calls).id = Root /\ Len(Head(calls).path) = 1 /\ cache_[Root].level = 0
  PROVE  TreeInv'
<1>1. ~Splitting /\ ~Doomed /\ Tree = cache_
  BY TreeIs DEF Splitting, Doomed, Do
<1>2. Shape(cache_, Root) /\ FanoutInv /\ ValidInv /\ Root \in DOMAIN cache_
  BY <1>1 DEF TreeInv, Shape
<1>3. Readable(Root) /\ Cached({Root}) = cache_
  BY <1>2, ReadableCached
<1>4. cache_' = [cache_ EXCEPT ![Root].buf = Merged] /\ todo' = calls \o <<last>>
  BY <1>3 DEF Drain
<1>5. /\ DOMAIN cache_' = DOMAIN cache_
      /\ \A q \in DOMAIN cache_ : SameLinks(cache_'[q], cache_[q])
  <2>1. cache_'[Root] = [cache_[Root] EXCEPT !.buf = Merged] /\ DOMAIN cache_' = DOMAIN cache_
        /\ \A q \in DOMAIN cache_ : q # Root => cache_'[q] = cache_[q]
    BY <1>2, <1>4
  <2>2. NodeIn(cache_[Root], Known, Genuine)
    BY <1>2 DEF CacheInv
  <2>3. SameLinks(cache_'[Root], cache_[Root])
    BY <2>1, <2>2 DEF NodeIn, SameLinks
  <2> QED
    BY <2>1, <2>3 DEF SameLinks
<1> DEFINE b == <<last>>
           S == ToSet(calls) \cup {last}
<1>6. b \in Seq(S) /\ calls \in Seq(S) /\ ToSet(b) = {last} /\ Head(b) = last
  BY DEF IsSeq, ToSet
<1> HIDE DEF b, S
<1>7. ToSet(todo') = S /\ todo' # <<>> /\ Head(todo') = IF calls = <<>> THEN last ELSE Head(calls)
  <2>1. todo' = calls \o b
    BY <1>4 DEF b
  <2>2. ToSet(calls \o b) = ToSet(calls) \cup ToSet(b)
    BY <1>6, ToSetConcat
  <2>3. b # <<>> /\ Len(b) = 1
    BY DEF b
  <2>4. calls # <<>> => calls \o b # <<>> /\ Head(calls \o b) = Head(calls)
    BY <1>6
  <2>5. calls = <<>> => calls \o b = b
    BY <1>6, ConcatEmptySeq
  <2> QED
    BY <1>6, <2>1, <2>2, <2>3, <2>4, <2>5 DEF S
<1>8. calls # <<>> => Head(calls) \in ToSet(calls)
  <2> SUFFICES ASSUME calls # <<>> PROVE Head(calls) \in ToSet(calls)
    OBVIOUS
  <2>1. Head(calls) = calls[1] /\ 1 \in DOMAIN calls
    BY SeqFacts
  <2> QED
    BY <2>1 DEF ToSet
<1>9. \A x \in S : x.op \notin {"check", "insert_child"}
  BY DEF S
<1>10. ~Splitting'
  BY <1>7, <1>8, <1>9 DEF Splitting, Do, S
<1>11. Root' = Root /\ Known' = Known /\ ValidInv'
  BY <1>2, <1>5 DEF Root, Known, ValidInv
<1>12. Shape(Tree', Root') /\ FanoutInv' /\ Tree' = cache_'
  BY <1>5, <1>1, <1>10, <1>11, LinksKept, TreeIs
<1>13. HeadOK(Head(todo'), Root', cache_', cache_')
  <2>1. Head(todo').op # "insert_child"
    BY <1>7, <1>8, <1>9 DEF S
  <2>2. Head(todo').op = "split_leaf" =>
          Head(todo').id = Root /\ Len(Head(todo').path) = 1 /\ cache_[Root].level = 0
    BY <1>7
  <2>3. cache_'[Root].level = cache_[Root].level
    BY <1>2, <1>5 DEF SameLinks
  <2> QED
    BY <1>11, <2>1, <2>2, <2>3 DEF HeadOK
<1>14. StackOK'
  BY <1>7, <1>9, <1>12, <1>13 DEF StackOK, CheckOK
<1> QED
  BY <1>11, <1>12, <1>14 DEF TreeInv

\* Steps of the clients.
LEMMA ClientTree ==
  ASSUME LiveInv, TreeInv, Client
  PROVE  TreeInv'
<1>1. ASSUME NEW k \in Keys, Get(k) PROVE TreeInv'
  <2>1. cache_' = cache_
    BY <1>1, ReadableCached DEF Get, LiveInv
  <2>2. UNCHANGED <<cache_, manifest_, files, todo>>
    BY <1>1, <2>1 DEF Get, disk
  <2> QED
    BY <2>2, QuietTree
<1>2. ASSUME NEW k \in Keys, remove(k) \/ \E sz \in Sizes : insert(k, sz) PROVE TreeInv'
  <2>1. UNCHANGED <<cache_, manifest_, files, todo>>
    BY <1>2 DEF remove, insert, Write, memory, disk
  <2> QED
    BY <2>1, QuietTree
<1>3. CASE RequestFlush
  <2>1. UNCHANGED <<cache_, manifest_, files, todo>>
    BY <1>3 DEF RequestFlush, memory, disk
  <2> QED
    BY <2>1, QuietTree
<1>4. CASE BackgroundFlush
  <2> DEFINE n == Node(Root)
             over == OnOverflow(Root, n, <<Root>>)
             calls == IF buffer_full(Merged) THEN over ELSE <<>>
             last == [op |-> "done"]
             f == [op |-> "do_flush", id |-> Root]
             l == [op |-> "split_leaf", id |-> Root, path |-> <<Root>>]
  <2>1. Drain(calls, last) /\ todo = <<>> /\ UNCHANGED <<manifest_, files>>
    BY <1>4 DEF BackgroundFlush, disk
  <2>2. calls = <<>> \/ calls = <<f>> \/ (calls = <<l>> /\ n.level = 0)
    BY DEF OnOverflow
  <2>3. n = cache_[Root]
    <3>1. Tree = cache_ /\ ~Doomed
      BY <2>1, TreeIs DEF Splitting, Doomed, Do
    <3>2. Root \in DOMAIN cache_
      BY <3>1 DEF TreeInv, Shape
    <3> QED
      BY <3>2 DEF Node
  <2> HIDE DEF calls, n
  <2>4. IsSeq(calls)
    BY <2>2, CallsOne, CallsNone DEF Calls
  <2>5. ToSet(<<f>>) = {f} /\ ToSet(<<l>>) = {l} /\ ToSet(<<>>) = {}
        /\ Head(<<l>>) = l /\ Head(<<f>>) = f
    BY DEF ToSet
  <2>6. f.op = "do_flush" /\ l.op = "split_leaf" /\ l.id = Root /\ Len(l.path) = 1 /\ last.op = "done"
    OBVIOUS
  <2> HIDE DEF f, l, last
  <2>7. \A x \in ToSet(calls) : x.op \notin {"check", "insert_child"}
    BY <2>2, <2>5, <2>6
  <2>8. calls # <<>> /\ Head(calls).op = "split_leaf" =>
          Head(calls).id = Root /\ Len(Head(calls).path) = 1 /\ cache_[Root].level = 0
    BY <2>2, <2>3, <2>5, <2>6
  <2> QED
    BY <2>1, <2>4, <2>6, <2>7, <2>8, DrainTree DEF LiveInv
<1>5. ASSUME NEW end \in {"return", "closed"}, PersistRoot(end) PROVE TreeInv'
  <2> DEFINE last == [op |-> end, covers |-> [k \in Keys |-> latest[k].val]]
             p == Persist(Root)
             s == Save
  <2>1. Drain(RootWrites, last) /\ todo = <<>> /\ UNCHANGED <<manifest_, files>>
    BY <1>5 DEF PersistRoot, disk
  <2>2. RootWrites = <<>> \/ RootWrites = <<p, s>>
    BY DEF RootWrites
  <2>3. last.op = end /\ p.op = "persist" /\ s.op = "save"
    BY DEF Persist, Save
  <2> HIDE DEF last, p, s
  <2>4. IsSeq(<<p, s>>) /\ Head(<<p, s>>) = p /\ ToSet(<<p, s>>) = {p, s}
    <3>1. ToSet(<<p, s>>) = {p, s}
      BY DEF ToSet
    <3> QED
      BY <3>1, PairFacts
  <2>5. IsSeq(<<>>) /\ ToSet(<<>>) = {}
    BY CallsNone DEF Calls, ToSet
  <2> QED
    BY <1>5, <2>1, <2>2, <2>3, <2>4, <2>5, DrainTree DEF LiveInv
<1> QED
  BY <1>1, <1>2, <1>3, <1>4, <1>5 DEF Client, Flush, Close

\* Steps under cache_mu_ that leave the links alone.
LEMMA QuietWorkTree ==
  ASSUME QueueInv, FilesInv, LiveInv, TreeInv, Done \/ Return \/ Opened \/ SaveManifest
  PROVE  TreeInv'
<1>1. /\ todo # <<>> /\ ~Splitting /\ Call(<<>>) /\ UNCHANGED <<cache_, manifest_, files>>
  BY DEF Done, Return, Opened, SaveManifest, memory, disk, Do, Splitting
<1>2. IsSeq(<<>>) /\ ToSet(<<>>) = {}
  BY CallsNone DEF Calls, ToSet
<1>3. ~Doomed
  BY <1>1 DEF Doomed
<1>4. Root' = Root /\ Known' = Known /\ ValidInv'
  BY <1>1, <1>3 DEF Root, Known, ValidInv, TreeInv
<1>5. \A q \in DOMAIN cache_ : SameLinks(cache_'[q], cache_[q])
  BY <1>1 DEF SameLinks
<1> QED
  BY <1>1, <1>2, <1>4, <1>5, CallLinksKept DEF LiveInv

\* One round of do_flush's last loop.
LEMMA CheckChildTree ==
  ASSUME QueueInv, FilesInv, LiveInv, TreeInv, CheckChild
  PROVE  TreeInv'
<1> DEFINE op == Head(todo)
           c == Head(op.kids)
           next == Unchecked(op)
           over == OnOverflow(c, cache_[c], <<op.id, c>>)
           f == [op |-> "do_flush", id |-> c]
           l == [op |-> "split_leaf", id |-> c, path |-> <<op.id, c>>]
<1>1. /\ Do("check") /\ todo # <<>> /\ op.op = "check" /\ ~Splitting /\ ~Doomed
      /\ UNCHANGED <<cache_, manifest_, files>>
  BY DEF CheckChild, Do, Splitting, Doomed, memory, disk
<1>2. op \in ToSet(todo)
  <2>1. Head(todo) = todo[1] /\ 1 \in DOMAIN todo
    BY <1>1, SeqFacts DEF QueueInv
  <2> QED
    BY <2>1 DEF ToSet
<1>3. Root' = Root /\ Known' = Known /\ ValidInv' /\ StackOK /\ Tree = cache_
  BY <1>1, TreeIs DEF Root, Known, ValidInv, TreeInv
<1>4. /\ op.id \in Known /\ op.kids \in Seq(Known) /\ Root \notin ToSet(op.kids)
      /\ op.id \in DOMAIN cache_ => ToSet(op.kids) \cap DOMAIN cache_ \subseteq ToSet(cache_[op.id].kids)
  BY <1>1, <1>2, <1>3 DEF StackOK, CheckOK
<1>5. \A q \in DOMAIN cache_ : SameLinks(cache_'[q], cache_[q])
  BY <1>1 DEF SameLinks
<1>6. CASE op.kids = <<>>
  <2>1. Call(<<>>)
    BY <1>6 DEF CheckChild
  <2>2. IsSeq(<<>>) /\ ToSet(<<>>) = {}
    BY CallsNone DEF Calls, ToSet
  <2> QED
    BY <1>1, <1>3, <1>5, <2>1, <2>2, CallLinksKept DEF LiveInv
<1>7. CASE op.kids # <<>>
  <2>1. next.op = "check" /\ next.id = op.id /\ next.kids = Tail(op.kids)
    BY DEF Unchecked, Check
  <2>2. c \in ToSet(op.kids) /\ Tail(op.kids) \in Seq(Known) /\ ToSet(Tail(op.kids)) \subseteq ToSet(op.kids)
    <3> DEFINE s == op.kids
               u == Tail(s)
    <3>1. /\ u \in Seq(Known) /\ Len(s) \in Nat /\ Len(u) = Len(s) - 1 /\ Head(s) = s[1]
          /\ 1 \in 1..Len(s) /\ \A i \in 1..Len(u) : u[i] = s[i + 1]
      BY <1>4, <1>7, HeadTailProperties
    <3>2. s \in Seq(Known)
      BY <1>4
    <3> HIDE DEF u, s
    <3>3. ToSet(s) = {s[i] : i \in 1..Len(s)} /\ ToSet(u) = {u[i] : i \in 1..Len(u)}
      BY <3>1, <3>2, ToSetFacts
    <3>4. \A i \in 1..Len(u) : i + 1 \in 1..Len(s)
      BY <3>1
    <3> QED
      BY <3>1, <3>3, <3>4 DEF u, s
  <2>3. CheckOK(next, Known, Root, cache_)
    <3> HIDE DEF next
    <3> QED
      BY <1>4, <2>1, <2>2 DEF CheckOK
  <2>4. CASE Call(<<next>>)
    <3> HIDE DEF next
    <3>1. IsSeq(<<next>>) /\ ToSet(<<next>>) = {next} /\ Head(<<next>>) = next
      <4>1. ToSet(<<next>>) = {next}
        BY DEF ToSet
      <4>2. IsSeq(<<next>>)
        BY <2>1, CallsOne DEF Calls
      <4> QED
        BY <4>1, <4>2
    <3>2. HeadOK(next, Root', cache_', cache_') /\ next.op # "insert_child"
      BY <2>1 DEF HeadOK
    <3>3. \A x \in ToSet(<<next>>) : CheckOK(x, Known', Root', cache_')
      BY <1>1, <1>3, <2>3, <3>1
    <3> DEFINE ops == <<next>>
    <3>4. Call(ops) /\ IsSeq(ops) /\ Head(ops) = next /\ \A x \in ToSet(ops) : CheckOK(x, Known', Root', cache_')
      BY <2>4, <3>1, <3>3
    <3> HIDE DEF ops
    <3> QED
      BY <1>1, <1>3, <1>5, <3>2, <3>4, CallLinksKept DEF LiveInv
  <2>5. CASE c \in DOMAIN cache_ /\ Call(over \o <<next>>)
    <3>1. over = <<>> \/ over = <<f>> \/ (over = <<l>> /\ cache_[c].level = 0)
      BY DEF OnOverflow
    <3>2. /\ f.op = "do_flush" /\ f.id = c /\ l.op = "split_leaf" /\ l.id = c
          /\ Len(l.path) = 2 /\ Head(l.path) = op.id
      OBVIOUS
    <3> HIDE DEF f, l, over, next
    <3>3. CASE over = <<>>
      <4>1. over \o <<next>> = <<next>>
        <5>1. <<next>> \in Seq({next})
          OBVIOUS
        <5> QED
          BY <3>3, <5>1, ConcatEmptySeq
      <4> QED
        BY <2>4, <2>5, <4>1
    <3>4. ASSUME NEW x, over = <<x>>, x = f \/ (x = l /\ cache_[c].level = 0) PROVE TreeInv'
      <4> DEFINE ops == <<x>> \o <<next>>
      <4>1. ops = <<x, next>> /\ IsSeq(ops) /\ Head(ops) = x
        BY PairFacts
      <4>2. ToSet(ops) = {x, next}
        <5>1. ToSet(<<x, next>>) = {x, next}
          BY DEF ToSet
        <5> QED
          BY <4>1, <5>1
      <4>3. Call(ops)
        BY <2>5, <3>4
      <4> HIDE DEF ops
      <4>4. x.op # "check" /\ x.op # "insert_child"
        BY <3>2, <3>4
      <4>5. HeadOK(x, Root', cache_', cache_')
        <5> SUFFICES ASSUME x.op = "split_leaf"
                     PROVE  /\ cache_[x.id].level = 0 /\ Len(x.path) # 1 /\ x.id # Root
                            /\ Head(x.path) \in DOMAIN cache_ => x.id \in ToSet(cache_[Head(x.path)].kids)
          BY <1>1, <1>3, <4>4 DEF HeadOK
        <5>1. x = l /\ cache_[c].level = 0
          BY <3>2, <3>4
        <5>2. c # Root
          BY <1>4, <2>2
        <5>3. /\ cache_[c].level = 0 /\ Len(l.path) # 1 /\ l.id = c /\ Head(l.path) = op.id
              /\ op.id \in DOMAIN cache_ => c \in ToSet(cache_[op.id].kids)
          <6> HIDE DEF c, op
          <6> QED
            BY <1>4, <2>2, <2>5, <3>2, <5>1
        <5> HIDE DEF c, op
        <5> QED
          BY <5>1, <5>2, <5>3
      <4>6. \A y \in ToSet(ops) : CheckOK(y, Known', Root', cache_')
        BY <1>1, <1>3, <2>3, <4>2, <4>4 DEF CheckOK
      <4> QED
        BY <1>1, <1>3, <1>5, <4>1, <4>3, <4>4, <4>5, <4>6, CallLinksKept DEF LiveInv
    <3> QED
      BY <3>1, <3>3, <3>4
  <2> QED
    BY <1>7, <2>4, <2>5 DEF CheckChild
<1> QED
  BY <1>6, <1>7

\* The writes to disk.
LEMMA DiskTree ==
  ASSUME QueueInv, FilesInv, LiveInv, TreeInv, PersistNode \/ CollectGarbage
  PROVE  TreeInv'
<1>1. IsSeq(<<>>) /\ ToSet(<<>>) = {}
  BY CallsNone DEF Calls, ToSet
<1>2. CASE PersistNode
  <2> DEFINE id == Head(todo).id
             n == flush_to_disk(cache_[id])
  <2>1. /\ todo # <<>> /\ ~Splitting /\ ~Doomed /\ id \in DOMAIN cache_
        /\ cache_' = [cache_ EXCEPT ![id] = n] /\ DOMAIN files' = DOMAIN files \cup {id}
        /\ manifest_' = register(manifest_, {id}) /\ Call(<<>>)
    BY <1>2 DEF PersistNode, Do, Splitting, Doomed, LiveInv, CallsInv, CallReady
  <2> HIDE DEF id
  <2>2. /\ Root' = Root /\ Known' = Known /\ ValidIds(manifest_') = ValidIds(manifest_) \cup {id}
        /\ DOMAIN manifest_'.nodes = DOMAIN manifest_.nodes \cup {id}
    BY <2>1, RegisterFacts DEF FilesInv, Root, Known
  <2>3. NodeIn(cache_[id], Known, Genuine)
    BY <2>1 DEF LiveInv, CacheInv
  <2>4. SameLinks(n, cache_[id])
    BY <2>3, FlushToDiskLinks
  <2> HIDE DEF n
  <2>5. DOMAIN cache_' = DOMAIN cache_ /\ \A q \in DOMAIN cache_ : SameLinks(cache_'[q], cache_[q])
    BY <2>1, <2>4 DEF SameLinks
  <2>6. ValidInv'
    BY <2>1, <2>2, <2>5 DEF ValidInv, TreeInv
  <2> QED
    BY <1>1, <2>1, <2>2, <2>5, <2>6, CallLinksKept DEF LiveInv
<1>3. CASE CollectGarbage
  <2>1. todo # <<>> /\ ~Splitting /\ ~Doomed /\ cache_' = cache_
    BY <1>3 DEF CollectGarbage, Do, Splitting, Doomed
  <2>2. \A q \in DOMAIN cache_ : SameLinks(cache_'[q], cache_[q])
    BY <2>1 DEF SameLinks
  <2>3. CASE Call(<<>>) /\ UNCHANGED <<files, manifest_>>
    <3>1. Root' = Root /\ Known' = Known /\ ValidInv'
      BY <2>1, <2>3 DEF Root, Known, ValidInv, TreeInv
    <3> QED
      BY <1>1, <2>1, <2>2, <2>3, <3>1, CallLinksKept DEF LiveInv
  <2>4. ASSUME NEW id \in InvalidIds(manifest_), files' = Restrict(files, DOMAIN files \ {id}),
               manifest_' = forget(manifest_, id), UNCHANGED todo
        PROVE  TreeInv'
    <3>1. /\ Root' = Root /\ Known' = Known /\ ValidIds(manifest_') = ValidIds(manifest_)
          /\ DOMAIN manifest_'.nodes = DOMAIN manifest_.nodes \ {id}
      BY <2>4, ForgetFacts DEF FilesInv, Root, Known
    <3>2. DOMAIN files' = DOMAIN files \ {id}
      BY <2>4 DEF Restrict
    <3>3. ValidInv'
      BY <2>1, <3>1, <3>2 DEF ValidInv, TreeInv
    <3>4. ~Splitting' /\ ~Doomed'
      BY <2>1, <2>4 DEF Splitting, Doomed, Do
    <3>5. Shape(Tree', Root') /\ FanoutInv'
      BY <2>1, <2>2, <3>1, <3>4, LinksKept
    <3>6. Tree' = Tree
      BY <2>1, <3>4, TreeIs
    <3>7. StackOK'
      BY <2>1, <2>4, <3>1, <3>6 DEF StackOK, TreeInv
    <3> QED
      BY <3>3, <3>5, <3>7 DEF TreeInv
  <2> QED
    BY <1>3, <2>3, <2>4 DEF CollectGarbage
<1> QED
  BY <1>2, <1>3

-----------------------------------------------------------------------------
(* insert_child into a parent with a free slot *)

LEMMA InsertChildEffect ==
  ASSUME FilesInv, LiveInv, TreeInv, InsertChild,
         NEW op, op = Head(todo), NEW w, w = Tree[op.id].kids
  PROVE  /\ todo # <<>> /\ Splitting /\ ~Doomed /\ op.id \in DOMAIN cache_
         /\ cache_' = [cache_ EXCEPT
                         ![op.id] = Spanning(Tree[op.id], Node(Head(w)), Node(Last(w)))]
         /\ Len(cache_[op.id].kids) # MAX_FANOUT /\ Call(<<Persist(op.id)>>)
         /\ UNCHANGED <<write_buf, manifest_, files>>
<1> DEFINE id == op.id
           parent == cache_[id]
           kids == WithSplit(parent.kids, op.old, op.left, op.right)
           m == [parent EXCEPT !.kids = kids]
<1>1. /\ Splitting /\ todo # <<>> /\ Missing(op) = {} /\ ~MustSplit(op)
      /\ UNCHANGED <<write_buf, manifest_, files>>
  BY DEF InsertChild, Splitting, Do, disk
<1>2. id \in DOMAIN cache_ /\ Node(id) = parent /\ Cached({id}) = cache_
  BY <1>1, ReadableCached DEF Missing, LiveInv
<1>3. ~Doomed /\ StackOK
  BY <1>1, <1>2 DEF Doomed, TreeInv
<1>4. op.old \in ToSet(parent.kids)
  BY <1>1, <1>3, TreeSplitting DEF LiveInv
<1>5. Len(parent.kids) # MAX_FANOUT
  BY <1>1, <1>2, <1>4 DEF MustSplit
<1>6. /\ cache_' = [cache_ EXCEPT ![id] = Spanning(m, Node(Head(kids)), Node(Last(kids)))]
      /\ Call(<<Persist(id)>>)
  <2>1. /\ cache_' = [Cached({op.id}) EXCEPT
                         ![op.id] =
                           LET p == Node(op.id)
                               k == IF op.old \notin ToSet(p.kids) THEN p.kids
                                    ELSE WithSplit(p.kids, op.old, op.left, op.right)
                           IN  Spanning([p EXCEPT !.kids = k], Node(Head(k)), Node(Last(k)))]
        /\ Call(<<Persist(op.id)>>)
    <3>1. /\ cache_' = [Cached({Head(todo).id}) EXCEPT
                         ![Head(todo).id] =
                           LET p == Node(Head(todo).id)
                               k == IF Head(todo).old \notin ToSet(p.kids) THEN p.kids
                                    ELSE WithSplit(p.kids, Head(todo).old, Head(todo).left,
                                                   Head(todo).right)
                           IN  Spanning([p EXCEPT !.kids = k], Node(Head(k)), Node(Last(k)))]
          /\ Call(<<Persist(Head(todo).id)>>)
      BY Zenon DEF InsertChild
    <3> QED
      BY <3>1
  <2> QED
    BY <1>2, <1>4, <2>1
<1>7. Tree = [cache_ EXCEPT ![id].kids = kids]
  BY <1>1 DEF Tree
<1> HIDE DEF kids
<1>8. Tree[id] = m
  BY <1>2, <1>7
<1>9. NodeIn(parent, Known, Genuine)
  BY <1>2 DEF LiveInv, CacheInv
<1>10. m.kids = kids
  BY <1>9 DEF NodeIn
<1>11. w = kids /\ m = Tree[op.id]
  BY <1>8, <1>10
<1> QED
  BY <1>1, <1>2, <1>3, <1>5, <1>6, <1>11

LEMMA InsertChildTree ==
  ASSUME QueueInv, FilesInv, LiveInv, TreeInv, InsertChild
  PROVE  TreeInv'
<1> DEFINE op == Head(todo)
           p == op.id
           w == Tree[p].kids
           n == Spanning(Tree[p], Node(Head(w)), Node(Last(w)))
           ops == <<Persist(p)>>
<1>1. /\ todo # <<>> /\ Splitting /\ ~Doomed /\ p \in DOMAIN cache_
      /\ cache_' = [cache_ EXCEPT ![p] = n]
      /\ Len(cache_[p].kids) # MAX_FANOUT /\ Call(ops)
      /\ UNCHANGED <<manifest_, files>>
  BY InsertChildEffect
<1>2. StackOK /\ Shape(Tree, Root) /\ FanoutInv /\ ValidInv
  BY <1>1 DEF TreeInv
<1>3. /\ DOMAIN Tree = DOMAIN cache_ /\ \A q \in DOMAIN cache_ : q # p => Tree[q] = cache_[q]
      /\ NodeIn(Tree[p], Known, Genuine) /\ cache_[p].kids \in Seq(Known)
      /\ \E i \in 1..Len(cache_[p].kids) : SplitAt(w, cache_[p].kids, i, op.left, op.right)
  BY <1>1, <1>2, TreeSplitting DEF LiveInv
<1>4. SameLinks(n, Tree[p])
  BY <1>3, SpanningLinks
<1>5. Len(w) <= MAX_FANOUT
  <2>1. Len(w) <= MAX_FANOUT + 1 /\ Len(w) = Len(cache_[p].kids) + 1
    BY <1>1, <1>2, <1>3 DEF FanoutInv, SplitAt
  <2>2. Len(cache_[p].kids) \in Nat /\ MAX_FANOUT \in Nat
    BY <1>3, TreeAssumption
  <2> HIDE DEF w
  <2> QED
    BY <1>1, <2>1, <2>2
<1> HIDE DEF n
<1>6. IsSeq(ops) /\ Head(ops) = Persist(p) /\ ToSet(ops) = {Persist(p)} /\ ops # <<>>
  <2>1. ToSet(ops) = {Persist(p)}
    BY DEF ToSet
  <2>2. IsSeq(ops)
    BY CallsOne DEF Calls, Persist
  <2> QED
    BY <2>1, <2>2
<1>7. Persist(p).op = "persist"
  BY DEF Persist
<1> HIDE DEF ops
<1>8. ~Splitting'
  BY <1>1, <1>6, <1>7, NextCall DEF Splitting, Do, LiveInv
<1>9. Tree' = cache_' /\ Root' = Root /\ Known' = Known /\ ValidInv'
  BY <1>1, <1>2, <1>8, TreeIs DEF Root, Known, ValidInv
<1>10. DOMAIN Tree' = DOMAIN Tree /\ \A q \in DOMAIN Tree : SameLinks(Tree'[q], Tree[q])
  BY <1>1, <1>3, <1>4, <1>9 DEF SameLinks
<1>11. Shape(Tree', Root')
  BY <1>2, <1>9, <1>10, ShapeSame
<1>12. FanoutInv'
  <2> SUFFICES ASSUME NEW q \in DOMAIN Tree PROVE Len(Tree'[q].kids) <= MAX_FANOUT
    BY <1>8, <1>10 DEF FanoutInv
  <2>1. Len(Tree[q].kids) <= MAX_FANOUT
    BY <1>2, <1>5 DEF FanoutInv
  <2> QED
    BY <1>10, <2>1 DEF SameLinks
<1>13. Carried(Tree, Tree', Known)
  BY <1>10 DEF Carried, SameLinks
<1>14. StackOK'
  <2>1. HeadOK(Persist(p), Root', cache_', Tree') /\ CheckOK(Persist(p), Known', Root', Tree')
    BY <1>7 DEF HeadOK, CheckOK
  <2> QED
    BY <1>1, <1>2, <1>6, <1>9, <1>13, <2>1, StackStep DEF LiveInv
<1> QED
  BY <1>9, <1>11, <1>12, <1>14 DEF TreeInv

-----------------------------------------------------------------------------
(* Splits *)

\* One half of a parent that is split, with room for its children.
LEMMA HalfLinks ==
  ASSUME NEW K, NEW G, IsEntries(G), NEW level, NEW buf \in Seq(G), NEW mine,
         mine \subseteq DOMAIN buf, NEW ids \in Seq(K), Len(ids) <= MAX_FANOUT, NEW x, NEW y,
         NEW h, h = HalfNode(level, buf, mine, ids, x, y)
  PROVE  h.level = level /\ h.kids = ids
<1> DEFINE s == Subsequence(buf, mine)
           c == create(level, s, ids)
           d == Spanning(c, x, y)
<1>1. s \in Seq(G)
  BY ToSetSubsequence
<1> HIDE DEF s
<1>2. NodeIn(c, K, G) /\ c.level = level /\ c.kids = ids
  BY <1>1, CreateExact
<1> HIDE DEF c
<1>3. NodeIn(d, K, G) /\ SameLinks(d, c)
  BY <1>2, SpanningFacts, SpanningLinks
<1> HIDE DEF d
<1>4. SameLinks(flush_to_disk(d), d)
  BY <1>3, FlushToDiskLinks
<1>5. h = flush_to_disk(d)
  BY DEF HalfNode, d, c, s
<1> QED
  BY <1>2, <1>3, <1>4, <1>5 DEF SameLinks

LEMMA OneBeforeTwo ==
  ASSUME NEW x, NEW y, NEW z, NEW s, s = <<x>> \o <<y, z>>
  PROVE  IsSeq(s) /\ s # <<>> /\ Head(s) = x /\ ToSet(s) = {x, y, z}
<1>1. s = <<x, y, z>>
  <2>1. <<x>> \in Seq({x, y, z}) /\ <<y, z>> \in Seq({x, y, z}) /\ Len(<<x>>) = 1 /\ Len(<<y, z>>) = 2
    OBVIOUS
  <2>2. /\ Len(s) = 3 /\ s[1] = x /\ s[2] = y /\ s[3] = z /\ s \in Seq({x, y, z})
    BY <2>1
  <2>3. <<x, y, z>> \in Seq({x, y, z}) /\ Len(<<x, y, z>>) = 3
        /\ <<x, y, z>>[1] = x /\ <<x, y, z>>[2] = y /\ <<x, y, z>>[3] = z
    OBVIOUS
  <2>4. \A i \in 1..3 : i = 1 \/ i = 2 \/ i = 3
    OBVIOUS
  <2> QED
    BY <2>2, <2>3, <2>4, SeqEqual
<1>2. ToSet(s) = {x, y, z}
  BY <1>1 DEF ToSet
<1>3. s \in Seq({x, y, z}) /\ Head(s) = x /\ s # <<>>
  BY <1>1
<1> QED
  BY <1>2, <1>3 DEF IsSeq

\* The node gone gives way to a and b; its parent, if it has one, is yet to be told.
LEMMA SplitTree ==
  ASSUME QueueInv, FilesInv, LiveInv, TreeInv, ~Doomed, todo # <<>>,
         NEW gone \in DOMAIN cache_, NEW a, NEW b, NEW isRoot \in BOOLEAN, NEW loaded,
         loaded \subseteq DOMAIN cache_, Replace(gone, a, b, isRoot, loaded),
         Splitting => Head(todo).id = gone, isRoot <=> gone = Root,
         a.level = Tree[gone].level, b.level = Tree[gone].level,
         IsInjective(a.kids), IsInjective(b.kids),
         a.kids = <<>> <=> Tree[gone].level = 0, b.kids = <<>> <=> Tree[gone].level = 0,
         ToSet(a.kids) \cup ToSet(b.kids) = ToSet(Tree[gone].kids),
         ToSet(a.kids) \cap ToSet(b.kids) = {},
         Len(a.kids) <= MAX_FANOUT, Len(b.kids) <= MAX_FANOUT,
         NEW parent \in Known,
         ~isRoot /\ parent \in DOMAIN Tree => gone \in ToSet(Tree[parent].kids),
         NEW ins, ins = [op |-> "insert_child", id |-> parent, old |-> gone,
                         left |-> manifest_.next, right |-> manifest_.next + 1],
         NEW up, up = IF isRoot THEN <<>> ELSE <<ins>>, Call(up \o Commit)
  PROVE  TreeInv'
<1> DEFINE l == manifest_.next
           r == l + 1
           t == l + 2
           made == IF isRoot THEN {l, r, t} ELSE {l, r}
           ops == up \o Commit
<1>1. /\ l # r /\ l # t /\ r # t /\ Known \subseteq Known' /\ l \in Nat
      /\ l \notin Known /\ r \notin Known /\ t \notin Known /\ made \subseteq Known'
      /\ DOMAIN cache_' = (DOMAIN cache_ \cup made) \ {gone}
      /\ cache_'[l] = a /\ cache_'[r] = b
      /\ \A q \in DOMAIN cache_ \ {gone} : q \in DOMAIN cache_' /\ cache_'[q] = cache_[q]
      /\ isRoot => /\ cache_'[t] = Spanning(create(a.level + 1, <<>>, <<l, r>>), a, b)
                   /\ manifest_'.root = t
      /\ ~isRoot => manifest_'.root = Root
      /\ DOMAIN cache_ = ValidIds(manifest_) => DOMAIN cache_' = ValidIds(manifest_')
      /\ DOMAIN files \subseteq DOMAIN manifest_.nodes =>
           DOMAIN files' \subseteq DOMAIN manifest_'.nodes
  <2>1. /\ FilesInv /\ CacheInv /\ gone \in DOMAIN cache_ /\ isRoot \in BOOLEAN
        /\ loaded \subseteq DOMAIN cache_ /\ Replace(gone, a, b, isRoot, loaded)
    BY DEF LiveInv
  <2> QED
    BY ONLY <2>1, ReplaceEffect
<1>2. Shape(Tree, Root) /\ FanoutInv /\ StackOK /\ ValidInv
  BY DEF TreeInv
<1>3. ValidInv'
  BY <1>1, <1>2 DEF ValidInv
<1>4. /\ DOMAIN Tree = DOMAIN cache_ /\ \A q \in DOMAIN cache_ : q # gone => Tree[q] = cache_[q]
      /\ DOMAIN cache_ \subseteq Known
  BY DEF Tree, LiveInv, CacheInv
<1>5. /\ ops # <<>> /\ IsSeq(ops)
      /\ isRoot => Head(ops) = Save /\ ToSet(ops) = {Save, Gc}
      /\ ~isRoot => Head(ops) = ins /\ ToSet(ops) = {ins, Save, Gc}
  <2>1. ins.op = "insert_child"
    OBVIOUS
  <2>2. IsSeq(Commit) /\ Commit = <<Save, Gc>> /\ Head(Commit) = Save /\ ToSet(Commit) = {Save, Gc}
    BY CallsCommit DEF Calls, Commit, ToSet
  <2>3. CASE isRoot
    <3>1. ops = Commit
      BY <2>2, <2>3, ConcatEmptySeq DEF IsSeq
    <3> QED
      BY <2>2, <2>3, <3>1
  <2>4. CASE ~isRoot
    <3> DEFINE y == Save
               z == Gc
    <3>1. ops = <<ins>> \o <<y, z>>
      BY <2>2, <2>4
    <3> HIDE DEF ops, y, z
    <3>2. IsSeq(ops) /\ ops # <<>> /\ Head(ops) = ins /\ ToSet(ops) = {ins, y, z}
      BY ONLY <3>1, OneBeforeTwo
    <3> QED
      BY <2>4, <3>2 DEF y, z
  <2> HIDE DEF ops
  <2> QED
    BY <2>3, <2>4
<1>6. Save.op = "save" /\ Gc.op = "gc" /\ ins.op = "insert_child" /\ ins.id = parent
      /\ ins.old = gone /\ ins.left = l /\ ins.right = r
  BY DEF Save, Gc
<1> HIDE DEF ops
<1>7. todo' # <<>> /\ Head(todo') = Head(ops)
  BY <1>5, NextCall DEF LiveInv, ops
<1>8. CASE isRoot
  <2>1. ~Splitting' /\ ~Doomed'
    BY <1>5, <1>6, <1>7, <1>8 DEF Splitting, Doomed, Do
  <2>2. Tree' = cache_' /\ Root' = t
    BY <1>1, <1>8, <2>1, TreeIs DEF Root
  <2> DEFINE top == Spanning(create(a.level + 1, <<>>, <<l, r>>), a, b)
  <2>3. r \in Nat
    BY <1>1
  <2>4. /\ top.level = a.level + 1 /\ ToSet(top.kids) = {l, r} /\ IsInjective(top.kids)
        /\ Len(top.kids) = 2 /\ top.kids = <<l, r>>
    <3> DEFINE level == a.level + 1
               none == << >>
               kids == <<l, r>>
               c == create(level, none, kids)
               N == Nat
               G == Genuine
    <3>1. none \in Seq(G) /\ IsEntries(G)
      BY GenuineEntries
    <3>2. Len(kids) = 2
      OBVIOUS
    <3>8. kids \in Seq(N) /\ Len(kids) <= MAX_FANOUT
      BY <1>1, <2>3, TreeAssumption
    <3>3. ToSet(kids) = {l, r} /\ IsInjective(kids)
      BY <1>1 DEF ToSet, IsInjective
    <3> HIDE DEF level, none, kids, N, G
    <3>4. NodeIn(c, N, G) /\ c.level = level /\ c.kids = kids
      BY ONLY <3>1, <3>8, CreateExact
    <3> HIDE DEF c
    <3>5. top = Spanning(c, a, b)
      BY DEF c, level, none, kids
    <3> HIDE DEF top
    <3>6. top.level = c.level /\ top.kids = c.kids
      BY <3>4, <3>5, SpanningLinks DEF SameLinks
    <3>7. level = a.level + 1 /\ kids = <<l, r>>
      BY DEF level, kids
    <3> QED
      BY <3>2, <3>3, <3>4, <3>6, <3>7
  <2> HIDE DEF top
  <2>5. cache_'[t] = top
    BY <1>1, <1>8 DEF top
  <2> DEFINE c == Tree
             d == Tree'
             root == Root
  <2>6. /\ Shape(c, root) /\ gone = root /\ l \notin DOMAIN c /\ r \notin DOMAIN c /\ t \notin DOMAIN c
        /\ DOMAIN d = (DOMAIN c \ {root}) \cup {l, r, t}
    BY <1>1, <1>2, <1>4, <1>8, <2>2
  <2>7. /\ d[l] = a /\ d[r] = b /\ d[t] = top
        /\ \A q \in DOMAIN c \ {root} : SameLinks(d[q], c[q])
    BY <1>1, <1>4, <2>2, <2>5, <2>6 DEF SameLinks
  <2>8. a.level = c[root].level /\ b.level = c[root].level
        /\ (a.kids = <<>> <=> c[root].level = 0) /\ (b.kids = <<>> <=> c[root].level = 0)
        /\ ToSet(a.kids) \cup ToSet(b.kids) = ToSet(c[root].kids)
    BY <2>6
  <2>9. top.kids # <<>>
    BY <2>4
  <2> HIDE DEF c, d, l, r, t, root
  <2>10. \A q \in {l, r} : /\ d[q].level = c[root].level /\ IsInjective(d[q].kids)
                           /\ d[q].kids = <<>> <=> c[root].level = 0
    BY <2>7, <2>8
  <2>11. ToSet(d[l].kids) \cup ToSet(d[r].kids) = ToSet(c[root].kids)
         /\ ToSet(d[l].kids) \cap ToSet(d[r].kids) = {}
    BY <2>7, <2>8
  <2>12. /\ d[t].level = c[root].level + 1 /\ IsInjective(d[t].kids) /\ d[t].kids # <<>>
         /\ ToSet(d[t].kids) = {l, r}
    BY <2>4, <2>7, <2>8, <2>9
  <2>13. Shape(d, t)
    BY <1>1, <2>6, <2>7, <2>10, <2>11, <2>12, ShapeSplitRoot
  <2>14. ASSUME NEW q \in DOMAIN d PROVE Len(d[q].kids) <= MAX_FANOUT
    <3>1. CASE q = t
      BY <2>4, <2>7, <3>1, TreeAssumption
    <3>2. CASE q \in {l, r}
      BY <2>7, <3>2
    <3>3. CASE q \in DOMAIN c \ {root}
      <4>1. Len(c[q].kids) <= MAX_FANOUT
        BY <1>2, <2>6, <3>3 DEF FanoutInv, c
      <4> QED
        BY <2>7, <3>3, <4>1 DEF SameLinks
    <3> QED
      BY <2>6, <3>1, <3>2, <3>3
  <2>15. FanoutInv'
    BY <2>1, <2>14 DEF FanoutInv, d
  <2>16. Carried(Tree, Tree', Known)
    <3> DEFINE K == Known
    <3> HIDE DEF K
    <3>1. DOMAIN d \cap K \subseteq DOMAIN c \ {root}
      BY <1>1, <2>6 DEF K, l, r, t
    <3>2. \A q \in DOMAIN d \cap K : q \in DOMAIN c /\ d[q].kids = c[q].kids
      BY <2>7, <3>1 DEF SameLinks
    <3>3. Carried(c, d, K)
      BY <3>2 DEF Carried
    <3> QED
      BY <3>3 DEF c, d, K
  <2>17. StackOK'
    <3>1. HeadOK(Head(ops), Root', cache_', Tree')
      BY <1>5, <1>6, <1>8 DEF HeadOK
    <3>2. \A x \in ToSet(ops) : CheckOK(x, Known', Root', Tree')
      BY <1>5, <1>6, <1>8 DEF CheckOK
    <3>3. Root' \notin Known
      BY <1>1, <2>2 DEF t
    <3>4. Call(ops)
      BY DEF ops
    <3> QED
      BY <1>1, <1>2, <1>5, <2>16, <3>1, <3>2, <3>3, <3>4, StackStep DEF LiveInv
  <2> QED
    BY <1>3, <2>2, <2>13, <2>15, <2>17 DEF TreeInv, d
<1>9. CASE ~isRoot
  <2> SUFFICES ASSUME ~Doomed' PROVE TreeInv'
    BY DEF TreeInv
  <2>1. Splitting' /\ Head(todo)' = ins
    BY <1>5, <1>6, <1>7, <1>9 DEF Splitting, Do
  <2>2. parent \in DOMAIN cache_'
    BY <1>6, <2>1 DEF Doomed
  <2>3. parent \in DOMAIN cache_ /\ parent # gone /\ parent # l /\ parent # r
    BY <1>1, <1>9, <2>2
  <2>4. gone \in ToSet(Tree[parent].kids) /\ Tree[parent] = cache_[parent] /\ Root' = Root
    BY <1>1, <1>4, <1>9, <2>3 DEF Root
  <2>5. NodeIn(cache_[parent], Known, Genuine) /\ cache_[parent].kids \in Seq(Known)
    BY <2>3 DEF LiveInv, CacheInv, NodeIn
  <2>6. cache_'[parent] = cache_[parent] /\ made = {l, r}
    BY <1>1, <1>9, <2>3
  <2> DEFINE w == WithSplit(cache_[parent].kids, gone, l, r)
             c == Tree
             d == Tree'
             root == Root
             K == Known
             L == Known'
  <2>7. Tree' = [cache_' EXCEPT ![parent].kids = WithSplit(@, gone, l, r)]
    BY <1>6, <2>1 DEF Tree
  <2>8. /\ DOMAIN d = DOMAIN cache_' /\ \A q \in DOMAIN cache_' : q # parent => d[q] = cache_'[q]
        /\ d[parent].kids = w /\ d[parent].level = cache_[parent].level
    <3> HIDE DEF w
    <3>1. DOMAIN d = DOMAIN cache_' /\ \A q \in DOMAIN cache_' : q # parent => d[q] = cache_'[q]
      BY <2>7
    <3>2. d[parent] = [cache_[parent] EXCEPT !.kids = w]
      BY <2>2, <2>6, <2>7 DEF w
    <3>3. w \in Seq(L)
      <4>1. cache_[parent].kids \in Seq(L)
        BY <1>1, <2>5
      <4>2. l \in L /\ r \in L
        BY <1>1, <2>6
      <4>3. gone \in ToSet(cache_[parent].kids)
        BY <2>4
      <4> HIDE DEF l, r, L
      <4> QED
        BY <4>1, <4>2, <4>3, WithSplitIs DEF w
    <3>4. d[parent].kids = w /\ d[parent].level = cache_[parent].level
      BY <2>5, <3>2, <3>3, KidsReplaced
    <3> QED
      BY <3>1, <3>4
  <2> HIDE DEF w
  <2>9. /\ IsInjective(w) /\ w # <<>> /\ ToSet(w) = (ToSet(cache_[parent].kids) \ {gone}) \cup {l, r}
        /\ Len(w) = Len(cache_[parent].kids) + 1
    <3> DEFINE k == cache_[parent].kids
    <3>1. k \in Seq(L) /\ l \in L /\ r \in L /\ gone \in ToSet(k) /\ IsInjective(k)
      <4>1. IsInjective(Tree[parent].kids)
        BY <1>2, <1>4, <2>3 DEF Shape
      <4>2. l \in L /\ r \in L
        BY <1>1, <2>6
      <4>3. k \in Seq(L)
        BY <1>1, <2>5
      <4> QED
        BY <2>4, <4>1, <4>2, <4>3
    <3>2. l \notin ToSet(k) /\ r \notin ToSet(k) /\ l # r
      BY <1>1, <2>5, ToSetFacts
    <3>3. w = WithSplit(k, gone, l, r)
      BY DEF w
    <3> HIDE DEF k, l, r, L
    <3>4. w \in Seq(L) /\ \E i \in 1..Len(k) : k[i] = gone /\ SplitAt(w, k, i, l, r)
      BY <3>1, <3>3, WithSplitIs
    <3>5. PICK i \in 1..Len(k) : k[i] = gone /\ SplitAt(w, k, i, l, r)
      BY <3>4
    <3>6. /\ IsInjective(w) /\ w # <<>>
          /\ ToSet(w) = (ToSet(k) \ {k[i]}) \cup {l, r}
      BY <3>1, <3>2, <3>4, <3>5, SplitAtDistinct
    <3>7. Len(w) = Len(k) + 1
      BY <3>5 DEF SplitAt
    <3> QED
      BY <3>5, <3>6, <3>7 DEF k
  <2>10. /\ Shape(c, root) /\ l \notin DOMAIN c /\ r \notin DOMAIN c /\ parent \in DOMAIN c
         /\ DOMAIN d = (DOMAIN c \ {gone}) \cup {l, r} /\ gone \in ToSet(c[parent].kids)
    <3>1. DOMAIN d = (DOMAIN cache_ \ {gone}) \cup {l, r}
      <4>1. DOMAIN d = (DOMAIN cache_ \cup {l, r}) \ {gone}
        BY <1>1, <2>6, <2>8
      <4>2. gone \notin {l, r}
        BY <1>1, <1>4
      <4> QED
        BY <4>1, <4>2
    <3>2. l \notin DOMAIN cache_ /\ r \notin DOMAIN cache_
      BY <1>1, <1>4
    <3> QED
      BY <1>2, <1>4, <2>3, <2>4, <3>1, <3>2
  <2>11. /\ d[l] = a /\ d[r] = b
         /\ \A q \in DOMAIN c \ {gone, parent} : SameLinks(d[q], c[q])
    BY <1>1, <1>4, <2>3, <2>6, <2>8, <2>10 DEF SameLinks
  <2>12. /\ a.level = c[gone].level /\ b.level = c[gone].level
         /\ (a.kids = <<>> <=> c[gone].level = 0) /\ (b.kids = <<>> <=> c[gone].level = 0)
         /\ ToSet(a.kids) \cup ToSet(b.kids) = ToSet(c[gone].kids)
    OBVIOUS
  <2>13. /\ d[parent].level = c[parent].level /\ IsInjective(d[parent].kids) /\ d[parent].kids # <<>>
         /\ ToSet(d[parent].kids) = (ToSet(c[parent].kids) \ {gone}) \cup {l, r}
    BY <2>4, <2>8, <2>9
  <2> HIDE DEF c, d, l, r, t, root, K, L
  <2>14. \A q \in {l, r} : /\ d[q].level = c[gone].level /\ IsInjective(d[q].kids)
                           /\ d[q].kids = <<>> <=> c[gone].level = 0
    BY <2>11, <2>12
  <2>15. ToSet(d[l].kids) \cup ToSet(d[r].kids) = ToSet(c[gone].kids)
         /\ ToSet(d[l].kids) \cap ToSet(d[r].kids) = {}
    BY <2>11, <2>12
  <2>16. Shape(d, root)
    BY <1>1, <2>10, <2>11, <2>13, <2>14, <2>15, ShapeSplit
  <2>17. ASSUME NEW q \in DOMAIN d
         PROVE  Len(d[q].kids) <= IF q = parent THEN MAX_FANOUT + 1 ELSE MAX_FANOUT
    <3>1. CASE q = parent
      <4>1. Len(cache_[parent].kids) <= MAX_FANOUT
        BY <1>2, <1>4, <2>3, <2>4 DEF FanoutInv
      <4>2. Len(cache_[parent].kids) \in Nat /\ MAX_FANOUT \in Nat
        BY <2>5, TreeAssumption
      <4> QED
        BY <2>8, <2>9, <3>1, <4>1, <4>2
    <3>2. CASE q \in {l, r}
      BY <2>3, <2>11, <3>2
    <3>3. CASE q \in DOMAIN c \ {gone, parent}
      <4>1. Len(c[q].kids) <= MAX_FANOUT
        BY <1>2, <2>10, <3>3 DEF FanoutInv, c
      <4> QED
        BY <2>11, <3>3, <4>1 DEF SameLinks
    <3> QED
      BY <2>10, <3>1, <3>2, <3>3
  <2>18. FanoutInv'
    <3>1. Head(todo)'.id = parent
      BY <1>6, <2>1
    <3> QED
      BY <2>1, <2>17, <3>1 DEF FanoutInv, d
  <2>19. Carried(Tree, Tree', Known)
    <3>1. DOMAIN d \cap K \subseteq DOMAIN c \ {gone} /\ gone \notin DOMAIN d
      BY <1>1, <1>4, <2>10 DEF K, l, r, c
    <3>2. \A q \in DOMAIN d \cap K : q \in DOMAIN c /\ (q # parent => d[q].kids = c[q].kids)
      BY <2>11, <3>1 DEF SameLinks
    <3>3. Carried(c, d, K)
      BY <2>13, <3>1, <3>2 DEF Carried
    <3> QED
      BY <3>3 DEF c, d, K
  <2>20. StackOK'
    <3>1. gone \notin DOMAIN cache_'
      BY <1>1
    <3>2. HeadOK(Head(ops), Root', cache_', Tree')
      BY <1>5, <1>6, <1>9, <2>4, <2>6, <3>1 DEF HeadOK
    <3>3. \A x \in ToSet(ops) : CheckOK(x, Known', Root', Tree')
      BY <1>5, <1>6, <1>9 DEF CheckOK
    <3>4. Call(ops)
      BY DEF ops
    <3> QED
      BY <1>1, <1>2, <1>5, <2>4, <2>19, <3>2, <3>3, <3>4, StackStep DEF LiveInv
  <2> QED
    BY <1>3, <2>4, <2>16, <2>18, <2>20 DEF TreeInv, d, root
<1> QED
  BY <1>8, <1>9

\* A leaf made of some entries.
LEMMA LeafMade ==
  ASSUME NEW s \in Seq(Genuine), NEW n, n = create(0, s, <<>>)
  PROVE  /\ NodeIn(n, Known, Genuine) /\ n.level = 0 /\ n.kids = <<>> /\ n.buf = sort_buffer(s)
         /\ IsInjective(n.kids) /\ ToSet(n.kids) = {} /\ Len(n.kids) <= MAX_FANOUT
<1> DEFINE none == << >>
           K == Known
           G == Genuine
           c == create(0, s, none)
           zero == 0
<1>1. none \in Seq(K) /\ Len(none) <= MAX_FANOUT
  BY TreeAssumption
<1>2. s \in Seq(G) /\ IsEntries(G)
  BY GenuineEntries
<1>3. n = create(zero, s, none)
  OBVIOUS
<1> HIDE DEF none, K, G, zero
<1>4. NodeIn(n, K, G) /\ n.level = zero /\ n.kids = none /\ n.buf = sort_buffer(s)
  BY ONLY <1>1, <1>2, <1>3, CreateExact
<1>5. IsInjective(none) /\ ToSet(none) = {}
  BY DEF none, IsInjective, ToSet
<1> QED
  BY <1>1, <1>4, <1>5 DEF none, K, G, zero

\* split_leaf on the leaf x.
LEMMA SplitLeafEffect ==
  ASSUME FilesInv, LiveInv, TreeInv, SplitLeaf,
         NEW x, x = Head(todo).id, NEW parent, parent = Head(Head(todo).path),
         NEW ins, ins = [op |-> "insert_child", id |-> parent, old |-> x,
                         left |-> manifest_.next, right |-> manifest_.next + 1]
  PROVE  /\ todo # <<>> /\ ~Splitting /\ ~Doomed /\ x \in DOMAIN cache_ /\ parent \in Known
         /\ cache_[x].level = 0 /\ cache_[x].kids = <<>>
         /\ x # Root /\ parent \in DOMAIN cache_ => x \in ToSet(cache_[parent].kids)
         /\ StableSort(cache_[x].buf) \in Seq(Genuine)
         /\ LeftHalf(StableSort(cache_[x].buf)) \in Seq(Genuine)
         /\ RightHalf(StableSort(cache_[x].buf)) \in Seq(Genuine)
         /\ Replace(x, create(0, LeftHalf(StableSort(cache_[x].buf)), <<>>),
                    create(0, RightHalf(StableSort(cache_[x].buf)), <<>>), x = Root, {})
         /\ Call((IF x = Root THEN <<>> ELSE <<ins>>) \o Commit)
         /\ UNCHANGED <<write_buf, seq_, writes, latest>>
<1> DEFINE op == Head(todo)
           buf == StableSort(cache_[op.id].buf)
           isRoot == Len(op.path) = 1
<1>1. /\ Do("split_leaf")
      /\ Replace(op.id, create(0, LeftHalf(buf), <<>>), create(0, RightHalf(buf), <<>>), isRoot, {})
      /\ Call((IF isRoot THEN <<>>
                  ELSE <<[op |-> "insert_child", id |-> Head(op.path),
                          old |-> op.id, left |-> manifest_.next,
                          right |-> manifest_.next + 1]>>) \o Commit)
      /\ UNCHANGED <<write_buf, seq_, writes, latest>>
  BY Zenon DEF SplitLeaf, history
<1>2. todo # <<>> /\ ~Splitting /\ ~Doomed /\ op.op = "split_leaf"
  BY <1>1 DEF Do, Splitting, Doomed
<1>3. x \in DOMAIN cache_ /\ parent \in Known
  BY <1>2 DEF LiveInv, CallsInv, CallReady
<1>4. Tree = cache_ /\ HeadOK(op, Root, cache_, cache_) /\ Shape(cache_, Root)
  BY <1>2, TreeIs DEF TreeInv, StackOK
<1>5. /\ cache_[x].level = 0 /\ (isRoot <=> x = Root)
      /\ x # Root /\ parent \in DOMAIN cache_ => x \in ToSet(cache_[parent].kids)
  BY <1>2, <1>4 DEF HeadOK
<1>6. cache_[x].kids = <<>>
  BY <1>3, <1>4, <1>5 DEF Shape
<1>7. cache_[x].buf \in Seq(Genuine)
  BY <1>3 DEF LiveInv, CacheInv, NodeIn
<1>8. buf \in Seq(Genuine)
  BY <1>7, SortFacts, GenuineEntries
<1>9. LeftHalf(buf) \in Seq(Genuine) /\ RightHalf(buf) \in Seq(Genuine)
  <2> HIDE DEF buf
  <2> QED
    BY <1>8, HalvesFacts
<1>10. op.id = x /\ Head(op.path) = parent
  OBVIOUS
<1>11. (IF isRoot THEN <<>> ELSE <<[op |-> "insert_child", id |-> Head(op.path), old |-> op.id,
                                    left |-> manifest_.next, right |-> manifest_.next + 1]>>)
       = (IF x = Root THEN <<>> ELSE <<ins>>)
  BY <1>5, <1>10
<1>12. Call((IF x = Root THEN <<>> ELSE <<ins>>) \o Commit)
  BY <1>1, <1>11
<1>13. isRoot = (x = Root)
  BY <1>5
<1>14. Replace(x, create(0, LeftHalf(buf), <<>>), create(0, RightHalf(buf), <<>>), x = Root, {})
  <2> HIDE DEF isRoot
  <2> QED
    BY <1>1, <1>10, <1>13
<1> QED
  BY <1>1, <1>2, <1>3, <1>5, <1>6, <1>8, <1>9, <1>12, <1>14

LEMMA SplitLeafTree ==
  ASSUME QueueInv, FilesInv, LiveInv, TreeInv, SplitLeaf
  PROVE  TreeInv'
<1> DEFINE x == Head(todo).id
           parent == Head(Head(todo).path)
           ins == [op |-> "insert_child", id |-> parent, old |-> x,
                   left |-> manifest_.next, right |-> manifest_.next + 1]
           buf == StableSort(cache_[x].buf)
           a == create(0, LeftHalf(buf), <<>>)
           b == create(0, RightHalf(buf), <<>>)
           isRoot == x = Root
           loaded == {}
           up == IF isRoot THEN <<>> ELSE <<ins>>
<1>1. /\ todo # <<>> /\ ~Splitting /\ ~Doomed /\ x \in DOMAIN cache_ /\ parent \in Known
      /\ cache_[x].level = 0 /\ cache_[x].kids = <<>>
      /\ x # Root /\ parent \in DOMAIN cache_ => x \in ToSet(cache_[parent].kids)
      /\ LeftHalf(buf) \in Seq(Genuine) /\ RightHalf(buf) \in Seq(Genuine)
      /\ Replace(x, a, b, isRoot, loaded) /\ Call(up \o Commit)
  BY SplitLeafEffect, Zenon
<1>2. Tree = cache_
  BY <1>1, TreeIs
<1>3. /\ a.level = 0 /\ a.kids = <<>> /\ IsInjective(a.kids) /\ ToSet(a.kids) = {}
      /\ Len(a.kids) <= MAX_FANOUT
  BY <1>1, LeafMade
<1>4. /\ b.level = 0 /\ b.kids = <<>> /\ IsInjective(b.kids) /\ ToSet(b.kids) = {}
      /\ Len(b.kids) <= MAX_FANOUT
  BY <1>1, LeafMade
<1>5. ToSet(cache_[x].kids) = {}
  BY <1>1 DEF ToSet
<1>6. /\ ins = [op |-> "insert_child", id |-> parent, old |-> x,
                left |-> manifest_.next, right |-> manifest_.next + 1]
      /\ up = IF isRoot THEN <<>> ELSE <<ins>>
      /\ isRoot \in BOOLEAN /\ (isRoot <=> x = Root) /\ loaded \subseteq DOMAIN cache_
  OBVIOUS
<1> HIDE DEF x, parent, ins, buf, a, b, isRoot, loaded, up
<1>7. /\ a.level = Tree[x].level /\ b.level = Tree[x].level
      /\ (a.kids = <<>> <=> Tree[x].level = 0) /\ (b.kids = <<>> <=> Tree[x].level = 0)
      /\ ToSet(a.kids) \cup ToSet(b.kids) = ToSet(Tree[x].kids)
      /\ ToSet(a.kids) \cap ToSet(b.kids) = {}
      /\ ~isRoot /\ parent \in DOMAIN Tree => x \in ToSet(Tree[parent].kids)
  BY <1>1, <1>2, <1>3, <1>4, <1>5, <1>6
<1> QED
  BY <1>1, <1>3, <1>4, <1>6, <1>7, SplitTree

-----------------------------------------------------------------------------
(* The nodes below a set of nodes *)

\* The ids that get_node and a look at the children yield.
KidsOf(i) == IF Readable(i) THEN ToSet(Node(i).kids) ELSE {}

\* The levels that Below adds up, as a function.
Levels(f, ids, n) ==
  f = [i \in 0..n |-> IF i = 0 THEN ids ELSE f[i - 1] \cup UNION {KidsOf(j) : j \in f[i - 1]}]

LEMMA LevelsExist ==
  ASSUME NEW ids, NEW n \in Nat
  PROVE  \E f : Levels(f, ids, n)
<1> DEFINE Add(s) == s \cup UNION {KidsOf(j) : j \in s}
           T == {m \in Nat : \E f : Levels(f, ids, m)}
<1>1. 0 \in T
  <2> DEFINE f == [m \in 0..0 |-> ids]
  <2>1. \A m \in 0..0 : m = 0
    OBVIOUS
  <2> HIDE DEF Add
  <2>2. f = [m \in 0..0 |-> IF m = 0 THEN ids ELSE Add(f[m - 1])]
    BY <2>1
  <2>3. Levels(f, ids, 0)
    BY <2>2, Zenon DEF Levels, Add
  <2> QED
    BY <2>3
<1>2. ASSUME NEW m \in Nat, m \in T PROVE m + 1 \in T
  <2>1. PICK f : Levels(f, ids, m)
    BY <1>2
  <2>2. f = [p \in 0..m |-> IF p = 0 THEN ids ELSE Add(f[p - 1])]
    BY <2>1, Zenon DEF Levels
  <2> HIDE DEF Add
  <2> DEFINE g == [p \in 0..m + 1 |-> IF p = m + 1 THEN Add(f[m]) ELSE f[p]]
  <2>3. \A p \in 0..m : g[p] = f[p]
    OBVIOUS
  <2>4. ASSUME NEW p \in 0..m + 1
        PROVE  g[p] = IF p = 0 THEN ids ELSE Add(g[p - 1])
    <3>1. CASE p = m + 1
      <4>1. p # 0 /\ p - 1 = m /\ m \in 0..m
        BY <3>1
      <4>2. g[p - 1] = f[m]
        BY <2>3, <4>1
      <4> QED
        BY <3>1, <4>1, <4>2
    <3>2. CASE p \in 0..m /\ p # 0
      <4>1. p - 1 \in 0..m
        BY <3>2
      <4>2. g[p] = f[p] /\ g[p - 1] = f[p - 1]
        BY <2>3, <3>2, <4>1
      <4> HIDE DEF g
      <4> QED
        BY <2>2, <3>2, <4>2
    <3>3. CASE p = 0
      <4>1. 0 \in 0..m
        OBVIOUS
      <4>2. g[0] = f[0] /\ f[0] = ids
        BY <2>2, <2>3, <4>1
      <4> QED
        BY <3>3, <4>2
    <3> QED
      BY <3>1, <3>2, <3>3
  <2>5. g = [p \in 0..m + 1 |-> g[p]]
    OBVIOUS
  <2> HIDE DEF g
  <2>6. g = [p \in 0..m + 1 |-> IF p = 0 THEN ids ELSE Add(g[p - 1])]
    BY <2>4, <2>5
  <2>7. Levels(g, ids, m + 1)
    BY <2>6, Zenon DEF Levels, Add
  <2> QED
    BY <2>7
<1> HIDE DEF T
<1>3. Nat \subseteq T
  BY <1>1, <1>2, SetInduction
<1> QED
  BY <1>3 DEF T

LEMMA BelowLevels ==
  ASSUME NEW ids, NEW n \in Nat, n = RootLevel
  PROVE  \E f : /\ Below(ids) = f[n] /\ f[0] = ids
                /\ \A i \in 0..n : i # 0 => f[i] = f[i - 1] \cup UNION {KidsOf(j) : j \in f[i - 1]}
<1> DEFINE f == CHOOSE g : Levels(g, ids, RootLevel)
<1>1. Below(ids) = f[RootLevel]
  BY Zenon DEF Below, Closure, Levels, KidsOf
<1>2. Levels(f, ids, RootLevel)
  BY LevelsExist
<1> HIDE DEF f
<1>3. ASSUME NEW m \in 0..n
      PROVE  f[m] = IF m = 0 THEN ids ELSE f[m - 1] \cup UNION {KidsOf(j) : j \in f[m - 1]}
  <2> DEFINE g == [i \in 0..n |-> IF i = 0 THEN ids
                                   ELSE f[i - 1] \cup UNION {KidsOf(j) : j \in f[i - 1]}]
  <2>1. f = g
    BY <1>2, Zenon DEF Levels
  <2>2. g[m] = IF m = 0 THEN ids ELSE f[m - 1] \cup UNION {KidsOf(j) : j \in f[m - 1]}
    BY Zenon
  <2> HIDE DEF g
  <2> QED
    BY <2>1, <2>2
<1>4. 0 \in 0..n
  OBVIOUS
<1>5. f[0] = ids
  BY <1>3, <1>4
<1> QED
  BY <1>1, <1>3, <1>5

\* The nodes of the levels from m up are found from the root, if those above level m
\* have the links of the tree c in memory.
LEMMA ReachUpper ==
  ASSUME CacheInv, NEW c, Shape(c, Root), DOMAIN c = DOMAIN cache_, RootLevel = c[Root].level,
         NEW m \in Nat,
         \A q \in DOMAIN c : c[q].level > m => ToSet(c[q].kids) = ToSet(cache_[q].kids)
  PROVE  \A q \in DOMAIN c : c[q].level >= m => q \in Reach
<1> DEFINE n == RootLevel
           R == Root
<1>1. n \in Nat /\ c[R].level = n /\ R \in DOMAIN c
  BY DEF Shape
<1>2. PICK f : /\ Below({R}) = f[n] /\ f[0] = {R}
               /\ \A i \in 0..n : i # 0 => f[i] = f[i - 1] \cup UNION {KidsOf(j) : j \in f[i - 1]}
  <2>1. n \in Nat
    BY <1>1
  <2> QED
    BY ONLY <2>1, BelowLevels
<1>3. \A q \in DOMAIN c : /\ c[q].level \in Nat /\ c[q].level <= n
                          /\ q # R => \E p \in DOMAIN c : /\ q \in ToSet(c[p].kids)
                                                          /\ c[p].level = c[q].level + 1
  BY DEF Shape
<1>4. \A p \in DOMAIN c : c[p].level > m => KidsOf(p) = ToSet(c[p].kids)
  BY ReadableCached DEF KidsOf
<1>5. Reach = f[n]
  BY <1>2 DEF Reach
<1> HIDE DEF n, R
<1> DEFINE T == {i \in Nat : i <= n =>
                   \A q \in DOMAIN c : c[q].level >= m /\ c[q].level + i >= n => q \in f[i]}
<1>6. 0 \in T
  <2> SUFFICES ASSUME NEW q \in DOMAIN c, c[q].level >= m, c[q].level + 0 >= n PROVE q \in f[0]
    OBVIOUS
  <2>1. q = R
    BY <1>1, <1>3
  <2> QED
    BY <1>2, <2>1
<1>7. ASSUME NEW i \in Nat, i \in T PROVE i + 1 \in T
  <2> SUFFICES ASSUME i + 1 <= n, NEW q \in DOMAIN c, c[q].level >= m, c[q].level + (i + 1) >= n
               PROVE  q \in f[i + 1]
    OBVIOUS
  <2>1. \A p \in DOMAIN c : c[p].level >= m /\ c[p].level + i >= n => p \in f[i]
    BY <1>1, <1>7
  <2>2. f[i + 1] = f[i] \cup UNION {KidsOf(j) : j \in f[i]}
    <3>1. i + 1 \in 0..n /\ i + 1 # 0 /\ (i + 1) - 1 = i
      BY <1>1
    <3> QED
      BY <1>2, <3>1
  <2>3. CASE c[q].level + i >= n
    BY <2>1, <2>2, <2>3
  <2>4. CASE ~(c[q].level + i >= n)
    <3>1. q # R
      BY <1>1, <2>4
    <3>2. PICK p \in DOMAIN c : q \in ToSet(c[p].kids) /\ c[p].level = c[q].level + 1
      BY <1>3, <3>1
    <3>3. c[q].level \in Nat
      BY <1>3
    <3>4. c[p].level >= m /\ c[p].level > m /\ c[p].level + i >= n
      BY <1>1, <3>2, <3>3
    <3>5. p \in f[i] /\ q \in KidsOf(p)
      BY <1>4, <2>1, <3>2, <3>4
    <3> QED
      BY <2>2, <3>5
  <2> QED
    BY <2>3, <2>4
<1> HIDE DEF T
<1>8. n \in T
  BY <1>1, <1>6, <1>7, SetInduction
<1>9. ASSUME NEW q \in DOMAIN c, c[q].level >= m PROVE q \in Reach
  <2>1. c[q].level + n >= n
    BY <1>1, <1>3
  <2> QED
    BY <1>1, <1>5, <1>8, <1>9, <2>1 DEF T
<1> QED
  BY <1>9

\* When no split is pending, the nodes found from the root are those in memory.
LEMMA ReachIs ==
  ASSUME CacheInv, Shape(cache_, Root)
  PROVE  Reach = DOMAIN cache_
<1> DEFINE n == RootLevel
           R == Root
<1>1. RootLevel = cache_[Root].level /\ n \in Nat /\ R \in DOMAIN cache_
  BY ReadableCached DEF Shape, RootLevel
<1>2. \A q \in DOMAIN cache_ : cache_[q].level >= 0
  BY DEF Shape
<1>3. \A q \in DOMAIN cache_ : q \in Reach
  BY <1>1, <1>2, ReachUpper
<1>4. PICK f : /\ Below({R}) = f[n] /\ f[0] = {R}
               /\ \A i \in 0..n : i # 0 => f[i] = f[i - 1] \cup UNION {KidsOf(j) : j \in f[i - 1]}
  BY <1>1, BelowLevels
<1>5. \A p : KidsOf(p) \subseteq DOMAIN cache_
  BY ReadableCached DEF KidsOf, Shape
<1>6. Reach = f[n]
  BY <1>4 DEF Reach
<1> HIDE DEF n, R
<1> DEFINE T == {i \in Nat : i <= n => f[i] \subseteq DOMAIN cache_}
<1>7. 0 \in T
  BY <1>1, <1>4
<1>8. ASSUME NEW i \in Nat, i \in T PROVE i + 1 \in T
  <2> SUFFICES ASSUME i + 1 <= n PROVE f[i + 1] \subseteq DOMAIN cache_
    OBVIOUS
  <2>1. f[i] \subseteq DOMAIN cache_
    BY <1>1, <1>8
  <2>2. f[i + 1] = f[i] \cup UNION {KidsOf(j) : j \in f[i]}
    <3>1. i + 1 \in 0..n /\ i + 1 # 0 /\ (i + 1) - 1 = i
      BY <1>1
    <3> QED
      BY <1>4, <3>1
  <2> QED
    BY <1>5, <2>1, <2>2
<1> HIDE DEF T
<1>9. n \in T
  BY <1>1, <1>7, <1>8, SetInduction
<1> QED
  BY <1>1, <1>3, <1>6, <1>9 DEF T

-----------------------------------------------------------------------------
(* insert_child into a full parent *)

\* The parent above a node that is being split is found from the root.
LEMMA ParentFound ==
  ASSUME FilesInv, LiveInv, TreeInv, Splitting, ~Doomed, NEW id, id = Head(todo).id, id # Root
  PROVE  /\ ParentOf(id) \in DOMAIN cache_ /\ ParentOf(id) # id
         /\ id \in ToSet(Tree[ParentOf(id)].kids)
<1>1. StackOK /\ Shape(Tree, Root)
  BY DEF TreeInv
<1>2. /\ id \in DOMAIN cache_ /\ DOMAIN Tree = DOMAIN cache_
      /\ \A q \in DOMAIN cache_ : q # id => Tree[q] = cache_[q]
      /\ Tree[id].level = cache_[id].level
  BY <1>1, TreeSplitting DEF LiveInv
<1>3. PICK p \in DOMAIN Tree : id \in ToSet(Tree[p].kids)
  BY <1>1, <1>2 DEF Shape
<1>4. /\ Tree[id].level \in Nat /\ Tree[p].level = Tree[id].level + 1
      /\ \A q \in DOMAIN Tree : Tree[q].level > Tree[id].level => q # id
  BY <1>1, <1>2, <1>3 DEF Shape
<1>5. p # id /\ p \in DOMAIN cache_ /\ id \in ToSet(cache_[p].kids)
  BY <1>2, <1>3, <1>4
<1>6. RootLevel = Tree[Root].level
  <2>1. Root \in DOMAIN cache_ /\ Tree[Root] = cache_[Root]
    BY <1>1, <1>2 DEF Shape
  <2> QED
    BY <2>1, ReadableCached DEF RootLevel, LiveInv
<1>7. p \in Reach
  <2> DEFINE m == Tree[id].level
             c == Tree
  <2>1. \A q \in DOMAIN c : c[q].level > m => ToSet(c[q].kids) = ToSet(cache_[q].kids)
    BY <1>2, <1>4
  <2>2. m \in Nat /\ c[p].level >= m /\ p \in DOMAIN c
    BY <1>4
  <2>3. CacheInv /\ Shape(c, Root) /\ DOMAIN c = DOMAIN cache_ /\ RootLevel = c[Root].level
    BY <1>1, <1>2, <1>6 DEF LiveInv
  <2> HIDE DEF m, c
  <2>4. \A q \in DOMAIN c : c[q].level >= m => q \in Reach
    BY ONLY <2>1, <2>2, <2>3, ReachUpper
  <2> QED
    BY <2>2, <2>4
<1>8. Readable(p) /\ Node(p) = cache_[p]
  BY <1>5, ReadableCached DEF LiveInv
<1> DEFINE q == ParentOf(id)
<1>9. q \in Reach /\ Readable(q) /\ id \in ToSet(Node(q).kids)
  BY <1>5, <1>7, <1>8 DEF ParentOf
<1> HIDE DEF q
<1>10. q \in DOMAIN cache_ /\ id \in ToSet(cache_[q].kids)
  BY <1>9, ReadableCached DEF LiveInv
<1>11. q # id
  BY <1>10 DEF LiveInv, CacheInv
<1> QED
  BY <1>2, <1>10, <1>11 DEF q

LEMMA SplitParentEffect ==
  ASSUME FilesInv, LiveInv, TreeInv, SplitParent,
         NEW x, x = Head(todo).id, NEW n, n = Tree[x],
         NEW ins, ins = [op |-> "insert_child", id |-> ParentOf(x), old |-> x,
                         left |-> manifest_.next, right |-> manifest_.next + 1]
  PROVE  /\ todo # <<>> /\ Splitting /\ ~Doomed /\ x \in DOMAIN cache_ /\ Searched(x) \subseteq DOMAIN cache_
         /\ Len(n.kids) = MAX_FANOUT + 1
         /\ \E left \in SUBSET DOMAIN n.buf :
              Replace(x,
                HalfNode(n.level, n.buf, left, LeftHalf(n.kids),
                         Node(Head(LeftHalf(n.kids))), Node(Last(LeftHalf(n.kids)))),
                HalfNode(n.level, n.buf, DOMAIN n.buf \ left, RightHalf(n.kids),
                         Node(Head(RightHalf(n.kids))), Node(Last(RightHalf(n.kids)))),
                x = Root, Searched(x))
         /\ Call((IF x = Root THEN <<>> ELSE <<ins>>) \o Commit)
         /\ UNCHANGED <<write_buf, seq_, writes, latest>>
<1> DEFINE op == Head(todo)
           id == op.id
           parent == cache_[id]
           kids == WithSplit(parent.kids, op.old, op.left, op.right)
           rightMin == Node(Head(RightHalf(kids))).min
           left == {i \in DOMAIN parent.buf : parent.buf[i].key < rightMin}
           right == DOMAIN parent.buf \ left
           Half(ids, mine) == HalfNode(parent.level, parent.buf, mine, ids,
                                       Node(Head(ids)), Node(Last(ids)))
           a == Half(LeftHalf(kids), left)
           b == Half(RightHalf(kids), right)
           isRoot == id = Root
           loaded == Searched(id)
           l == manifest_.next
           up == IF isRoot THEN <<>>
                 ELSE <<[op |-> "insert_child", id |-> ParentOf(id), old |-> id,
                         left |-> l, right |-> l + 1]>>
<1>1. /\ Do("insert_child") /\ Missing(op) = {} /\ MustSplit(op)
      /\ Replace(id, Halves(op)[1], Halves(op)[2], isRoot, loaded) /\ Call(up \o Commit)
      /\ UNCHANGED <<write_buf, seq_, writes, latest>>
  BY Zenon DEF SplitParent, history
<1>2. Splitting /\ todo # <<>>
  BY <1>1 DEF Splitting, Do
<1>3. Readable(id) /\ \A q \in loaded : Readable(q)
  BY <1>1 DEF Missing
<1>4. id \in DOMAIN cache_ /\ Node(id) = parent /\ loaded \subseteq DOMAIN cache_
  BY <1>3, ReadableCached DEF LiveInv
<1>5. ~Doomed /\ StackOK
  BY <1>4 DEF Doomed, TreeInv
<1>6. Halves(op) = <<a, b>>
  <2>1. Halves(op) =
          LET p == Node(id)
              k == WithSplit(p.kids, op.old, op.left, op.right)
              m == Node(Head(RightHalf(k))).min
              lt == {i \in DOMAIN p.buf : p.buf[i].key < m}
              H(ids, mine) ==
                flush_to_disk(Spanning(create(p.level, Subsequence(p.buf, mine), ids),
                                       Node(Head(ids)), Node(Last(ids))))
          IN  <<H(LeftHalf(k), lt), H(RightHalf(k), DOMAIN p.buf \ lt)>>
    BY Zenon DEF Halves
  <2> HIDE DEF parent
  <2> QED
    BY <1>4, <2>1, Zenon DEF HalfNode
<1>7. Len(parent.kids) = MAX_FANOUT
  BY <1>1, <1>4 DEF MustSplit
<1>8. /\ n.kids = kids /\ n.level = parent.level /\ n.buf = parent.buf
      /\ \E i \in 1..Len(parent.kids) : SplitAt(kids, parent.kids, i, op.left, op.right)
  BY <1>2, <1>5, TreeSplitting DEF LiveInv
<1>9. left \in SUBSET DOMAIN parent.buf
  OBVIOUS
<1> HIDE DEF parent, kids, left
<1>10. Len(kids) = MAX_FANOUT + 1
  BY <1>7, <1>8 DEF SplitAt
<1>11. Replace(id, a, b, isRoot, loaded)
  <2> HIDE DEF a, b, isRoot, loaded
  <2>1. <<a, b>>[1] = a /\ <<a, b>>[2] = b
    OBVIOUS
  <2> QED
    BY <1>1, <1>6, <2>1
<1>12. Replace(x,
         HalfNode(n.level, n.buf, left, LeftHalf(n.kids),
                  Node(Head(LeftHalf(n.kids))), Node(Last(LeftHalf(n.kids)))),
         HalfNode(n.level, n.buf, DOMAIN n.buf \ left, RightHalf(n.kids),
                  Node(Head(RightHalf(n.kids))), Node(Last(RightHalf(n.kids)))),
         x = Root, Searched(x))
  BY <1>8, <1>11, Zenon
<1>13. Call((IF x = Root THEN <<>> ELSE <<ins>>) \o Commit)
  <2>1. up = IF x = Root THEN <<>> ELSE <<ins>>
    OBVIOUS
  <2> QED
    BY <1>1, <2>1
<1>14. left \in SUBSET DOMAIN n.buf
  BY <1>8, <1>9
<1>15. x \in DOMAIN cache_ /\ Searched(x) \subseteq DOMAIN cache_
  BY <1>4
<1> QED
  BY <1>1, <1>2, <1>5, <1>8, <1>10, <1>12, <1>13, <1>14, <1>15

\* A list with one child too many falls into two halves that fit.
LEMMA HalvesFit ==
  ASSUME NEW K, NEW w \in Seq(K), Len(w) = MAX_FANOUT + 1, IsInjective(w),
         NEW s, s = LeftHalf(w), NEW t, t = RightHalf(w)
  PROVE  /\ s \in Seq(K) /\ t \in Seq(K) /\ IsCut(w, s, t) /\ s # <<>> /\ t # <<>>
         /\ Len(s) <= MAX_FANOUT /\ Len(t) <= MAX_FANOUT /\ Len(s) \in Nat \ {0} /\ Len(t) \in Nat \ {0}
         /\ IsInjective(s) /\ IsInjective(t)
         /\ ToSet(s) \cup ToSet(t) = ToSet(w) /\ ToSet(s) \cap ToSet(t) = {}
<1>1. s \in Seq(K) /\ t \in Seq(K) /\ IsCut(w, s, t) /\ Len(s) = Len(w) \div 2
  BY HalvesCut
<1>2. /\ ToSet(s) \cup ToSet(t) = ToSet(w) /\ ToSet(s) \cap ToSet(t) = {}
      /\ IsInjective(s) /\ IsInjective(t)
  BY <1>1, CutDistinct
<1>3. Len(w) = Len(s) + Len(t) /\ Len(s) \in Nat /\ Len(t) \in Nat
  <2>1. Len(s) \in Nat /\ Len(t) \in Nat
    BY ONLY <1>1
  <2>2. Len(w) = Len(s) + Len(t)
    BY ONLY <1>1 DEF IsCut
  <2> QED
    BY <2>1, <2>2
<1>4. MAX_FANOUT \in Nat /\ MAX_FANOUT >= 2
  BY TreeAssumption
<1>5. /\ Len(s) <= MAX_FANOUT /\ Len(t) <= MAX_FANOUT /\ Len(s) # 0 /\ Len(t) # 0
  BY <1>1, <1>3, <1>4
<1> QED
  BY <1>1, <1>2, <1>3, <1>5

LEMMA SplitParentTree ==
  ASSUME QueueInv, FilesInv, LiveInv, TreeInv, SplitParent
  PROVE  TreeInv'
<1> DEFINE x == Head(todo).id
           n == Tree[x]
           parent == IF x = Root THEN x ELSE ParentOf(x)
           ins == [op |-> "insert_child", id |-> parent, old |-> x,
                   left |-> manifest_.next, right |-> manifest_.next + 1]
           oins == [op |-> "insert_child", id |-> ParentOf(x), old |-> x,
                    left |-> manifest_.next, right |-> manifest_.next + 1]
           w == n.kids
           s == LeftHalf(w)
           t == RightHalf(w)
           Half(mine, ids) == HalfNode(n.level, n.buf, mine, ids, Node(Head(ids)), Node(Last(ids)))
           isRoot == x = Root
           loaded == Searched(x)
           up == IF isRoot THEN <<>> ELSE <<ins>>
<1>1. /\ todo # <<>> /\ Splitting /\ ~Doomed /\ x \in DOMAIN cache_ /\ loaded \subseteq DOMAIN cache_
      /\ Len(w) = MAX_FANOUT + 1
      /\ \E left \in SUBSET DOMAIN n.buf :
              Replace(x,
                HalfNode(n.level, n.buf, left, LeftHalf(n.kids),
                         Node(Head(LeftHalf(n.kids))), Node(Last(LeftHalf(n.kids)))),
                HalfNode(n.level, n.buf, DOMAIN n.buf \ left, RightHalf(n.kids),
                         Node(Head(RightHalf(n.kids))), Node(Last(RightHalf(n.kids)))),
                x = Root, Searched(x))
      /\ Call((IF x = Root THEN <<>> ELSE <<oins>>) \o Commit)
  BY SplitParentEffect, Zenon
<1>2. PICK left \in SUBSET DOMAIN n.buf :
        Replace(x, Half(left, s), Half(DOMAIN n.buf \ left, t), isRoot, loaded)
  BY <1>1, Zenon
<1>3. (IF x = Root THEN <<>> ELSE <<oins>>) = up
  OBVIOUS
<1>4. Call(up \o Commit)
  <2> HIDE DEF up, oins
  <2> QED
    BY <1>1, <1>3
<1>5. Shape(Tree, Root) /\ StackOK
  BY <1>1 DEF TreeInv
<1>6. NodeIn(n, Known, Genuine) /\ w \in Seq(Known) /\ n.buf \in Seq(Genuine)
  BY <1>1, <1>5, TreeSplitting DEF LiveInv, NodeIn
<1>7. x \in DOMAIN Tree /\ DOMAIN cache_ \subseteq Known /\ DOMAIN Tree = DOMAIN cache_
  BY <1>1, <1>5, TreeSplitting DEF LiveInv, CacheInv
<1>8. IsInjective(w) /\ n.level \in Nat /\ n.level # 0
  <2>1. Len(w) # 0 /\ w # <<>>
    <3>1. MAX_FANOUT \in Nat
      BY TreeAssumption
    <3> HIDE DEF w
    <3> QED
      BY <1>1, <1>6, <3>1
  <2> QED
    BY <1>5, <1>7, <2>1 DEF Shape
<1>9. parent \in Known /\ (~isRoot /\ parent \in DOMAIN Tree => x \in ToSet(Tree[parent].kids))
  BY <1>1, <1>7, ParentFound
<1>10. /\ ins = [op |-> "insert_child", id |-> parent, old |-> x,
                 left |-> manifest_.next, right |-> manifest_.next + 1]
       /\ up = IF isRoot THEN <<>> ELSE <<ins>>
       /\ isRoot \in BOOLEAN /\ (isRoot <=> x = Root) /\ (Splitting => Head(todo).id = x)
  OBVIOUS
<1> HIDE DEF w
<1>11. /\ s \in Seq(Known) /\ t \in Seq(Known) /\ s # <<>> /\ t # <<>>
       /\ Len(s) <= MAX_FANOUT /\ Len(t) <= MAX_FANOUT /\ IsInjective(s) /\ IsInjective(t)
       /\ ToSet(s) \cup ToSet(t) = ToSet(w) /\ ToSet(s) \cap ToSet(t) = {}
  BY <1>1, <1>6, <1>8, HalvesFit, SMTT(30)
<1> HIDE DEF s, t
<1> DEFINE a == Half(left, s)
           b == Half(DOMAIN n.buf \ left, t)
<1>12. a.level = n.level /\ a.kids = s
  <2> DEFINE K == Known
             G == Genuine
             lv == n.level
             buf == n.buf
             y == Node(Head(s))
             z == Node(Last(s))
  <2>1. /\ IsEntries(G) /\ buf \in Seq(G) /\ left \subseteq DOMAIN buf /\ s \in Seq(K)
        /\ Len(s) <= MAX_FANOUT
    BY <1>6, <1>11, GenuineEntries
  <2>2. a = HalfNode(lv, buf, left, s, y, z)
    OBVIOUS
  <2> HIDE DEF K, G, lv, buf, y, z, a
  <2>3. a.level = lv /\ a.kids = s
    BY ONLY <2>1, <2>2, HalfLinks
  <2> QED
    BY <2>3 DEF lv
<1>13. b.level = n.level /\ b.kids = t
  <2> DEFINE K == Known
             G == Genuine
             lv == n.level
             buf == n.buf
             y == Node(Head(t))
             z == Node(Last(t))
             mine == DOMAIN buf \ left
  <2>1. /\ IsEntries(G) /\ buf \in Seq(G) /\ mine \subseteq DOMAIN buf /\ t \in Seq(K)
        /\ Len(t) <= MAX_FANOUT
    BY <1>6, <1>11, GenuineEntries
  <2>2. b = HalfNode(lv, buf, mine, t, y, z)
    OBVIOUS
  <2> HIDE DEF K, G, lv, buf, y, z, b, mine
  <2>3. b.level = lv /\ b.kids = t
    BY ONLY <2>1, <2>2, HalfLinks
  <2> QED
    BY <2>3 DEF lv
<1>14. Replace(x, a, b, isRoot, loaded)
  BY <1>2
<1> HIDE DEF x, parent, ins, a, b, isRoot, loaded, up
<1>15. /\ a.level = Tree[x].level /\ b.level = Tree[x].level
       /\ (a.kids = <<>> <=> Tree[x].level = 0) /\ (b.kids = <<>> <=> Tree[x].level = 0)
       /\ ToSet(a.kids) \cup ToSet(b.kids) = ToSet(Tree[x].kids)
       /\ ToSet(a.kids) \cap ToSet(b.kids) = {}
       /\ IsInjective(a.kids) /\ IsInjective(b.kids)
       /\ Len(a.kids) <= MAX_FANOUT /\ Len(b.kids) <= MAX_FANOUT
  BY <1>8, <1>11, <1>12, <1>13 DEF w
<1> QED
  BY <1>1, <1>4, <1>9, <1>10, <1>14, <1>15, SplitTree, SMTT(30)

-----------------------------------------------------------------------------
(* do_flush *)

\* What each child of p is handed by local_flush, and the node it becomes.
LEMMA PartsIs ==
  ASSUME CacheInv, NEW p \in DOMAIN cache_, cache_[p].kids # <<>>, UnreadKids(p) = {},
         NEW n, n = Len(cache_[p].kids)
  PROVE  /\ HitBy(p) = {i \in 1..n : PartsOf(p)[i] # <<>>}
         /\ DOMAIN Mins(cache_[p].kids) = 1..n
         /\ \A i \in 1..n :
              /\ Mins(cache_[p].kids)[i] = cache_[cache_[p].kids[i]].min
              /\ PartsOf(p)[i] \in Seq(Genuine)
              /\ ToSet(PartsOf(p)[i]) =
                   {e \in ToSet(cache_[p].buf) : Rightmost(e.key, Mins(cache_[p].kids)) = i}
              /\ MadeKids(p)[i] = IF PartsOf(p)[i] = <<>> THEN cache_[cache_[p].kids[i]]
                                  ELSE Rewritten(cache_[cache_[p].kids[i]], PartsOf(p)[i])
<1> DEFINE parent == cache_[p]
           old == parent.kids
           parts == PartsOf(p)
           buf == StableSort(parent.buf)
           mins == Mins(old)
           hit == HitBy(p)
           made == MadeKids(p)
<1>1. NodeIn(parent, Known, Genuine)
  BY DEF CacheInv
<1>2. old \in Seq(Known) /\ parent.buf \in Seq(Genuine)
  BY <1>1 DEF NodeIn
<1>3. /\ n \in Nat \ {0} /\ DOMAIN old = 1..n
      /\ \A i \in 1..n : old[i] \in DOMAIN cache_
  BY MadeKidsFacts
<1>4. \A i \in 1..n : Node(old[i]) = cache_[old[i]] /\ Readable(old[i])
  BY <1>3 DEF Node, Readable
<1>6. parts = partition_entries(buf, mins)
  BY DEF PartsOf
<1>7. hit = {i \in 1..n : parts[i] # <<>>}
  BY <1>3 DEF HitBy
<1>8. \A i \in 1..n : made[i] = IF parts[i] = <<>> THEN Node(old[i])
                                 ELSE Rewritten(Node(old[i]), parts[i])
  BY <1>3, Zenon DEF MadeKids
<1>9. DOMAIN mins = 1..n /\ \A i \in 1..n : mins[i] = cache_[old[i]].min
  BY <1>3, <1>4 DEF Mins
<1> HIDE DEF parent, old, parts, mins, hit, made
<1>10. buf \in Seq(Genuine) /\ ToSet(buf) = ToSet(parent.buf)
  BY <1>2, SortFacts, GenuineEntries
<1> HIDE DEF buf
<1>11. \A i \in 1..n : /\ parts[i] \in Seq(Genuine)
                       /\ ToSet(parts[i]) = {e \in ToSet(buf) : Rightmost(e.key, mins) = i}
  BY <1>3, <1>6, <1>9, <1>10, PartitionComplete
<1>12. \A i \in 1..n : made[i] = IF parts[i] = <<>> THEN cache_[old[i]]
                                 ELSE Rewritten(cache_[old[i]], parts[i])
  BY <1>4, <1>8
<1> QED
  BY <1>7, <1>9, <1>10, <1>11, <1>12 DEF parent, old, parts, mins, hit, made

\* A child keeps its level and its children.
LEMMA MadeLinks ==
  ASSUME CacheInv, NEW p \in DOMAIN cache_, cache_[p].kids # <<>>, UnreadKids(p) = {},
         \A q \in DOMAIN cache_ : Len(cache_[q].kids) <= MAX_FANOUT,
         NEW i \in 1..Len(cache_[p].kids)
  PROVE  SameLinks(Refreshed(MadeKids(p)[i]), cache_[cache_[p].kids[i]])
<1> DEFINE c == cache_[cache_[p].kids[i]]
           m == MadeKids(p)[i]
           d == PartsOf(p)[i]
<1>1. NodeIn(m, Known, Genuine) /\ cache_[p].kids[i] \in DOMAIN cache_
  BY MadeKidsFacts
<1>2. NodeIn(c, Known, Genuine) /\ Len(c.kids) <= MAX_FANOUT
  BY <1>1 DEF CacheInv
<1>3. d \in Seq(Genuine) /\ m = IF d = <<>> THEN c ELSE Rewritten(c, d)
  BY PartsIs
<1> HIDE DEF c, m, d
<1>4. SameLinks(Refreshed(m), m)
  BY <1>1, RefreshedLinks
<1>5. SameLinks(m, c)
  BY <1>2, <1>3, RewrittenLinks, GenuineEntries DEF SameLinks
<1> QED
  BY <1>4, <1>5 DEF SameLinks, c, m

\* The calls do_flush leaves behind.
LEMMA FlushCalls ==
  ASSUME NEW x, NEW c, x.op = "persist"
  PROVE  /\ IsSeq(<<x>> \o Commit \o <<c>>) /\ <<x>> \o Commit \o <<c>> # <<>>
         /\ Head(<<x>> \o Commit \o <<c>>) = x
         /\ ToSet(<<x>> \o Commit \o <<c>>) = {x, Save, Gc, c}
<1> DEFINE s == Commit
           t == <<c>>
           S == {x} \cup ToSet(s) \cup ToSet(t)
           w == <<x>>
           v == w \o s
           u == v \o t
<1>1. IsSeq(s) /\ s = <<Save, Gc>>
  BY PassiveCommit DEF Commit
<1>2. ToSet(w) = {x} /\ ToSet(t) = {c}
  <2>1. ToSet(<<x>>) = {x}
    BY DEF ToSet
  <2>2. ToSet(<<c>>) = {c}
    BY DEF ToSet
  <2> QED
    BY <2>1, <2>2
<1>3. ToSet(s) = {Save, Gc}
  <2>1. ToSet(<<Save, Gc>>) = {Save, Gc}
    BY DEF ToSet
  <2> QED
    BY <1>1, <2>1
<1>4. w \in Seq(S) /\ s \in Seq(S) /\ t \in Seq(S) /\ w # <<>> /\ Head(w) = x
  BY <1>1, <1>2 DEF IsSeq
<1> HIDE DEF s, t, w
<1>5. ToSet(v) = ToSet(w) \cup ToSet(s)
  BY <1>4, ToSetConcat
<1> HIDE DEF S
<1>6. v \in Seq(S) /\ v # <<>> /\ Head(v) = Head(w)
  BY <1>4
<1> HIDE DEF v
<1>7. u \in Seq(S) /\ u # <<>> /\ Head(u) = Head(v)
  BY <1>4, <1>6
<1>8. ToSet(u) = ToSet(v) \cup ToSet(t)
  BY <1>4, <1>6, ToSetConcat
<1> HIDE DEF u
<1>9. IsSeq(u)
  BY <1>7, ToSetFacts DEF IsSeq
<1>10. u = <<x>> \o Commit \o <<c>>
  BY DEF u, v, w, s, t
<1>11. ToSet(u) = {x, Save, Gc, c}
  BY <1>2, <1>3, <1>5, <1>8
<1> QED
  BY <1>4, <1>6, <1>7, <1>9, <1>10, <1>11

LEMMA DoFlushTree ==
  ASSUME QueueInv, FilesInv, LiveInv, TreeInv, DoFlush
  PROVE  TreeInv'
<1> DEFINE p == Head(todo).id
           old == cache_[p].kids
           new == NewKids(p)
           n == Len(old)
           hit == HitBy(p)
           x == Persist(p)
           c == Check(p, cache_'[p].kids)
           u == <<x>> \o Commit \o <<c>>
<1>1. /\ Do("do_flush") /\ UnreadKids(p) = {} /\ FlushChildren(p, Len(cache_[p].kids) + 1)
      /\ Call(u)
  BY DEF DoFlush
<1>2. /\ todo # <<>> /\ ~Splitting /\ ~Doomed /\ Tree = cache_
      /\ p \in DOMAIN cache_ /\ old # <<>>
  BY <1>1, TreeIs DEF Do, CallsInv, CallReady, Splitting, Doomed, LiveInv
<1>3. Shape(cache_, Root) /\ FanoutInv /\ StackOK /\ ValidInv
  BY <1>2 DEF TreeInv
<1>4. IsInjective(old) /\ \A q \in DOMAIN cache_ : Len(cache_[q].kids) <= MAX_FANOUT
  BY <1>2, <1>3 DEF Shape, FanoutInv
<1>5. /\ n \in Nat \ {0} /\ old \in Seq(Known) /\ DOMAIN old = 1..n
      /\ new \in Seq(Known') /\ Len(new) = n /\ DOMAIN new = 1..n /\ IsInjective(new)
      /\ hit \subseteq 1..n /\ Known \subseteq Known'
      /\ \A i \in 1..n : /\ old[i] \in DOMAIN cache_ /\ old[i] # p
                         /\ i \notin hit => new[i] = old[i]
                         /\ i \in hit => new[i] \notin Known
                         /\ cache_'[new[i]] = Refreshed(MadeKids(p)[i])
      /\ DOMAIN cache_' = (DOMAIN cache_ \ {old[i] : i \in hit}) \cup {new[i] : i \in 1..n}
      /\ cache_'[p] = Spanning(Pushed(cache_[p], new), Refreshed(MadeKids(p)[1]),
                               Refreshed(MadeKids(p)[n]))
      /\ \A q \in DOMAIN cache_ : q # p /\ q \notin ToSet(old) =>
           q \in DOMAIN cache_' /\ cache_'[q] = cache_[q]
      /\ manifest_'.root = Root
      /\ DOMAIN cache_ = ValidIds(manifest_) => DOMAIN cache_' = ValidIds(manifest_')
      /\ DOMAIN files \subseteq DOMAIN manifest_.nodes =>
           DOMAIN files' \subseteq DOMAIN manifest_'.nodes
  BY <1>1, <1>2, <1>4, FlushEffect DEF LiveInv
<1>6. Root' = Root /\ ValidInv'
  BY <1>3, <1>5 DEF Root, ValidInv
<1>7. \A i \in 1..n : SameLinks(cache_'[new[i]], cache_[old[i]])
  <2> SUFFICES ASSUME NEW i \in 1..n
               PROVE  SameLinks(cache_'[new[i]], cache_[old[i]])
    OBVIOUS
  <2>1. cache_'[new[i]] = Refreshed(MadeKids(p)[i])
    BY <1>5
  <2>2. SameLinks(Refreshed(MadeKids(p)[i]), cache_[cache_[p].kids[i]])
    BY <1>1, <1>2, <1>4, MadeLinks DEF LiveInv
  <2> QED
    BY <2>1, <2>2
<1>8. cache_'[p].level = cache_[p].level /\ cache_'[p].kids = new
  <2> DEFINE pushed == Pushed(cache_[p], new)
             a == Refreshed(MadeKids(p)[1])
             b == Refreshed(MadeKids(p)[n])
  <2>1. NodeIn(cache_[p], Known, Genuine)
    BY <1>2 DEF LiveInv, CacheInv
  <2> HIDE DEF a, b, new
  <2>2. /\ pushed.level = cache_[p].level /\ pushed.kids = new
        /\ Spanning(pushed, a, b) = [pushed EXCEPT !.min = a.min, !.max = b.max]
    BY <2>1 DEF NodeIn, Pushed, Spanning
  <2>3. DOMAIN pushed = DOMAIN cache_[p]
    BY <2>1 DEF NodeIn, Pushed
  <2>4. "level" \in DOMAIN pushed /\ "kids" \in DOMAIN pushed
    BY <2>1, <2>3 DEF NodeIn
  <2> HIDE DEF pushed
  <2>5. Spanning(pushed, a, b).level = pushed.level /\ Spanning(pushed, a, b).kids = pushed.kids
    BY <2>2, <2>4
  <2>6. cache_'[p] = Spanning(pushed, a, b)
    BY <1>5 DEF pushed, a, b, new
  <2> QED
    BY <2>2, <2>5, <2>6
<1>9. p \in DOMAIN cache_'
  <2> HIDE DEF p, old, new, n, hit
  <2>1. p \notin {old[i] : i \in hit}
    BY ONLY <1>5
  <2> QED
    BY ONLY <1>2, <1>5, <2>1
<1>10. x.op = "persist" /\ c.op = "check" /\ c.id = p /\ c.kids = new
  BY <1>8 DEF Persist, Check
<1>11. IsSeq(u) /\ u # <<>> /\ Head(u) = x /\ ToSet(u) = {x, Save, Gc, c}
  BY <1>10, FlushCalls
<1> HIDE DEF x, c, u, new, old, hit, n, p
<1>12. ~Splitting'
  BY <1>1, <1>2, <1>10, <1>11, NextCall DEF LiveInv, Splitting, Do
<1>13. Tree' = cache_'
  BY <1>12, TreeIs
<1>14. /\ ToSet(old) = {old[i] : i \in 1..n} /\ ToSet(new) = {new[i] : i \in 1..n}
       /\ new # <<>> /\ n # 0 /\ n \in Nat
  <2>1. Len(<<>>) = 0
    OBVIOUS
  <2> QED
    BY <1>5, <2>1 DEF ToSet
<1>15. DOMAIN cache_ \subseteq Known
  BY DEF LiveInv, CacheInv
<1>16. /\ \A i \in 1..n : new[i] = old[i] \/ new[i] \notin DOMAIN cache_
       /\ hit = {j \in 1..n : new[j] # old[j]}
  BY <1>5, <1>15
<1>17. Shape(cache_', Root)
  <2> DEFINE C == cache_
             D == cache_'
             r == Root
  <2>1. /\ Shape(C, r) /\ p \in DOMAIN C /\ old = C[p].kids
        /\ DOMAIN D = (DOMAIN C \ {old[i] : i \in {j \in 1..n : new[j] # old[j]}}) \cup ToSet(new)
        /\ \A i \in 1..n : new[i] = old[i] \/ new[i] \notin DOMAIN C
        /\ \A i \in 1..n : SameLinks(D[new[i]], C[old[i]])
        /\ D[p].level = C[p].level /\ D[p].kids = new
        /\ \A q \in DOMAIN C \ (ToSet(old) \cup {p}) : SameLinks(D[q], C[q])
    BY <1>2, <1>3, <1>5, <1>7, <1>8, <1>14, <1>16 DEF SameLinks, old
  <2>2. DOMAIN old = 1..n /\ DOMAIN new = 1..n /\ IsInjective(new)
    BY <1>5
  <2>4. /\ n \in Nat /\ n # 0 /\ new # <<>>
        /\ ToSet(old) = {old[i] : i \in 1..n} /\ ToSet(new) = {new[i] : i \in 1..n}
    BY <1>14
  <2> HIDE DEF C, D, r
  <2>5. Renames(C, D, p, n, old, new)
    BY ONLY <2>1, <2>2, <2>4 DEF Renames
  <2>3. Shape(D, r)
    BY <2>1, <2>5, ShapeRename
  <2> QED
    BY <2>3 DEF D, r
<1>18. \A q \in DOMAIN cache_' : \/ q = p /\ cache_'[q].kids = new
                                 \/ \E i \in 1..n : q = new[i] /\ cache_'[q].kids = cache_[old[i]].kids
                                 \/ q \in DOMAIN cache_ \ (ToSet(old) \cup {p}) /\ cache_'[q] = cache_[q]
  <2> SUFFICES ASSUME NEW q \in DOMAIN cache_', q # p, \A i \in 1..n : q # new[i]
               PROVE  q \in DOMAIN cache_ \ (ToSet(old) \cup {p}) /\ cache_'[q] = cache_[q]
    BY <1>7, <1>8 DEF SameLinks
  <2>1. q \in DOMAIN cache_ /\ \A i \in hit : q # old[i]
    BY <1>5
  <2>2. q \notin ToSet(old)
    BY <1>5, <1>14, <2>1
  <2> QED
    BY <1>5, <2>1, <2>2
<1>19. FanoutInv'
  <2> SUFFICES ASSUME NEW q \in DOMAIN cache_' PROVE Len(cache_'[q].kids) <= MAX_FANOUT
    BY <1>12, <1>13 DEF FanoutInv
  <2>1. Len(new) <= MAX_FANOUT
    BY <1>2, <1>4, <1>5 DEF n, old
  <2> QED
    BY <1>4, <1>5, <1>18, <2>1
<1>20. Carried(Tree, Tree', Known)
  <2> SUFFICES ASSUME NEW q \in DOMAIN cache_' \cap Known
               PROVE  /\ q \in DOMAIN cache_
                      /\ (ToSet(cache_[q].kids) \cap Known) \cap DOMAIN cache_' \subseteq ToSet(cache_'[q].kids)
    BY <1>2, <1>13 DEF Carried
  <2>1. CASE q = p
    <3>1. cache_[q].kids = old /\ cache_'[q].kids = new
      BY <1>8, <2>1 DEF old
    <3> SUFFICES ASSUME NEW k \in ToSet(old), k \in Known, k \in DOMAIN cache_' PROVE k \in ToSet(new)
      BY <1>2, <2>1, <3>1
    <3>2. PICK i \in 1..n : k = old[i]
      BY <1>14
    <3>3. CASE i \notin hit
      BY <1>5, <1>14, <3>2, <3>3
    <3>4. CASE i \in hit
      BY <1>5, <1>14, <3>2, <3>4
    <3> QED
      BY <3>3, <3>4
  <2>2. ASSUME NEW i \in 1..n, q = new[i], cache_'[q].kids = cache_[old[i]].kids
        PROVE  q \in DOMAIN cache_ /\ cache_'[q].kids = cache_[q].kids
    BY <1>5, <2>2
  <2> QED
    BY <1>18, <2>1, <2>2
<1>21. CheckOK(c, Known', Root', Tree')
  <2>1. Root \notin ToSet(new)
    BY <1>3, <1>5, <1>8, <1>9, <1>17 DEF Shape
  <2>2. p \in Known'
    BY <1>2, <1>5, <1>15
  <2> QED
    BY <1>5, <1>6, <1>8, <1>10, <1>13, <2>1, <2>2 DEF CheckOK
<1>22. \A y \in ToSet(u) : CheckOK(y, Known', Root', Tree')
  BY <1>10, <1>11, <1>21 DEF CheckOK, Save, Gc
<1>23. HeadOK(Head(u), Root', cache_', Tree')
  BY <1>10, <1>11 DEF HeadOK
<1>24. StackOK'
  BY <1>1, <1>2, <1>3, <1>5, <1>6, <1>11, <1>20, <1>22, <1>23, StackStep DEF LiveInv
<1> QED
  BY <1>6, <1>13, <1>17, <1>19, <1>24 DEF TreeInv

-----------------------------------------------------------------------------
(* The first open *)

\* An empty leaf is the whole tree.
LEMMA FirstTree ==
  ASSUME Unborn, DOMAIN files = {}, EnsureRoot
  PROVE  TreeInv'
<1> DEFINE m == load(saved)
           r == m.next
           root == create(0, <<>>, <<>>)
           m1 == take_ids(m, 1)
           m2 == register(m1, {r})
           m3 == set_root(m2, r)
           o == [op |-> "opened"]
<1>1. Shaped(m)
  BY LoadFacts
<1>2. /\ manifest_' = m3 /\ cache_' = [id \in {r} |-> root]
      /\ todo' = <<Save, o>> /\ DOMAIN files' = {r}
  BY DEF EnsureRoot
<1>3. ValidIds(m) = {}
  <2>1. saved = {} /\ IdsOf({}, "NODE") = {}
    BY DEF Unborn, IdsOf
  <2>2. Shaped(m) /\ ValidIds(m) = ValidIds([nodes |-> NodesOf({})])
    BY <2>1, LoadFacts
  <2>3. ValidIds([nodes |-> NodesOf({})]) = {}
    BY <2>1 DEF ValidIds, NodesOf
  <2> QED
    BY <2>2, <2>3
<1> HIDE DEF m, r
<1>4. Shaped(m1) /\ ValidIds(m1) = {}
  BY <1>1, <1>3, TakeIdsFacts
<1> HIDE DEF m1
<1>5. Shaped(m2) /\ ValidIds(m2) = {r} /\ r \in DOMAIN m2.nodes
  BY <1>4, RegisterFacts
<1> HIDE DEF m2
<1>6. ValidIds(m3) = {r} /\ m3.root = r /\ m3.nodes = m2.nodes
  BY <1>5, SetRootFacts
<1> HIDE DEF m3
<1>7. root.level = 0 /\ root.kids = <<>>
  <2> DEFINE e == << >>
             G == Genuine
             z == 0
  <2>1. e \in Seq(G) /\ IsEntries(G) /\ Len(e) <= MAX_FANOUT
    BY GenuineEntries, TreeAssumption
  <2> HIDE DEF e, G, z
  <2>3. create(z, e, e).level = z /\ create(z, e, e).kids = e
    BY <2>1, CreateExact
  <2> QED
    BY <2>3 DEF e, z
<1> HIDE DEF root
<1>8. ToSet(<<>>) = {} /\ IsInjective(<<>>) /\ Len(<<>>) = 0 /\ MAX_FANOUT \in Nat
  BY TreeAssumption DEF ToSet, IsInjective
<1>9. Root' = r /\ ValidInv'
  BY <1>2, <1>5, <1>6 DEF Root, ValidInv
<1>10. DOMAIN cache_' = {r} /\ cache_'[r] = root
  BY <1>2
<1>11. /\ todo' # <<>> /\ Head(todo') = Save /\ \A x \in ToSet(todo') : x = Save \/ x = o
  <2>1. ToSet(<<Save, o>>) = {Save, o}
    BY DEF ToSet
  <2> QED
    BY <1>2, <2>1, PairFacts
<1>12. Save.op = "save" /\ o.op = "opened"
  BY DEF Save
<1> HIDE DEF o
<1>13. ~Splitting'
  BY <1>11, <1>12 DEF Splitting, Do
<1>14. Tree' = cache_'
  BY <1>13, TreeIs
<1>15. Shape(cache_', r)
  BY <1>7, <1>8, <1>10 DEF Shape
<1>16. FanoutInv'
  BY <1>7, <1>8, <1>10, <1>13, <1>14 DEF FanoutInv
<1>17. StackOK'
  BY <1>11, <1>12 DEF StackOK, HeadOK, CheckOK
<1> QED
  BY <1>9, <1>14, <1>15, <1>16, <1>17 DEF TreeInv

-----------------------------------------------------------------------------
(* All steps *)

LEMMA WorkTree ==
  ASSUME QueueInv, FilesInv, LiveInv, TreeInv, Client \/ Work
  PROVE  TreeInv'
BY ClientTree, QuietWorkTree, CheckChildTree, DiskTree, InsertChildTree, SplitLeafTree,
   SplitParentTree, DoFlushTree DEF Work

\* An opening that makes a live session is the first, and of an empty directory.
LEMMA FirstSession ==
  ASSUME ScanInv, Open \/ EnsureRoot
  PROVE  /\ session \in Nat /\ session' = session + 1
         /\ Alive' => session = 0 /\ Unborn /\ EnsureRoot
<1>1. session' = session + 1 /\ session' \in Nat /\ session' # 0 /\ session \in Nat
  BY DEF Open, EnsureRoot, Load, ScanInv
<1>2. ASSUME Alive' PROVE session = 0 /\ Unborn /\ EnsureRoot
  <2>1. session = 0
    BY <1>1, <1>2 DEF Alive
  <2>2. Unborn
    BY <2>1 DEF ScanInv
  <2>3. ~Open
    <3>1. saved = {} /\ IdsOf({}, "NODE") = {}
      BY <2>2 DEF Unborn, IdsOf
    <3>2. ValidIds(load(saved)) = ValidIds([nodes |-> NodesOf({})])
      BY <3>1, LoadFacts
    <3>3. ValidIds([nodes |-> NodesOf({})]) = {}
      BY <3>1 DEF ValidIds, NodesOf
    <3>4. Open => manifest_'.root \in ValidIds(manifest_') /\ manifest_' = load(saved)
      BY DEF Open
    <3> QED
      BY <3>2, <3>3, <3>4
  <2> QED
    BY <2>1, <2>2, <2>3
<1> QED
  BY <1>1, <1>2

LEMMA ShapeStep ==
  ASSUME QueueInv, FilesInv, ScanInv, ShapeInv, [FaultNext]_vars
  PROVE  ShapeInv'
<1>1. CASE UNCHANGED vars
  <2>1. UNCHANGED <<cache_, manifest_, files, todo>> /\ UNCHANGED <<session, status, threw>>
    BY <1>1 DEF vars, memory, disk, life
  <2> QED
    BY <2>1, QuietTree DEF ShapeInv, Alive
<1>2. CASE Client \/ Work
  <2>1. session' = session /\ threw' = threw /\ status # "down"
    BY <1>2, WorkGoesOn
  <2>2. session # 0
    BY <2>1 DEF ScanInv, Unborn
  <2>3. Alive' => LiveInv /\ TreeInv
    BY <2>1 DEF ScanInv, ShapeInv, Alive
  <2>4. Alive' => TreeInv'
    BY <1>2, <2>3, WorkTree
  <2> QED
    BY <2>1, <2>2, <2>4 DEF ShapeInv
<1>3. CASE Ending
  <2>1. session' = session /\ (status' = "down" \/ threw') /\ status # "down"
    BY <1>3, EndingEnds
  <2>2. session # 0 /\ ~Alive'
    BY <2>1 DEF ScanInv, Unborn, Alive
  <2> QED
    BY <2>1, <2>2 DEF ShapeInv
<1>4. CASE Open \/ EnsureRoot
  <2>1. session' # 0 /\ (Alive' => session = 0 /\ Unborn /\ EnsureRoot)
    BY <1>4, FirstSession
  <2> QED
    BY <2>1, FirstTree DEF ShapeInv
<1> QED
  BY <1>1, <1>2, <1>3, <1>4, AllSteps

\* The invariants of a run together.
LEMMA TreeInvariant == FaultSpec => [](ScanInv /\ ShapeInv)
<1>1. Init => ScanInv /\ ShapeInv
  <2> SUFFICES ASSUME Init PROVE ScanInv /\ ShapeInv
    OBVIOUS
  <2>1. Unborn /\ session = 0 /\ ~Alive /\ DOMAIN files = {}
    BY DEF Init, Unborn, Alive
  <2> QED
    BY <2>1 DEF ScanInv, ShapeInv
<1>2. QueueInv /\ FilesInv /\ ScanInv /\ ShapeInv /\ [FaultNext]_vars => ScanInv' /\ ShapeInv'
  BY ScanStep, ShapeStep
<1> QED
  BY <1>1, <1>2, FilesInvariant, PTL DEF FaultSpec

\* The tree between flushes.
LEMMA IdleTree ==
  ASSUME ScanInv, ShapeInv, session = 1, Idle
  PROVE  /\ LiveInv /\ Shape(cache_, Root) /\ ValidInv /\ Reach = DOMAIN cache_
         /\ \A id \in DOMAIN cache_ : Readable(id) /\ Node(id) = cache_[id]
                                      /\ Len(cache_[id].kids) <= MAX_FANOUT
<1>1. Alive /\ todo = <<>> /\ ~Splitting /\ ~Doomed
  BY DEF Alive, Idle, Splitting, Doomed, Do
<1>2. LiveInv /\ TreeInv /\ Tree = cache_
  BY <1>1, TreeIs DEF ScanInv, ShapeInv
<1>3. Shape(cache_, Root) /\ ValidInv /\ FanoutInv
  BY <1>1, <1>2 DEF TreeInv
<1>4. Reach = DOMAIN cache_
  BY <1>2, <1>3, ReachIs DEF LiveInv
<1> QED
  BY <1>1, <1>2, <1>3, <1>4 DEF Readable, Node, FanoutInv

\* Nothing is left behind: in the session that built the tree, between flushes and
\* until something is thrown, the nodes valid in the manifest are exactly those
\* reachable from the root, all have files, and every other file is one that the next
\* gc deletes (flush.cpp:113, tree.cpp:447, manifest.cpp:101): for every fanout,
\* buffer size and sequence of writes.
THEOREM NothingLeftBehind == FaultSpec => [](session = 1 => NoGarbage)
<1>1. QueueInv /\ FilesInv /\ ScanInv /\ ShapeInv => (session = 1 => NoGarbage)
  <2> SUFFICES ASSUME FilesInv, ScanInv, ShapeInv, session = 1, Idle
               PROVE  /\ ValidIds(manifest_) = Reach /\ Reach \subseteq DOMAIN files
                      /\ \A id \in DOMAIN files \ Reach :
                           id \in InvalidIds(manifest_) \/ id >= manifest_.next
    BY DEF NoGarbage
  <2>1. ValidInv /\ Reach = DOMAIN cache_
    BY IdleTree
  <2> QED
    BY <2>1 DEF ValidInv, FilesInv, InvalidIds
<1> QED
  BY <1>1, TreeInvariant, FilesInvariant, PTL

-----------------------------------------------------------------------------
(* What a split does to the tree *)

\* s is a sequence.
IsList(s) == Len(s) \in Nat /\ DOMAIN s = 1..Len(s)

\* The tree d is c with the child gone of p replaced by the nodes a and b, under the
\* ids l and r.
Splits(c, d, gone, p, l, r, a, b) ==
  /\ p \in DOMAIN c /\ gone \in DOMAIN c \ {p} /\ l # r /\ l \notin DOMAIN c /\ r \notin DOMAIN c
  /\ DOMAIN d = (DOMAIN c \ {gone}) \cup {l, r} /\ d[l] = a /\ d[r] = b
  /\ d[p].level = c[p].level /\ d[p].buf = c[p].buf /\ d[p].min = c[p].min /\ d[p].max = c[p].max
  /\ IsList(c[p].kids) /\ IsList(d[p].kids)
  /\ ToSet(d[p].kids) = (ToSet(c[p].kids) \ {gone}) \cup {l, r}
  /\ \E i \in 1..Len(c[p].kids) : c[p].kids[i] = gone /\ SplitAt(d[p].kids, c[p].kids, i, l, r)
  /\ \A q \in DOMAIN c \ {gone, p} : d[q] = c[q]

\* The tree d is c with its root replaced by a and b, under the new root t.
SplitsRoot(c, d, root, t, l, r, a, b) ==
  /\ root \in DOMAIN c /\ l # r /\ l # t /\ r # t
  /\ l \notin DOMAIN c /\ r \notin DOMAIN c /\ t \notin DOMAIN c
  /\ DOMAIN d = (DOMAIN c \ {root}) \cup {l, r, t} /\ d[l] = a /\ d[r] = b
  /\ d[t].level = a.level + 1 /\ d[t].kids = <<l, r>> /\ d[t].buf = <<>>
  /\ \A q \in DOMAIN c \ {root} : d[q] = c[q]

\* There is nothing to sort in an empty buffer.
LEMMA SortBufferEmpty ==
  ASSUME NEW G, IsEntries(G), NEW s \in Seq(G), s = <<>>
  PROVE  sort_buffer(s) = <<>>
<1> DEFINE t == sort_buffer(s)
<1>1. t \in Seq(G) /\ KeepsNewest(t, ToSet(s))
  BY SortBufferKeepsNewest
<1>2. ToSet(s) = {}
  BY ToSetFacts
<1> HIDE DEF t
<1>3. ToSet(t) = {}
  BY <1>1, <1>2 DEF KeepsNewest
<1>4. t = <<>>
  BY <1>1, <1>3, ToSetFacts
<1> QED
  BY <1>4 DEF t

\* The node gone, with its parent if it has one, is replaced by a and b, and the calls
\* up come before the commit.
SplitCall(gone, a, b, isRoot, loaded, parent, l, r, ins, up) ==
  /\ ~Doomed /\ todo # <<>> /\ gone \in DOMAIN cache_ /\ isRoot \in BOOLEAN
  /\ loaded \subseteq DOMAIN cache_ /\ Replace(gone, a, b, isRoot, loaded)
  /\ (Splitting => Head(todo).id = gone) /\ (isRoot <=> gone = Root)
  /\ parent \in Known /\ (~isRoot /\ parent \in DOMAIN Tree => gone \in ToSet(Tree[parent].kids))
  /\ l = manifest_.next /\ r = manifest_.next + 1
  /\ ins = [op |-> "insert_child", id |-> parent, old |-> gone, left |-> l, right |-> r]
  /\ up = (IF isRoot THEN <<>> ELSE <<ins>>)
  /\ Call(up \o Commit)

LEMMA SplitTo ==
  ASSUME QueueInv, FilesInv, LiveInv, TreeInv, NEW gone, NEW a, NEW b, NEW isRoot, NEW loaded,
         NEW parent, NEW l, NEW r, NEW ins, NEW up,
         SplitCall(gone, a, b, isRoot, loaded, parent, l, r, ins, up)
  PROVE  /\ IsSeq(up \o Commit) /\ ToSet(up \o Commit) \subseteq {ins, Save, Gc}
         /\ todo' # <<>> /\ l \notin Known /\ r \notin Known /\ Known \subseteq Known'
         /\ isRoot => /\ ~Splitting' /\ Root' \notin Known /\ Head(todo') = Save
                      /\ SplitsRoot(Tree, Tree', Root, Root', l, r, a, b)
         /\ ~isRoot => /\ Splitting' /\ Head(todo') = ins /\ Root' = Root
                       /\ ~Doomed' => Splits(Tree, Tree', gone, parent, l, r, a, b)
<1> DEFINE t == l + 2
           made == IF isRoot THEN {l, r, t} ELSE {l, r}
           ops == up \o Commit
<1>0. /\ ~Doomed /\ todo # <<>> /\ gone \in DOMAIN cache_ /\ isRoot \in BOOLEAN
      /\ loaded \subseteq DOMAIN cache_ /\ Replace(gone, a, b, isRoot, loaded)
      /\ (Splitting => Head(todo).id = gone) /\ (isRoot <=> gone = Root)
      /\ parent \in Known /\ (~isRoot /\ parent \in DOMAIN Tree => gone \in ToSet(Tree[parent].kids))
      /\ l = manifest_.next /\ r = manifest_.next + 1
      /\ ins = [op |-> "insert_child", id |-> parent, old |-> gone, left |-> l, right |-> r]
      /\ up = (IF isRoot THEN <<>> ELSE <<ins>>)
      /\ Call(up \o Commit)
  BY DEF SplitCall
<1> USE <1>0
<1>1. /\ l # r /\ l # t /\ r # t /\ Known \subseteq Known' /\ l \in Nat
      /\ l \notin Known /\ r \notin Known /\ t \notin Known /\ made \subseteq Known'
      /\ DOMAIN cache_' = (DOMAIN cache_ \cup made) \ {gone}
      /\ cache_'[l] = a /\ cache_'[r] = b
      /\ \A q \in DOMAIN cache_ \ {gone} : q \in DOMAIN cache_' /\ cache_'[q] = cache_[q]
      /\ isRoot => /\ cache_'[t] = Spanning(create(a.level + 1, <<>>, <<l, r>>), a, b)
                   /\ manifest_'.root = t
      /\ ~isRoot => manifest_'.root = Root
  <2>1. /\ FilesInv /\ CacheInv /\ gone \in DOMAIN cache_ /\ isRoot \in BOOLEAN
        /\ loaded \subseteq DOMAIN cache_ /\ Replace(gone, a, b, isRoot, loaded)
    BY DEF LiveInv
  <2> DEFINE ll == manifest_.next
             rr == ll + 1
             tt == ll + 2
             mm == IF isRoot THEN {ll, rr, tt} ELSE {ll, rr}
  <2>2. /\ ll # rr /\ ll # tt /\ rr # tt /\ Known \subseteq Known' /\ ll \in Nat
        /\ ll \notin Known /\ rr \notin Known /\ tt \notin Known /\ mm \subseteq Known'
        /\ DOMAIN cache_' = (DOMAIN cache_ \cup mm) \ {gone}
        /\ cache_'[ll] = a /\ cache_'[rr] = b
        /\ \A q \in DOMAIN cache_ \ {gone} : q \in DOMAIN cache_' /\ cache_'[q] = cache_[q]
        /\ isRoot => /\ cache_'[tt] = Spanning(create(a.level + 1, <<>>, <<ll, rr>>), a, b)
                     /\ manifest_'.root = tt
        /\ ~isRoot => manifest_'.root = Root
        /\ DOMAIN cache_ = ValidIds(manifest_) => DOMAIN cache_' = ValidIds(manifest_')
        /\ DOMAIN files \subseteq DOMAIN manifest_.nodes =>
             DOMAIN files' \subseteq DOMAIN manifest_'.nodes
    BY ONLY <2>1, ReplaceEffect
  <2> QED
    BY <2>2
<1>2. Shape(Tree, Root) /\ StackOK
  BY DEF TreeInv
<1>4. /\ DOMAIN Tree = DOMAIN cache_ /\ \A q \in DOMAIN cache_ : q # gone => Tree[q] = cache_[q]
      /\ DOMAIN cache_ \subseteq Known
  BY DEF Tree, LiveInv, CacheInv
<1>5. /\ ops # <<>> /\ IsSeq(ops)
      /\ isRoot => Head(ops) = Save /\ ToSet(ops) = {Save, Gc}
      /\ ~isRoot => Head(ops) = ins /\ ToSet(ops) = {ins, Save, Gc}
  <2>2. IsSeq(Commit) /\ Commit = <<Save, Gc>> /\ Head(Commit) = Save /\ ToSet(Commit) = {Save, Gc}
    BY CallsCommit DEF Calls, Commit, ToSet
  <2>3. CASE isRoot
    <3>1. ops = Commit
      BY <2>2, <2>3, ConcatEmptySeq DEF IsSeq
    <3> QED
      BY <2>2, <2>3, <3>1
  <2>4. CASE ~isRoot
    <3> DEFINE y == Save
               z == Gc
    <3>1. ops = <<ins>> \o <<y, z>>
      BY <2>2, <2>4
    <3> HIDE DEF ops, y, z
    <3>2. IsSeq(ops) /\ ops # <<>> /\ Head(ops) = ins /\ ToSet(ops) = {ins, y, z}
      BY ONLY <3>1, OneBeforeTwo
    <3> QED
      BY <2>4, <3>2 DEF y, z
  <2> HIDE DEF ops
  <2> QED
    BY <2>3, <2>4
<1>6. Save.op = "save" /\ Gc.op = "gc" /\ ins.op = "insert_child" /\ ins.id = parent
      /\ ins.old = gone /\ ins.left = l /\ ins.right = r
  BY DEF Save, Gc
<1> HIDE DEF ops
<1>7. todo' # <<>> /\ Head(todo') = Head(ops)
  BY <1>5, NextCall DEF LiveInv, ops
<1>8. ASSUME isRoot
      PROVE  /\ ~Splitting' /\ Root' \notin Known /\ Head(todo') = Save
             /\ SplitsRoot(Tree, Tree', Root, Root', l, r, a, b)
  <2>1. ~Splitting' /\ ~Doomed' /\ Head(todo') = Save
    BY <1>5, <1>6, <1>7, <1>8 DEF Splitting, Doomed, Do
  <2>2. Tree' = cache_' /\ Root' = t
    BY <1>1, <1>8, <2>1, TreeIs DEF Root
  <2> DEFINE top == Spanning(create(a.level + 1, <<>>, <<l, r>>), a, b)
  <2>3. r \in Nat
    BY <1>1
  <2>4. top.level = a.level + 1 /\ top.kids = <<l, r>> /\ top.buf = <<>>
    <3> DEFINE level == a.level + 1
               none == << >>
               kids == <<l, r>>
               c == create(level, none, kids)
               N == Nat
               G == Genuine
    <3>1. none \in Seq(G) /\ IsEntries(G)
      BY GenuineEntries
    <3>2. Len(kids) = 2
      OBVIOUS
    <3>8. kids \in Seq(N) /\ Len(kids) <= MAX_FANOUT
      BY <1>1, <2>3, TreeAssumption
    <3>9. none \in Seq(G) /\ Len(none) = 0
      OBVIOUS
    <3> HIDE DEF level, none, kids, N, G
    <3>4. NodeIn(c, N, G) /\ c.level = level /\ c.kids = kids /\ c.buf = sort_buffer(none)
      BY ONLY <3>1, <3>8, CreateExact
    <3> HIDE DEF c
    <3>5. top = Spanning(c, a, b)
      BY DEF c, level, none, kids
    <3> HIDE DEF top
    <3>6. top.level = c.level /\ top.kids = c.kids /\ top.buf = c.buf
      BY <3>4, <3>5, SpanningLinks, SpanningFacts DEF SameLinks
    <3>7. level = a.level + 1 /\ kids = <<l, r>>
      BY DEF level, kids
    <3>11. none = <<>>
      BY DEF none
    <3>10. sort_buffer(none) = <<>>
      BY ONLY <3>1, <3>11, SortBufferEmpty
    <3> QED
      BY <3>4, <3>6, <3>7, <3>10
  <2> HIDE DEF top
  <2>5. cache_'[t] = top
    BY <1>1, <1>8 DEF top
  <2>6. DOMAIN Tree' = (DOMAIN Tree \ {Root}) \cup {l, r, t}
    BY <1>1, <1>4, <1>8, <2>2
  <2>7. \A q \in DOMAIN Tree \ {Root} : Tree'[q] = Tree[q]
    BY <1>1, <1>4, <1>8, <2>2
  <2> HIDE DEF t
  <2> QED
    BY <1>1, <1>2, <1>4, <1>8, <2>1, <2>2, <2>4, <2>5, <2>6, <2>7 DEF SplitsRoot
<1>9. ASSUME ~isRoot
      PROVE  /\ Splitting' /\ Head(todo') = ins /\ Root' = Root
             /\ ~Doomed' => Splits(Tree, Tree', gone, parent, l, r, a, b)
  <2>1. Splitting' /\ Head(todo') = ins /\ Root' = Root
    BY <1>1, <1>5, <1>6, <1>7, <1>9 DEF Splitting, Do, Root
  <2> SUFFICES ASSUME ~Doomed' PROVE Splits(Tree, Tree', gone, parent, l, r, a, b)
    BY <2>1
  <2>2. parent \in DOMAIN cache_'
    BY <1>6, <2>1 DEF Doomed
  <2>3. parent \in DOMAIN cache_ /\ parent # gone /\ parent # l /\ parent # r
    BY <1>1, <1>9, <2>2
  <2>4. gone \in ToSet(Tree[parent].kids) /\ Tree[parent] = cache_[parent]
    BY <1>1, <1>4, <1>9, <2>3
  <2>5. NodeIn(cache_[parent], Known, Genuine) /\ cache_[parent].kids \in Seq(Known)
    BY <2>3 DEF LiveInv, CacheInv, NodeIn
  <2>6. cache_'[parent] = cache_[parent] /\ made = {l, r}
    BY <1>1, <1>9, <2>3
  <2> DEFINE k == cache_[parent].kids
             w == WithSplit(k, gone, l, r)
             c == Tree
             d == Tree'
             K == Known
             L == Known'
             m == [cache_[parent] EXCEPT !.kids = w]
  <2>7. Tree' = [cache_' EXCEPT ![parent].kids = WithSplit(@, gone, l, r)]
    BY <1>6, <2>1 DEF Tree
  <2>8. k \in Seq(L) /\ l \in L /\ r \in L /\ gone \in ToSet(k) /\ IsInjective(k)
    <3>1. IsInjective(Tree[parent].kids)
      BY <1>2, <1>4, <2>3 DEF Shape
    <3>2. l \in L /\ r \in L
      BY <1>1, <2>6
    <3>3. k \in Seq(L)
      BY <1>1, <2>5
    <3> QED
      BY <2>4, <3>1, <3>2, <3>3
  <2>9. l \notin ToSet(k) /\ r \notin ToSet(k) /\ l # r
    BY <1>1, <2>5, ToSetFacts
  <2>20. w \in Seq(L) /\ \E i \in 1..Len(k) : k[i] = gone /\ SplitAt(w, k, i, l, r)
    <3> HIDE DEF k, L
    <3> QED
      BY <2>8, WithSplitIs
  <2> HIDE DEF w
  <2>10. /\ DOMAIN d = DOMAIN cache_' /\ (\A q \in DOMAIN cache_' : q # parent => d[q] = cache_'[q])
         /\ d[parent] = m
    BY <2>2, <2>6, <2>7 DEF w
  <2>11. m.kids = w /\ m.level = cache_[parent].level /\ m.buf = cache_[parent].buf
         /\ m.min = cache_[parent].min /\ m.max = cache_[parent].max
    BY <2>5, <2>20, KidsReplaced DEF NodeIn
  <2> HIDE DEF m
  <2>12. ToSet(w) = (ToSet(k) \ {gone}) \cup {l, r} /\ Len(w) \in Nat /\ DOMAIN w = 1..Len(w)
         /\ Len(k) \in Nat /\ DOMAIN k = 1..Len(k)
    <3> HIDE DEF k, L
    <3>1. PICK i \in 1..Len(k) : k[i] = gone /\ SplitAt(w, k, i, l, r)
      BY <2>20
    <3>2. ToSet(w) = (ToSet(k) \ {k[i]}) \cup {l, r}
      BY <2>8, <2>9, <2>20, <3>1, SplitAtDistinct
    <3>3. Len(w) \in Nat /\ DOMAIN w = 1..Len(w) /\ Len(k) \in Nat /\ DOMAIN k = 1..Len(k)
      BY <2>8, <2>20
    <3> QED
      BY <3>1, <3>2, <3>3
  <2>13. DOMAIN d = (DOMAIN cache_ \ {gone}) \cup {l, r}
    <3>1. DOMAIN d = (DOMAIN cache_ \cup {l, r}) \ {gone}
      BY <1>1, <2>6, <2>10
    <3>2. gone \notin {l, r}
      BY <1>1, <1>4
    <3> QED
      BY <3>1, <3>2
  <2>14. l \notin DOMAIN cache_ /\ r \notin DOMAIN cache_
    BY <1>1, <1>4
  <2>15. d[l] = a /\ d[r] = b /\ \A q \in DOMAIN c \ {gone, parent} : d[q] = c[q]
    BY <1>1, <1>4, <2>3, <2>6, <2>10, <2>13
  <2>16. c[parent] = cache_[parent] /\ DOMAIN c = DOMAIN cache_
    BY <1>4, <2>4
  <2> HIDE DEF c, d
  <2>17. Splits(c, d, gone, parent, l, r, a, b)
    <3>1. /\ parent \in DOMAIN c /\ gone \in DOMAIN c \ {parent} /\ l # r
          /\ l \notin DOMAIN c /\ r \notin DOMAIN c
          /\ DOMAIN d = (DOMAIN c \ {gone}) \cup {l, r} /\ d[l] = a /\ d[r] = b
      BY <2>3, <2>9, <2>13, <2>14, <2>15, <2>16
    <3>2. /\ d[parent].level = c[parent].level /\ d[parent].buf = c[parent].buf
          /\ d[parent].min = c[parent].min /\ d[parent].max = c[parent].max
          /\ d[parent].kids = w /\ c[parent].kids = k
      BY <2>10, <2>11, <2>16
    <3> HIDE DEF k
    <3> QED
      BY <2>12, <2>15, <2>20, <3>1, <3>2 DEF Splits, IsList
  <2> QED
    BY <2>17 DEF c, d
<1> QED
  BY <1>1, <1>5, <1>7, <1>8, <1>9 DEF ops

LEMMA EndsIn ==
  ASSUME NEW E, NEW s \in Seq(E), s # <<>>
  PROVE  /\ Len(s) \in Nat \ {0} /\ Head(s) = s[1] /\ Last(s) = s[Len(s)]
         /\ Head(s) \in ToSet(s) /\ Last(s) \in ToSet(s)
<1>1. Len(s) \in Nat \ {0} /\ Head(s) = s[1] /\ Last(s) = s[Len(s)]
  BY DEF Last
<1>2. s[1] \in ToSet(s) /\ s[Len(s)] \in ToSet(s)
  BY <1>1, ToSetFacts
<1> QED
  BY <1>1, <1>2

LEMMA FlushToDiskIs ==
  ASSUME NEW K, NEW G, NEW n, NodeIn(n, K, G), NEW h, h = flush_to_disk(n),
         NEW buf, buf = sort_buffer(n.buf)
  PROVE  /\ h.buf = buf /\ SameLinks(h, n)
         /\ h.min = IF buf # <<>> /\ (n.min = NoKey \/ Head(buf).key < n.min)
                    THEN Head(buf).key ELSE n.min
         /\ h.max = IF buf # <<>> /\ (n.max = NoKey \/ Last(buf).key > n.max)
                    THEN Last(buf).key ELSE n.max
<1> DEFINE lo  == IF buf # <<>> /\ (n.min = NoKey \/ Head(buf).key < n.min)
                  THEN Head(buf).key ELSE n.min
           hi  == IF buf # <<>> /\ (n.max = NoKey \/ Last(buf).key > n.max)
                  THEN Last(buf).key ELSE n.max
<1>1. flush_to_disk(n) = [n EXCEPT !.buf = buf, !.min = lo, !.max = hi]
  BY Zenon DEF flush_to_disk
<1> HIDE DEF lo, hi
<1>2. h.buf = buf /\ SameLinks(h, n) /\ h.min = lo /\ h.max = hi
  BY <1>1 DEF NodeIn, SameLinks
<1> QED
  BY <1>2 DEF lo, hi

\* A node without entries whose range is that of its children.
SpanOf(c, h, level, kids) ==
  /\ h.level = level /\ h.kids = kids /\ h.buf = <<>>
  /\ h.min = c[Head(kids)].min /\ h.max = c[Last(kids)].max

LEMMA HalfEmpty ==
  ASSUME NEW K, NEW G, IsEntries(G), NEW level, NEW buf \in Seq(G), NEW mine,
         mine \subseteq DOMAIN buf, \A i : i \notin mine, NEW ids \in Seq(K), Len(ids) <= MAX_FANOUT, NEW x, NEW y,
         NEW h, h = HalfNode(level, buf, mine, ids, x, y)
  PROVE  h.level = level /\ h.kids = ids /\ h.buf = <<>> /\ h.min = x.min /\ h.max = y.max
<1> DEFINE s == Subsequence(buf, mine)
           c == create(level, s, ids)
           d == Spanning(c, x, y)
<1>1. s \in Seq(G) /\ ToSet(s) = {buf[i] : i \in mine}
  BY ToSetSubsequence
<1>2. mine = {}
  OBVIOUS
<1> HIDE DEF s
<1>3. s = <<>>
  BY <1>1, <1>2, ToSetFacts
<1>4. NodeIn(c, K, G) /\ c.level = level /\ c.kids = ids /\ c.buf = sort_buffer(s)
  BY <1>1, CreateExact
<1> HIDE DEF c
<1>5. sort_buffer(s) = <<>>
  BY <1>1, <1>3, SortBufferEmpty
<1>6. NodeIn(d, K, G) /\ SameLinks(d, c) /\ d.buf = c.buf /\ d.min = x.min /\ d.max = y.max
  BY <1>4, SpanningFacts, SpanningLinks
<1> HIDE DEF d
<1>7. h = flush_to_disk(d)
  BY DEF HalfNode, d, c, s
<1>8. d.buf \in Seq(G) /\ d.buf = <<>>
  BY <1>4, <1>5, <1>6 DEF NodeIn
<1>9. sort_buffer(d.buf) = <<>>
  BY <1>8, SortBufferEmpty
<1> QED
  BY <1>4, <1>6, <1>7, <1>9, FlushToDiskIs DEF SameLinks

\* split_leaf on the leaf x, cut into a and b.
LeafCall(x, parent, a, b, l, r, ins, ops) ==
  /\ todo # <<>> /\ ~Splitting /\ ~Doomed /\ Tree = cache_ /\ x \in DOMAIN cache_ /\ parent \in Known
  /\ cache_[x].level = 0 /\ cache_[x].kids = <<>> /\ UNCHANGED <<write_buf, seq_, writes, latest>>
  /\ LeftHalf(StableSort(cache_[x].buf)) \in Seq(Genuine)
  /\ RightHalf(StableSort(cache_[x].buf)) \in Seq(Genuine)
  /\ Call(ops) /\ IsSeq(ops) /\ ToSet(ops) \subseteq {ins, Save, Gc}
  /\ todo' # <<>> /\ l \notin Known /\ r \notin Known /\ Known \subseteq Known'
  /\ x = Root => /\ ~Splitting' /\ Root' \notin Known /\ Head(todo') = Save
                 /\ SplitsRoot(Tree, Tree', Root, Root', l, r, a, b)
  /\ x # Root => /\ Splitting' /\ Head(todo') = ins /\ Root' = Root
                 /\ ~Doomed' => Splits(Tree, Tree', x, parent, l, r, a, b)

LEMMA SplitLeafTo ==
  ASSUME QueueInv, FilesInv, LiveInv, TreeInv, SplitLeaf,
         NEW x, x = Head(todo).id, NEW parent, parent = Head(Head(todo).path),
         NEW a, a = create(0, LeftHalf(StableSort(cache_[x].buf)), <<>>),
         NEW b, b = create(0, RightHalf(StableSort(cache_[x].buf)), <<>>),
         NEW l, NEW r, l = manifest_.next, r = manifest_.next + 1,
         NEW ins, ins = [op |-> "insert_child", id |-> parent, old |-> x, left |-> l, right |-> r],
         NEW ops, ops = (IF x = Root THEN <<>> ELSE <<ins>>) \o Commit
  PROVE  LeafCall(x, parent, a, b, l, r, ins, ops)
<1> DEFINE buf == StableSort(cache_[x].buf)
           isRoot == x = Root
           loaded == {}
           up == IF isRoot THEN <<>> ELSE <<ins>>
<1>1. /\ todo # <<>> /\ ~Splitting /\ ~Doomed /\ x \in DOMAIN cache_ /\ parent \in Known
      /\ cache_[x].level = 0 /\ cache_[x].kids = <<>>
      /\ x # Root /\ parent \in DOMAIN cache_ => x \in ToSet(cache_[parent].kids)
      /\ LeftHalf(buf) \in Seq(Genuine) /\ RightHalf(buf) \in Seq(Genuine)
      /\ Replace(x, a, b, isRoot, loaded) /\ Call(up \o Commit)
      /\ UNCHANGED <<write_buf, seq_, writes, latest>>
  BY SplitLeafEffect, Zenon
<1>2. Tree = cache_
  BY <1>1, TreeIs
<1>6. /\ up = IF isRoot THEN <<>> ELSE <<ins>>
      /\ isRoot \in BOOLEAN /\ (isRoot <=> x = Root) /\ loaded \subseteq DOMAIN cache_
      /\ ops = up \o Commit
  OBVIOUS
<1> HIDE DEF isRoot, loaded, up
<1>7. ~isRoot /\ parent \in DOMAIN Tree => x \in ToSet(Tree[parent].kids)
  BY <1>1, <1>2, <1>6
<1>8. /\ IsSeq(up \o Commit) /\ ToSet(up \o Commit) \subseteq {ins, Save, Gc}
      /\ todo' # <<>> /\ l \notin Known /\ r \notin Known /\ Known \subseteq Known'
      /\ isRoot => /\ ~Splitting' /\ Root' \notin Known /\ Head(todo') = Save
                   /\ SplitsRoot(Tree, Tree', Root, Root', l, r, a, b)
      /\ ~isRoot => /\ Splitting' /\ Head(todo') = ins /\ Root' = Root
                    /\ ~Doomed' => Splits(Tree, Tree', x, parent, l, r, a, b)
  <2>1. SplitCall(x, a, b, isRoot, loaded, parent, l, r, ins, up)
    BY <1>1, <1>6, <1>7 DEF SplitCall
  <2> QED
    BY <2>1, SplitTo
<1> QED
  BY <1>1, <1>2, <1>6, <1>8 DEF buf, LeafCall

\* insert_child into the full parent x, whose buffer is empty.
ParentCall(x, parent, l, r, ins, ops, s, t) ==
  /\ todo # <<>> /\ Splitting /\ ~Doomed /\ x \in DOMAIN Tree /\ DOMAIN Tree = DOMAIN cache_
  /\ UNCHANGED <<write_buf, seq_, writes, latest>>
  /\ Call(ops) /\ IsSeq(ops) /\ ToSet(ops) \subseteq {ins, Save, Gc}
  /\ todo' # <<>> /\ l \notin Known /\ r \notin Known /\ Known \subseteq Known'
  /\ s \in Seq(Known) /\ t \in Seq(Known) /\ IsCut(Tree[x].kids, s, t) /\ s # <<>> /\ t # <<>>
  /\ x # Root => parent \in DOMAIN Tree /\ x \in ToSet(Tree[parent].kids)
  /\ \E a, b : /\ SpanOf(Tree, a, Tree[x].level, s) /\ SpanOf(Tree, b, Tree[x].level, t)
               /\ x = Root => /\ ~Splitting' /\ Root' \notin Known /\ Head(todo') = Save
                              /\ SplitsRoot(Tree, Tree', Root, Root', l, r, a, b)
               /\ x # Root => /\ Splitting' /\ Head(todo') = ins /\ Root' = Root
                              /\ ~Doomed' => Splits(Tree, Tree', x, parent, l, r, a, b)

LEMMA SplitParentTo ==
  ASSUME QueueInv, FilesInv, LiveInv, TreeInv, SplitParent,
         NEW x, x = Head(todo).id, Tree[x].buf = <<>>,
         NEW parent, parent = IF x = Root THEN x ELSE ParentOf(x),
         NEW l, NEW r, l = manifest_.next, r = manifest_.next + 1,
         NEW ins, ins = [op |-> "insert_child", id |-> parent, old |-> x, left |-> l, right |-> r],
         NEW ops, ops = (IF x = Root THEN <<>> ELSE <<ins>>) \o Commit,
         NEW s, s = LeftHalf(Tree[x].kids), NEW t, t = RightHalf(Tree[x].kids)
  PROVE  ParentCall(x, parent, l, r, ins, ops, s, t)
<1> DEFINE n == Tree[x]
           oins == [op |-> "insert_child", id |-> ParentOf(x), old |-> x,
                    left |-> manifest_.next, right |-> manifest_.next + 1]
           w == n.kids
           Half(mine, ids) == HalfNode(n.level, n.buf, mine, ids, Node(Head(ids)), Node(Last(ids)))
           isRoot == x = Root
           loaded == Searched(x)
           up == IF isRoot THEN <<>> ELSE <<ins>>
<1>1. /\ todo # <<>> /\ Splitting /\ ~Doomed /\ x \in DOMAIN cache_ /\ loaded \subseteq DOMAIN cache_
      /\ Len(w) = MAX_FANOUT + 1
      /\ \E left \in SUBSET DOMAIN n.buf :
              Replace(x,
                HalfNode(n.level, n.buf, left, LeftHalf(n.kids),
                         Node(Head(LeftHalf(n.kids))), Node(Last(LeftHalf(n.kids)))),
                HalfNode(n.level, n.buf, DOMAIN n.buf \ left, RightHalf(n.kids),
                         Node(Head(RightHalf(n.kids))), Node(Last(RightHalf(n.kids)))),
                x = Root, Searched(x))
      /\ Call((IF x = Root THEN <<>> ELSE <<oins>>) \o Commit)
      /\ UNCHANGED <<write_buf, seq_, writes, latest>>
  BY SplitParentEffect, Zenon
<1>2. PICK left \in SUBSET DOMAIN n.buf :
        Replace(x, Half(left, s), Half(DOMAIN n.buf \ left, t), isRoot, loaded)
  BY <1>1, Zenon
<1>3. (IF x = Root THEN <<>> ELSE <<oins>>) = up
  OBVIOUS
<1>4. Call(up \o Commit)
  <2> HIDE DEF up, oins
  <2> QED
    BY <1>1, <1>3
<1>5. Shape(Tree, Root) /\ StackOK
  BY <1>1 DEF TreeInv
<1>6. NodeIn(n, Known, Genuine) /\ w \in Seq(Known) /\ n.buf \in Seq(Genuine)
  BY <1>1, <1>5, TreeSplitting DEF LiveInv, NodeIn
<1>7. /\ x \in DOMAIN Tree /\ DOMAIN cache_ \subseteq Known /\ DOMAIN Tree = DOMAIN cache_
      /\ \A q \in DOMAIN cache_ : q # x => Tree[q] = cache_[q]
  BY <1>1, <1>5, TreeSplitting, ZenonT(30) DEF LiveInv, CacheInv
<1>8. IsInjective(w) /\ n.level \in Nat /\ n.level # 0
  <2>1. Len(w) # 0 /\ w # <<>>
    <3>1. MAX_FANOUT \in Nat
      BY TreeAssumption
    <3> HIDE DEF w
    <3> QED
      BY <1>1, <1>6, <3>1, SMTT(30)
  <2> QED
    BY <1>5, <1>7, <2>1 DEF Shape
<1>9. parent \in Known /\ (x # Root => parent \in DOMAIN Tree /\ x \in ToSet(Tree[parent].kids))
  BY <1>1, <1>7, ParentFound
<1>10. /\ up = (IF isRoot THEN <<>> ELSE <<ins>>) /\ ops = up \o Commit
       /\ isRoot \in BOOLEAN /\ (isRoot <=> x = Root) /\ (Splitting => Head(todo).id = x)
  OBVIOUS
<1>20. ASSUME NEW k \in ToSet(w) PROVE k \in DOMAIN cache_ /\ k # x /\ Node(k) = Tree[k]
  <2>1. k \in DOMAIN Tree /\ Tree[x].level = Tree[k].level + 1 /\ Tree[k].level \in Nat
    BY <1>5, <1>7, <1>20 DEF Shape
  <2>2. k # x
    BY <2>1
  <2> QED
    BY <1>7, <2>1, <2>2 DEF Node
<1> HIDE DEF w
<1>11. /\ s \in Seq(Known) /\ t \in Seq(Known) /\ s # <<>> /\ t # <<>> /\ IsCut(w, s, t)
       /\ Len(s) <= MAX_FANOUT /\ Len(t) <= MAX_FANOUT /\ Len(s) \in Nat \ {0} /\ Len(t) \in Nat \ {0}
       /\ ToSet(s) \cup ToSet(t) = ToSet(w)
  <2>1. s = LeftHalf(w) /\ t = RightHalf(w)
    BY DEF w
  <2> QED
    BY <1>1, <1>6, <1>8, <2>1, HalvesFit
<1>21. Head(s) \in ToSet(w) /\ Last(s) \in ToSet(w)
  <2>1. Head(s) \in ToSet(s) /\ Last(s) \in ToSet(s)
    BY ONLY <1>11, EndsIn
  <2> QED
    BY <1>11, <2>1
<1>22. Head(t) \in ToSet(w) /\ Last(t) \in ToSet(w)
  <2>1. Head(t) \in ToSet(t) /\ Last(t) \in ToSet(t)
    BY ONLY <1>11, EndsIn
  <2> QED
    BY <1>11, <2>1
<1> DEFINE a == Half(left, s)
           b == Half(DOMAIN n.buf \ left, t)
<1>12. SpanOf(Tree, a, n.level, s)
  <2> DEFINE K == Known
             G == Genuine
             lv == n.level
             buf == n.buf
             y == Node(Head(s))
             z == Node(Last(s))
  <2>1. /\ IsEntries(G) /\ buf \in Seq(G) /\ left \subseteq DOMAIN buf /\ s \in Seq(K)
        /\ Len(s) <= MAX_FANOUT /\ (\A i : i \notin left)
    BY <1>6, <1>11, GenuineEntries, SMTT(30)
  <2>2. a = HalfNode(lv, buf, left, s, y, z)
    OBVIOUS
  <2>4. y = Tree[Head(s)] /\ z = Tree[Last(s)]
    BY <1>20, <1>21
  <2> HIDE DEF K, G, lv, buf, y, z, a
  <2>3. a.level = lv /\ a.kids = s /\ a.buf = <<>> /\ a.min = y.min /\ a.max = z.max
    BY ONLY <2>1, <2>2, HalfEmpty
  <2> QED
    BY <2>3, <2>4 DEF lv, SpanOf
<1>13. SpanOf(Tree, b, n.level, t)
  <2> DEFINE K == Known
             G == Genuine
             lv == n.level
             buf == n.buf
             y == Node(Head(t))
             z == Node(Last(t))
             mine == DOMAIN buf \ left
  <2>1. /\ IsEntries(G) /\ buf \in Seq(G) /\ mine \subseteq DOMAIN buf /\ t \in Seq(K)
        /\ Len(t) <= MAX_FANOUT /\ (\A i : i \notin mine)
    BY <1>6, <1>11, GenuineEntries, SMTT(30)
  <2>2. b = HalfNode(lv, buf, mine, t, y, z)
    OBVIOUS
  <2>4. y = Tree[Head(t)] /\ z = Tree[Last(t)]
    BY <1>20, <1>22
  <2> HIDE DEF K, G, lv, buf, y, z, b, mine
  <2>3. b.level = lv /\ b.kids = t /\ b.buf = <<>> /\ b.min = y.min /\ b.max = z.max
    BY ONLY <2>1, <2>2, HalfEmpty
  <2> QED
    BY <2>3, <2>4 DEF lv, SpanOf
<1>14. Replace(x, a, b, isRoot, loaded)
  BY <1>2
<1> HIDE DEF a, b, isRoot, loaded, up, n
<1>15. /\ IsSeq(up \o Commit) /\ ToSet(up \o Commit) \subseteq {ins, Save, Gc}
       /\ todo' # <<>> /\ l \notin Known /\ r \notin Known /\ Known \subseteq Known'
       /\ isRoot => /\ ~Splitting' /\ Root' \notin Known /\ Head(todo') = Save
                    /\ SplitsRoot(Tree, Tree', Root, Root', l, r, a, b)
       /\ ~isRoot => /\ Splitting' /\ Head(todo') = ins /\ Root' = Root
                     /\ ~Doomed' => Splits(Tree, Tree', x, parent, l, r, a, b)
  <2>1. SplitCall(x, a, b, isRoot, loaded, parent, l, r, ins, up)
    BY <1>1, <1>4, <1>9, <1>10, <1>14 DEF SplitCall
  <2> QED
    BY <2>1, SplitTo
<1> QED
  BY <1>1, <1>4, <1>7, <1>9, <1>10, <1>11, <1>12, <1>13, <1>15 DEF n, w, ParentCall

-----------------------------------------------------------------------------
(* Sizes of buffers *)

\* What FoldLeft sums up, as a function on the sets of positions.
Summed(g, buf) ==
  g = [s \in SUBSET DOMAIN buf |-> IF s = {} THEN 0 ELSE g[s \ {Max(s)}] + buf[Max(s)].sz]

LEMMA SizeIs ==
  ASSUME NEW buf
  PROVE  buffer_size_bytes(buf) = (CHOOSE g : Summed(g, buf))[DOMAIN buf]
BY Zenon DEF buffer_size_bytes, FoldLeft, MapThenFoldSet, Summed

\* A buffer without entries is not full.
LEMMA NoneFull ==
  ASSUME NEW buf, DOMAIN buf = {}
  PROVE  ~buffer_full(buf)
<1> DEFINE g == CHOOSE h : Summed(h, buf)
           f == [s \in SUBSET DOMAIN buf |-> 0]
<1>1. \A s \in SUBSET DOMAIN buf : s = {}
  OBVIOUS
<1>2. Summed(f, buf)
  BY <1>1 DEF Summed
<1>3. Summed(g, buf)
  BY <1>2
<1> HIDE DEF g
<1>4. {} \in SUBSET DOMAIN buf
  OBVIOUS
<1>5. g[{}] = 0
  BY <1>3, <1>4 DEF Summed
<1>6. buffer_size_bytes(buf) = 0
  BY <1>5, SizeIs DEF g
<1> QED
  BY <1>6, ThresholdAssumption DEF buffer_full

\* One with one entry is not, unless that entry is of the size of a whole buffer.
LEMMA OneFull ==
  ASSUME NEW buf, DOMAIN buf = {1}, buf[1].sz \in Nat, buf[1].sz < BufferThreshold
  PROVE  ~buffer_full(buf)
<1> DEFINE g == CHOOSE h : Summed(h, buf)
           f == [s \in SUBSET DOMAIN buf |-> IF s = {} THEN 0 ELSE buf[1].sz]
           z == buf[1].sz
<1>1. \A s \in SUBSET DOMAIN buf : s = {} \/ s = {1}
  OBVIOUS
<1>2. Max({1}) = 1
  BY DEF Max
<1>3. \A s \in SUBSET DOMAIN buf : s # {} => Max(s) = 1 /\ s \ {Max(s)} = {}
  BY <1>1, <1>2
<1>4. {} \in SUBSET DOMAIN buf /\ {1} \in SUBSET DOMAIN buf /\ {1} # {}
  OBVIOUS
<1>5. Summed(f, buf)
  <2>1. f[{}] = 0
    BY <1>4
  <2>2. 0 + z = z
    OBVIOUS
  <2> QED
    BY <1>3, <2>1, <2>2 DEF Summed
<1>6. Summed(g, buf)
  BY <1>5
<1> HIDE DEF g
<1>7. g[{}] = 0
  BY <1>4, <1>6 DEF Summed
<1>8. g[{1}] = 0 + z
  <2>1. g[{1}] = g[{1} \ {Max({1})}] + buf[Max({1})].sz
    BY <1>4, <1>6 DEF Summed
  <2>2. {1} \ {1} = {}
    OBVIOUS
  <2> QED
    BY <1>2, <1>7, <2>1, <2>2
<1>9. buffer_size_bytes(buf) = z
  BY <1>8, SizeIs DEF g
<1> QED
  BY <1>9, ThresholdAssumption DEF buffer_full

-----------------------------------------------------------------------------
(* Emptied nodes *)

\* All parents of k are in X.
ParentsIn(c, X, k) == \A q \in DOMAIN c : k \in ToSet(c[q].kids) => q \in X

\* A set of nodes of c whose buffers were pushed down, with all nodes above them.
Drained(c, X) ==
  X \subseteq DOMAIN c /\ \A q \in X : c[q].buf = <<>> /\ ParentsIn(c, X, q)

\* The pending call x comes from a flush of the nodes above: those that it may yet
\* split are in X.
From(x, c, X) ==
  /\ x.op = "check" => \A k \in ToSet(x.kids) : ParentsIn(c, X, k)
  /\ x.op \in {"do_flush", "split_leaf"} => ParentsIn(c, X, x.id)
  /\ x.op = "insert_child" => x.id \in X

Emptied(X) == Drained(Tree, X) /\ \A x \in ToSet(todo) : From(x, Tree, X)

\* Only a node whose buffer is full is flushed or split.
FullFirst(x, c) == x.op \in {"do_flush", "split_leaf"} => buffer_full(c[x.id].buf)

EmptyInv ==
  ~Doomed => (todo # <<>> => FullFirst(Head(todo), cache_)) /\ \E X : Emptied(X)

\* The calls after a step are the new ones and those that waited.
LEMMA NextCalls ==
  ASSUME QueueInv, todo # <<>>, NEW ops, IsSeq(ops), Call(ops)
  PROVE  /\ ToSet(todo') \subseteq ToSet(ops) \cup ToSet(Tail(todo))
         /\ ToSet(Tail(todo)) \subseteq ToSet(todo)
<1> DEFINE t == Tail(todo)
           E == ToSet(todo)
           S == ToSet(ops) \cup E
<1>1. t \in Seq(E) /\ todo \in Seq(E)
  BY DEF QueueInv, IsSeq
<1>2. todo' = ops \o t /\ ops \in Seq(S) /\ t \in Seq(S)
  BY <1>1 DEF IsSeq, Call
<1>4. ToSet(t) \subseteq E
  BY <1>1, ToSetFacts
<1> HIDE DEF t, S
<1>5. ToSet(ops \o t) = ToSet(ops) \cup ToSet(t)
  BY <1>2, ToSetConcat
<1> QED
  BY <1>2, <1>4, <1>5 DEF t

LEMMA FirstIn ==
  ASSUME NEW s, IsSeq(s), s # <<>>
  PROVE  Head(s) \in ToSet(s)
<1>1. Head(s) = s[1] /\ 1 \in DOMAIN s
  BY SeqFacts
<1> QED
  BY <1>1 DEF ToSet

LEMMA EmptyStep ==
  ASSUME QueueInv, CallsInv, StackOK, todo # <<>>, NEW X, Emptied(X), NEW Y, Drained(Tree', Y),
         \A k \in Known : ParentsIn(Tree, X, k) => ParentsIn(Tree', Y, k),
         NEW ops, IsSeq(ops), Call(ops), \A x \in ToSet(ops) : From(x, Tree', Y),
         ops # <<>> => FullFirst(Head(ops), cache_')
  PROVE  EmptyInv'
<1>1. /\ ToSet(todo') \subseteq ToSet(ops) \cup ToSet(Tail(todo))
      /\ ToSet(Tail(todo)) \subseteq ToSet(todo)
  BY NextCalls
<1>2. /\ ops # <<>> => Head(todo') = Head(ops)
      /\ ops = <<>> => (todo' # <<>> =>
           Head(todo').op \in {"save", "gc", "check", "done", "return", "closed", "opened"})
  BY NextCall
<1>3. ASSUME NEW x \in ToSet(Tail(todo)) PROVE From(x, Tree', Y)
  <2>1. /\ x.op \in {"save", "gc", "check", "done", "return", "closed", "opened"}
        /\ CheckOK(x, Known, Root, Tree) /\ From(x, Tree, X)
    BY <1>1 DEF CallsInv, AllPassive, StackOK, Emptied
  <2> SUFFICES ASSUME x.op = "check", NEW k \in ToSet(x.kids) PROVE ParentsIn(Tree', Y, k)
    BY <2>1 DEF From
  <2>2. x.kids \in Seq(Known) /\ ParentsIn(Tree, X, k)
    BY <2>1 DEF CheckOK, From
  <2>3. k \in Known
    BY <2>2, ToSetFacts
  <2> QED
    BY <2>2, <2>3
<1>4. \A x \in ToSet(todo') : From(x, Tree', Y)
  BY <1>1, <1>3
<1>5. todo' # <<>> => FullFirst(Head(todo'), cache_')
  BY <1>2 DEF FullFirst
<1> QED
  BY <1>4, <1>5 DEF EmptyInv, Emptied

\* A step that keeps the links and fills no empty buffer.
LEMMA EmptyKept ==
  ASSUME QueueInv, CallsInv, StackOK, todo # <<>>, NEW X, Emptied(X), DOMAIN Tree' = DOMAIN Tree,
         \A q \in DOMAIN Tree : Tree'[q].kids = Tree[q].kids /\ (Tree[q].buf = <<>> => Tree'[q].buf = <<>>),
         NEW ops, IsSeq(ops), Call(ops), \A x \in ToSet(ops) : From(x, Tree, X),
         ops # <<>> => FullFirst(Head(ops), cache_')
  PROVE  EmptyInv'
<1> DEFINE c == Tree
           d == Tree'
<1>1. Drained(c, X)
  BY DEF Emptied
<1>2. DOMAIN d = DOMAIN c /\ \A q \in DOMAIN c : d[q].kids = c[q].kids /\ (c[q].buf = <<>> => d[q].buf = <<>>)
  OBVIOUS
<1>3. \A x \in ToSet(ops) : From(x, c, X)
  OBVIOUS
<1> HIDE DEF c, d
<1>4. \A k : ParentsIn(c, X, k) => ParentsIn(d, X, k)
  BY <1>2 DEF ParentsIn
<1>5. Drained(d, X)
  BY <1>1, <1>2, <1>4 DEF Drained
<1>6. \A x \in ToSet(ops) : From(x, d, X)
  BY <1>3, <1>4 DEF From
<1> QED
  BY <1>4, <1>5, <1>6, EmptyStep DEF c, d

\* A step that touches neither tree nor calls.
LEMMA QuietEmpty ==
  ASSUME EmptyInv, UNCHANGED <<cache_, todo>>
  PROVE  EmptyInv'
<1>1. Splitting' = Splitting /\ Doomed' = Doomed /\ Tree' = Tree
  BY DEF Splitting, Doomed, Tree, Do
<1>2. \A X : Emptied(X) => Emptied(X)'
  BY <1>1 DEF Emptied
<1> QED
  BY <1>1, <1>2 DEF EmptyInv

\* Where a call made on the first pending one comes from.
LEMMA FirstFrom ==
  ASSUME QueueInv, todo # <<>>, ~Doomed, EmptyInv
  PROVE  /\ FullFirst(Head(todo), cache_)
         /\ \E X : Emptied(X) /\ Drained(Tree, X) /\ From(Head(todo), Tree, X)
<1>1. Head(todo) \in ToSet(todo)
  BY FirstIn DEF QueueInv
<1> QED
  BY <1>1 DEF EmptyInv, Emptied

\* A drain: nothing is pending, and its calls are on the root, which nothing is above.
LEMMA DrainEmpty ==
  ASSUME CacheInv, TreeInv, todo = <<>>, NEW calls, NEW last, Drain(calls, last),
         UNCHANGED manifest_, IsSeq(calls), last.op \in {"done", "return", "closed"},
         \A x \in ToSet(calls) :
           \/ x.op \in {"persist", "save"}
           \/ x.op \in {"do_flush", "split_leaf"} /\ x.id = Root /\ buffer_full(Merged)
  PROVE  EmptyInv'
<1>1. ~Splitting /\ ~Doomed /\ Tree = cache_
  BY TreeIs DEF Splitting, Doomed, Do
<1>2. Shape(cache_, Root) /\ Root \in DOMAIN cache_
  BY <1>1 DEF TreeInv, Shape
<1>3. Readable(Root) /\ Cached({Root}) = cache_
  BY <1>2, ReadableCached
<1>4. cache_' = [cache_ EXCEPT ![Root].buf = Merged] /\ todo' = calls \o <<last>>
  BY <1>3 DEF Drain
<1>5. NodeIn(cache_[Root], Known, Genuine)
  BY <1>2 DEF CacheInv
<1>6. /\ DOMAIN cache_' = DOMAIN cache_ /\ cache_'[Root].buf = Merged
      /\ \A q \in DOMAIN cache_ : cache_'[q].kids = cache_[q].kids
  <2>1. cache_'[Root] = [cache_[Root] EXCEPT !.buf = Merged] /\ DOMAIN cache_' = DOMAIN cache_
        /\ \A q \in DOMAIN cache_ : q # Root => cache_'[q] = cache_[q]
    BY <1>2, <1>4
  <2>3. cache_'[Root].kids = cache_[Root].kids /\ cache_'[Root].buf = Merged
    BY <1>5, <2>1 DEF NodeIn
  <2> QED
    BY <2>1, <2>3
<1> DEFINE b == <<last>>
           S == ToSet(calls) \cup {last}
<1>7. b \in Seq(S) /\ calls \in Seq(S) /\ ToSet(b) = {last} /\ Head(b) = last
  BY DEF IsSeq, ToSet
<1> HIDE DEF b, S
<1>8. ToSet(todo') = S /\ IsSeq(todo') /\ todo' # <<>>
  <2>1. todo' = calls \o b
    BY <1>4 DEF b
  <2>2. ToSet(calls \o b) = ToSet(calls) \cup ToSet(b)
    BY <1>7, ToSetConcat
  <2>3. calls \o b \in Seq(S) /\ b # <<>> /\ calls \o b # <<>>
    <3>1. Len(b) = 1
      BY DEF b
    <3>2. calls \o b \in Seq(S) /\ Len(calls \o b) = Len(calls) + Len(b) /\ Len(calls) \in Nat
      BY ONLY <1>7, ConcatIs
    <3>3. Len(calls \o b) # 0
      BY ONLY <3>1, <3>2
    <3>4. Len(<<>>) = 0
      OBVIOUS
    <3> QED
      BY ONLY <3>1, <3>2, <3>3, <3>4
  <2> QED
    BY <1>7, <2>1, <2>2, <2>3 DEF S, IsSeq
<1>9. \A x \in S : \/ x.op \in {"persist", "save", "done", "return", "closed"}
                   \/ x.op \in {"do_flush", "split_leaf"} /\ x.id = Root /\ buffer_full(Merged)
  BY DEF S
<1>10. Head(todo') \in S
  BY <1>8, FirstIn
<1>11. ~Splitting'
  BY <1>9, <1>10 DEF Splitting, Do
<1>12. Tree' = cache_'
  BY <1>11, TreeIs
<1>13. ParentsIn(Tree', {}, Root)
  BY <1>2, <1>6, <1>12 DEF ParentsIn, Shape
<1>14. \A x \in S : From(x, Tree', {})
  BY <1>9, <1>13 DEF From
<1>15. FullFirst(Head(todo'), cache_')
  BY <1>6, <1>9, <1>10 DEF FullFirst
<1>16. Drained(Tree', {})
  BY DEF Drained
<1> QED
  BY <1>8, <1>14, <1>15, <1>16 DEF EmptyInv, Emptied

\* Steps of the clients.
LEMMA ClientEmpty ==
  ASSUME LiveInv, TreeInv, EmptyInv, Client
  PROVE  EmptyInv'
<1>1. ASSUME NEW k \in Keys, Get(k) PROVE EmptyInv'
  <2>1. cache_' = cache_
    BY <1>1, ReadableCached DEF Get, LiveInv
  <2>2. UNCHANGED <<cache_, todo>>
    BY <1>1, <2>1 DEF Get
  <2> QED
    BY <2>2, QuietEmpty
<1>2. ASSUME NEW k \in Keys, remove(k) \/ \E sz \in Sizes : insert(k, sz) PROVE EmptyInv'
  <2>1. UNCHANGED <<cache_, todo>>
    BY <1>2 DEF remove, insert, Write, memory, disk
  <2> QED
    BY <2>1, QuietEmpty
<1>3. CASE RequestFlush
  <2>1. UNCHANGED <<cache_, todo>>
    BY <1>3 DEF RequestFlush, memory, disk
  <2> QED
    BY <2>1, QuietEmpty
<1>4. CASE BackgroundFlush
  <2> DEFINE n == Node(Root)
             over == OnOverflow(Root, n, <<Root>>)
             calls == IF buffer_full(Merged) THEN over ELSE <<>>
             last == [op |-> "done"]
             f == [op |-> "do_flush", id |-> Root]
             l == [op |-> "split_leaf", id |-> Root, path |-> <<Root>>]
  <2>1. Drain(calls, last) /\ todo = <<>> /\ UNCHANGED <<manifest_, files>>
    BY <1>4 DEF BackgroundFlush, disk
  <2>2. calls = <<>> \/ (buffer_full(Merged) /\ (calls = <<f>> \/ calls = <<l>>))
    BY DEF OnOverflow
  <2> HIDE DEF calls, n
  <2>4. IsSeq(calls)
    BY <2>2, CallsOne, CallsNone DEF Calls
  <2>5. ToSet(<<f>>) = {f} /\ ToSet(<<l>>) = {l} /\ ToSet(<<>>) = {}
    BY DEF ToSet
  <2>6. f.op = "do_flush" /\ f.id = Root /\ l.op = "split_leaf" /\ l.id = Root /\ last.op = "done"
    OBVIOUS
  <2> HIDE DEF f, l, last
  <2>7. \A x \in ToSet(calls) :
          x.op \in {"do_flush", "split_leaf"} /\ x.id = Root /\ buffer_full(Merged)
    BY <2>2, <2>5, <2>6
  <2> QED
    BY <2>1, <2>4, <2>6, <2>7, DrainEmpty DEF LiveInv
<1>5. ASSUME NEW end \in {"return", "closed"}, PersistRoot(end) PROVE EmptyInv'
  <2> DEFINE last == [op |-> end, covers |-> [k \in Keys |-> latest[k].val]]
             p == Persist(Root)
             s == Save
  <2>1. Drain(RootWrites, last) /\ todo = <<>> /\ UNCHANGED <<manifest_, files>>
    BY <1>5 DEF PersistRoot, disk
  <2>2. RootWrites = <<>> \/ RootWrites = <<p, s>>
    BY DEF RootWrites
  <2>3. last.op = end /\ p.op = "persist" /\ s.op = "save"
    BY DEF Persist, Save
  <2> HIDE DEF last, p, s
  <2>4. IsSeq(<<p, s>>) /\ ToSet(<<p, s>>) = {p, s}
    <3>1. ToSet(<<p, s>>) = {p, s}
      BY DEF ToSet
    <3> QED
      BY <3>1, PairFacts
  <2>5. IsSeq(<<>>) /\ ToSet(<<>>) = {}
    BY CallsNone DEF Calls, ToSet
  <2> QED
    BY <1>5, <2>1, <2>2, <2>3, <2>4, <2>5, DrainEmpty DEF LiveInv
<1> QED
  BY <1>1, <1>2, <1>3, <1>4, <1>5 DEF Client, Flush, Close

\* Work under cache_mu_ that leaves tree and buffers alone.
LEMMA QuietWorkEmpty ==
  ASSUME QueueInv, LiveInv, TreeInv, EmptyInv, Done \/ Return \/ Opened \/ SaveManifest \/ CollectGarbage
  PROVE  EmptyInv'
<1>1. CASE UNCHANGED <<cache_, todo>>
  BY <1>1, QuietEmpty
<1>2. CASE UNCHANGED cache_ /\ Call(<<>>)
  <2>1. todo # <<>> /\ ~Splitting /\ ~Doomed
    BY DEF Done, Return, Opened, SaveManifest, CollectGarbage, Do, Splitting, Doomed
  <2>2. IsSeq(<<>>) /\ ToSet(<<>>) = {}
    BY CallsNone DEF Calls, ToSet
  <2>3. ~Splitting' /\ StackOK
    BY <1>2, <2>1, <2>2, NextCall DEF Splitting, Do, LiveInv, TreeInv
  <2>4. Tree = cache_ /\ Tree' = cache_
    BY <1>2, <2>1, <2>3, TreeIs
  <2>5. PICK X : Emptied(X)
    BY <2>1, FirstFrom
  <2> QED
    BY <1>2, <2>1, <2>2, <2>3, <2>4, <2>5, EmptyKept DEF LiveInv
<1> QED
  BY <1>1, <1>2 DEF Done, Return, Opened, SaveManifest, CollectGarbage, memory, disk

-----------------------------------------------------------------------------
(* What a flush does to the tree *)

\* The tree d is c with the children old of p, n of them, become new, and the buffer
\* of p pushed down to them.
Flushes(c, d, p, n, old, new, hit) ==
  /\ p \in DOMAIN c /\ n \in Nat \ {0} /\ old = c[p].kids
  /\ DOMAIN old = 1..n /\ DOMAIN new = 1..n /\ Len(new) = n /\ IsInjective(new)
  /\ ToSet(old) = {old[i] : i \in 1..n} /\ ToSet(new) = {new[i] : i \in 1..n} /\ hit \subseteq 1..n
  /\ \A i \in 1..n : /\ old[i] \in DOMAIN c /\ old[i] # p /\ new[i] # p
                     /\ i \notin hit => new[i] = old[i]
                     /\ i \in hit => new[i] \notin DOMAIN c
                     /\ SameLinks(d[new[i]], c[old[i]])
  /\ DOMAIN d = (DOMAIN c \ {old[i] : i \in hit}) \cup {new[i] : i \in 1..n}
  /\ d[p].level = c[p].level /\ d[p].kids = new /\ d[p].buf = <<>>
  /\ d[p].min = d[new[1]].min /\ d[p].max = d[new[n]].max
  /\ \A q \in DOMAIN c : q # p /\ q \notin ToSet(old) => q \in DOMAIN d /\ d[q] = c[q]
  /\ \A q \in DOMAIN d : q = p \/ q \in ToSet(new) \/ (q \in DOMAIN c \ (ToSet(old) \cup {p}) /\ d[q] = c[q])

\* do_flush on p: its children old become new, those that hit receive entries, and
\* the calls ops come next.
FlushCall(p, old, new, n, hit, c, ops) ==
  /\ todo # <<>> /\ ~Splitting /\ ~Doomed /\ Tree = cache_ /\ p \in DOMAIN cache_
  /\ UnreadKids(p) = {} /\ old # <<>> /\ cache_[p].kids # <<>>
  /\ Flushes(Tree, Tree', p, n, old, new, hit)
  /\ \A i \in 1..n : /\ Tree'[new[i]] = Refreshed(MadeKids(p)[i])
                     /\ i \in hit => new[i] \notin Known
  /\ old \in Seq(Known) /\ new \in Seq(Known') /\ c.op = "check" /\ c.id = p /\ c.kids = new
  /\ Call(ops) /\ IsSeq(ops) /\ ops # <<>> /\ Head(ops) = Persist(p)
  /\ ToSet(ops) = {Persist(p), Save, Gc, c}
  /\ ~Splitting' /\ Tree' = cache_' /\ Root' = Root /\ Known \subseteq Known'
  /\ UNCHANGED <<write_buf, seq_, writes, latest>>

LEMMA FlushTo ==
  ASSUME QueueInv, FilesInv, LiveInv, TreeInv, DoFlush
  PROVE  FlushCall(Head(todo).id, cache_[Head(todo).id].kids, NewKids(Head(todo).id),
                   Len(cache_[Head(todo).id].kids), HitBy(Head(todo).id),
                   Check(Head(todo).id, cache_'[Head(todo).id].kids),
                   <<Persist(Head(todo).id)>> \o Commit \o <<Check(Head(todo).id, cache_'[Head(todo).id].kids)>>)
<1> DEFINE p == Head(todo).id
           old == cache_[p].kids
           new == NewKids(p)
           n == Len(old)
           hit == HitBy(p)
           x == Persist(p)
           c == Check(p, cache_'[p].kids)
           ops == <<x>> \o Commit \o <<c>>
<1>1. /\ Do("do_flush") /\ UnreadKids(p) = {} /\ FlushChildren(p, Len(cache_[p].kids) + 1)
      /\ Call(ops) /\ UNCHANGED <<write_buf, seq_, writes, latest>>
  BY DEF DoFlush, history
<1>2. /\ todo # <<>> /\ ~Splitting /\ ~Doomed /\ Tree = cache_
      /\ p \in DOMAIN cache_ /\ old # <<>>
  BY <1>1, TreeIs DEF Do, CallsInv, CallReady, Splitting, Doomed, LiveInv
<1>3. Shape(cache_, Root) /\ FanoutInv
  BY <1>2 DEF TreeInv
<1>4. IsInjective(old) /\ \A q \in DOMAIN cache_ : Len(cache_[q].kids) <= MAX_FANOUT
  BY <1>2, <1>3 DEF Shape, FanoutInv
<1>5. /\ n \in Nat \ {0} /\ old \in Seq(Known) /\ DOMAIN old = 1..n
      /\ new \in Seq(Known') /\ Len(new) = n /\ DOMAIN new = 1..n /\ IsInjective(new)
      /\ hit \subseteq 1..n /\ Known \subseteq Known'
      /\ \A i \in 1..n : /\ old[i] \in DOMAIN cache_ /\ old[i] # p
                         /\ i \notin hit => new[i] = old[i]
                         /\ i \in hit => new[i] \notin Known
                         /\ cache_'[new[i]] = Refreshed(MadeKids(p)[i])
      /\ DOMAIN cache_' = (DOMAIN cache_ \ {old[i] : i \in hit}) \cup {new[i] : i \in 1..n}
      /\ cache_'[p] = Spanning(Pushed(cache_[p], new), Refreshed(MadeKids(p)[1]),
                               Refreshed(MadeKids(p)[n]))
      /\ \A q \in DOMAIN cache_ : q # p /\ q \notin ToSet(old) =>
           q \in DOMAIN cache_' /\ cache_'[q] = cache_[q]
      /\ manifest_'.root = Root
  BY <1>1, <1>2, <1>4, FlushEffect DEF LiveInv
<1>6. Root' = Root
  BY <1>5 DEF Root
<1>7. \A i \in 1..n : SameLinks(cache_'[new[i]], cache_[old[i]])
  <2> SUFFICES ASSUME NEW i \in 1..n
               PROVE  SameLinks(cache_'[new[i]], cache_[old[i]])
    OBVIOUS
  <2>1. cache_'[new[i]] = Refreshed(MadeKids(p)[i])
    BY <1>5
  <2>2. SameLinks(Refreshed(MadeKids(p)[i]), cache_[cache_[p].kids[i]])
    BY <1>1, <1>2, <1>4, MadeLinks DEF LiveInv
  <2> QED
    BY <2>1, <2>2
<1>8. /\ cache_'[p].level = cache_[p].level /\ cache_'[p].kids = new /\ cache_'[p].buf = <<>>
      /\ cache_'[p].min = Refreshed(MadeKids(p)[1]).min /\ cache_'[p].max = Refreshed(MadeKids(p)[n]).max
  <2> DEFINE pushed == Pushed(cache_[p], new)
             a == Refreshed(MadeKids(p)[1])
             b == Refreshed(MadeKids(p)[n])
  <2>1. NodeIn(cache_[p], Known, Genuine)
    BY <1>2 DEF LiveInv, CacheInv
  <2> HIDE DEF a, b
  <2>2. /\ pushed.level = cache_[p].level /\ pushed.kids = new /\ pushed.buf = <<>>
        /\ Spanning(pushed, a, b) = [pushed EXCEPT !.min = a.min, !.max = b.max]
    BY <2>1 DEF NodeIn, Pushed, Spanning
  <2>3. DOMAIN pushed = DOMAIN cache_[p]
    BY <2>1 DEF NodeIn, Pushed
  <2>4. {"level", "kids", "buf", "min", "max"} \subseteq DOMAIN pushed
    BY <2>1, <2>3 DEF NodeIn
  <2> HIDE DEF pushed
  <2>5. /\ Spanning(pushed, a, b).level = pushed.level /\ Spanning(pushed, a, b).kids = pushed.kids
        /\ Spanning(pushed, a, b).buf = pushed.buf
        /\ Spanning(pushed, a, b).min = a.min /\ Spanning(pushed, a, b).max = b.max
    BY <2>2, <2>4
  <2>6. cache_'[p] = Spanning(pushed, a, b)
    BY <1>5 DEF pushed, a, b
  <2> QED
    BY <2>2, <2>5, <2>6 DEF a, b
<1>9. p \in DOMAIN cache_'
  <2> HIDE DEF p, old, hit, new, n
  <2>1. \A i \in hit : old[i] # p
    BY <1>5
  <2>2. p \in DOMAIN cache_ \ {old[i] : i \in hit}
    BY <1>2, <2>1
  <2> QED
    BY <1>5, <2>2
<1>10. x.op = "persist" /\ c.op = "check" /\ c.id = p /\ c.kids = new
  BY <1>8 DEF Persist, Check
<1>11. IsSeq(ops) /\ ops # <<>> /\ Head(ops) = x /\ ToSet(ops) = {x, Save, Gc, c}
  BY <1>10, FlushCalls
<1> HIDE DEF x, c, ops, new, old, hit, n, p
<1>12. ~Splitting'
  BY <1>1, <1>2, <1>10, <1>11, NextCall DEF LiveInv, Splitting, Do
<1>13. Tree' = cache_'
  BY <1>12, TreeIs
<1>14. ToSet(old) = {old[i] : i \in 1..n} /\ ToSet(new) = {new[i] : i \in 1..n} /\ 1 \in 1..n /\ n \in 1..n
  BY <1>5 DEF ToSet
<1>15. DOMAIN cache_ \subseteq Known
  BY DEF LiveInv, CacheInv
<1>16. \A i \in 1..n : new[i] # p
  BY <1>2, <1>5, <1>15
<1>18. \A q \in DOMAIN cache_' : \/ q = p \/ q \in ToSet(new)
                                 \/ q \in DOMAIN cache_ \ (ToSet(old) \cup {p}) /\ cache_'[q] = cache_[q]
  <2> SUFFICES ASSUME NEW q \in DOMAIN cache_', q # p, \A i \in 1..n : q # new[i]
               PROVE  q \in DOMAIN cache_ \ (ToSet(old) \cup {p}) /\ cache_'[q] = cache_[q]
    BY <1>14
  <2>1. q \in DOMAIN cache_ /\ \A i \in hit : q # old[i]
    BY <1>5
  <2>2. q \notin ToSet(old)
    BY <1>5, <1>14, <2>1
  <2> QED
    BY <1>5, <2>1, <2>2
<1>19. cache_'[p].min = cache_'[new[1]].min /\ cache_'[p].max = cache_'[new[n]].max
  BY <1>5, <1>8, <1>14
<1>20. \A i \in 1..n : i \in hit => new[i] \notin DOMAIN cache_
  BY <1>5, <1>15
<1>21. Flushes(cache_, cache_', p, n, old, new, hit)
  <2>0. old = cache_[p].kids
    BY DEF old
  <2>1. /\ p \in DOMAIN cache_ /\ n \in Nat \ {0} /\ old = cache_[p].kids
        /\ DOMAIN old = 1..n /\ DOMAIN new = 1..n /\ Len(new) = n /\ IsInjective(new)
        /\ ToSet(old) = {old[i] : i \in 1..n} /\ ToSet(new) = {new[i] : i \in 1..n} /\ hit \subseteq 1..n
    BY <1>2, <1>5, <1>14, <2>0
  <2>2. \A i \in 1..n : /\ old[i] \in DOMAIN cache_ /\ old[i] # p /\ new[i] # p
                        /\ i \notin hit => new[i] = old[i]
                        /\ i \in hit => new[i] \notin DOMAIN cache_
                        /\ SameLinks(cache_'[new[i]], cache_[old[i]])
    BY <1>5, <1>7, <1>16, <1>20
  <2>3. /\ DOMAIN cache_' = (DOMAIN cache_ \ {old[i] : i \in hit}) \cup {new[i] : i \in 1..n}
        /\ cache_'[p].level = cache_[p].level /\ cache_'[p].kids = new /\ cache_'[p].buf = <<>>
        /\ cache_'[p].min = cache_'[new[1]].min /\ cache_'[p].max = cache_'[new[n]].max
    BY <1>5, <1>8, <1>19
  <2> DEFINE C == cache_
             D == cache_'
  <2>4. /\ \A q \in DOMAIN C : q # p /\ q \notin ToSet(old) => q \in DOMAIN D /\ D[q] = C[q]
        /\ \A q \in DOMAIN D : q = p \/ q \in ToSet(new) \/ (q \in DOMAIN C \ (ToSet(old) \cup {p}) /\ D[q] = C[q])
    BY <1>5, <1>18
  <2> QED
    BY <2>1, <2>2, <2>3, <2>4, Zenon DEF Flushes
<1> QED
  BY <1>1, <1>2, <1>5, <1>6, <1>10, <1>11, <1>12, <1>13, <1>21 DEF x, c, ops, new, old, hit, n, p, FlushCall

-----------------------------------------------------------------------------
(* Steps that touch buffers or links *)

\* What a round of do_flush's last loop calls: nothing but what concerns the children
\* still to be looked at, and only on a full child.
LEMMA CheckCalls ==
  ASSUME QueueInv, StackOK, CheckChild, NEW op, op = Head(todo)
  PROVE  \E ops : /\ IsSeq(ops) /\ Call(ops)
                  /\ \A x \in ToSet(ops) :
                       \/ x.op = "check" /\ ToSet(x.kids) \subseteq ToSet(op.kids)
                       \/ /\ x.op \in {"do_flush", "split_leaf"} /\ x.id \in ToSet(op.kids)
                          /\ x.id \in DOMAIN cache_ /\ buffer_full(cache_[x.id].buf)
<1> DEFINE s == op.kids
           c == Head(s)
           next == Unchecked(op)
           over == OnOverflow(c, cache_[c], <<op.id, c>>)
           f == [op |-> "do_flush", id |-> c]
           l == [op |-> "split_leaf", id |-> c, path |-> <<op.id, c>>]
           u == Tail(s)
<1>1. todo # <<>> /\ op.op = "check" /\ op \in ToSet(todo)
  BY FirstIn DEF CheckChild, Do, QueueInv
<1>2. s \in Seq(Known)
  BY <1>1 DEF StackOK, CheckOK
<1>3. CASE s = <<>>
  <2>1. Call(<<>>)
    BY <1>3 DEF CheckChild
  <2>2. IsSeq(<<>>) /\ ToSet(<<>>) = {}
    BY CallsNone DEF Calls, ToSet
  <2> QED
    BY <2>1, <2>2
<1>4. CASE s # <<>>
  <2>1. next.op = "check" /\ next.kids = u
    BY DEF Unchecked, Check
  <2>2. c \in ToSet(s) /\ ToSet(u) \subseteq ToSet(s)
    <3>1. /\ u \in Seq(Known) /\ Len(s) \in Nat /\ Len(u) = Len(s) - 1 /\ c = s[1]
          /\ 1 \in 1..Len(s) /\ \A i \in 1..Len(u) : u[i] = s[i + 1]
      BY <1>2, <1>4, HeadTailProperties
    <3> HIDE DEF u, s, c
    <3>3. ToSet(s) = {s[i] : i \in 1..Len(s)} /\ ToSet(u) = {u[i] : i \in 1..Len(u)}
      BY <1>2, <3>1, ToSetFacts
    <3>4. \A i \in 1..Len(u) : i + 1 \in 1..Len(s)
      BY <3>1
    <3> QED
      BY <3>1, <3>3, <3>4
  <2>3. IsSeq(<<next>>) /\ ToSet(<<next>>) = {next} /\ <<next>> \in Seq({next})
    <3>1. ToSet(<<next>>) = {next}
      BY DEF ToSet
    <3>2. IsSeq(<<next>>)
      BY <2>1, CallsOne DEF Calls
    <3> QED
      BY <3>1, <3>2
  <2>4. CASE Call(<<next>>)
    BY <2>1, <2>2, <2>3, <2>4
  <2>5. CASE c \in DOMAIN cache_ /\ buffer_full(cache_[c].buf) /\ Call(over \o <<next>>)
    <3>1. over = <<>> \/ over = <<f>> \/ over = <<l>>
      BY DEF OnOverflow
    <3>2. f.op = "do_flush" /\ f.id = c /\ l.op = "split_leaf" /\ l.id = c
      OBVIOUS
    <3> HIDE DEF f, l, over, next
    <3>3. CASE over = <<>>
      <4>1. over \o <<next>> = <<next>>
        BY <2>3, <3>3, ConcatEmptySeq
      <4> QED
        BY <2>4, <2>5, <4>1
    <3>4. ASSUME NEW x, over = <<x>>, x = f \/ x = l
          PROVE  \E ops : /\ IsSeq(ops) /\ Call(ops)
                          /\ \A y \in ToSet(ops) :
                               \/ y.op = "check" /\ ToSet(y.kids) \subseteq ToSet(s)
                               \/ /\ y.op \in {"do_flush", "split_leaf"} /\ y.id \in ToSet(s)
                                  /\ y.id \in DOMAIN cache_ /\ buffer_full(cache_[y.id].buf)
      <4> DEFINE ops == <<x>> \o <<next>>
      <4>1. ops = <<x, next>> /\ IsSeq(ops)
        BY PairFacts
      <4>2. ToSet(ops) = {x, next}
        <5>1. ToSet(<<x, next>>) = {x, next}
          BY DEF ToSet
        <5> QED
          BY <4>1, <5>1
      <4>3. Call(ops)
        BY <2>5, <3>4
      <4> HIDE DEF ops, c, s
      <4>4. x.op \in {"do_flush", "split_leaf"} /\ x.id = c
        BY <3>2, <3>4
      <4> QED
        BY <2>1, <2>2, <2>5, <4>1, <4>2, <4>3, <4>4
    <3> QED
      BY <3>1, <3>3, <3>4
  <2> QED
    BY <1>4, <2>4, <2>5 DEF CheckChild
<1> QED
  BY <1>3, <1>4

LEMMA CheckChildEmpty ==
  ASSUME QueueInv, LiveInv, TreeInv, EmptyInv, CheckChild
  PROVE  EmptyInv'
<1> DEFINE op == Head(todo)
<1>1. /\ todo # <<>> /\ ~Splitting /\ ~Doomed /\ op.op = "check" /\ cache_' = cache_
  BY DEF CheckChild, Do, Splitting, Doomed, memory
<1>2. StackOK /\ Tree = cache_
  BY <1>1, TreeIs DEF TreeInv
<1>3. PICK X : Emptied(X) /\ From(op, Tree, X)
  BY <1>1, FirstFrom
<1>4. \A k \in ToSet(op.kids) : ParentsIn(Tree, X, k)
  BY <1>1, <1>3 DEF From
<1>5. PICK ops : /\ IsSeq(ops) /\ Call(ops)
                 /\ \A x \in ToSet(ops) :
                       \/ x.op = "check" /\ ToSet(x.kids) \subseteq ToSet(op.kids)
                       \/ /\ x.op \in {"do_flush", "split_leaf"} /\ x.id \in ToSet(op.kids)
                          /\ x.id \in DOMAIN cache_ /\ buffer_full(cache_[x.id].buf)
  BY <1>2, CheckCalls
<1>6. \A x \in ToSet(ops) : From(x, Tree, X)
  BY <1>4, <1>5 DEF From
<1>7. ops # <<>> => Head(ops).op # "insert_child" /\ FullFirst(Head(ops), cache_')
  BY <1>1, <1>5, FirstIn DEF FullFirst
<1>8. ~Splitting'
  BY <1>1, <1>5, <1>7, NextCall DEF Splitting, Do, LiveInv
<1>9. Tree' = Tree
  BY <1>1, <1>2, <1>8, TreeIs
<1> QED
  BY <1>1, <1>2, <1>3, <1>5, <1>6, <1>7, <1>9, EmptyKept DEF LiveInv

\* The rewrite of a node in place.
LEMMA PersistEmpty ==
  ASSUME QueueInv, LiveInv, TreeInv, EmptyInv, PersistNode
  PROVE  EmptyInv'
<1> DEFINE id == Head(todo).id
           n == flush_to_disk(cache_[id])
<1>1. /\ todo # <<>> /\ ~Splitting /\ ~Doomed /\ id \in DOMAIN cache_
      /\ cache_' = [cache_ EXCEPT ![id] = n] /\ Call(<<>>)
  BY DEF PersistNode, Do, Splitting, Doomed, LiveInv, CallsInv, CallReady
<1> HIDE DEF id
<1>2. IsSeq(<<>>) /\ ToSet(<<>>) = {}
  BY CallsNone DEF Calls, ToSet
<1>3. ~Splitting' /\ StackOK
  BY <1>1, <1>2, NextCall DEF Splitting, Do, LiveInv, TreeInv
<1>4. Tree = cache_ /\ Tree' = cache_'
  BY <1>1, <1>3, TreeIs
<1>5. NodeIn(cache_[id], Known, Genuine) /\ cache_[id].buf \in Seq(Genuine)
  BY <1>1 DEF LiveInv, CacheInv, NodeIn
<1>6. n.kids = cache_[id].kids /\ n.buf = sort_buffer(cache_[id].buf)
  BY <1>5, FlushToDiskIs DEF SameLinks
<1>7. cache_[id].buf = <<>> => n.buf = <<>>
  BY <1>5, <1>6, SortBufferEmpty, GenuineEntries
<1> HIDE DEF n
<1>8. DOMAIN cache_' = DOMAIN cache_ /\ \A q \in DOMAIN cache_ :
        cache_'[q].kids = cache_[q].kids /\ (cache_[q].buf = <<>> => cache_'[q].buf = <<>>)
  BY <1>1, <1>6, <1>7
<1>9. PICK X : Emptied(X)
  BY <1>1, FirstFrom
<1> QED
  BY <1>1, <1>2, <1>3, <1>4, <1>8, <1>9, EmptyKept DEF LiveInv

\* insert_child into a parent with a free slot.
LEMMA InsertChildEmpty ==
  ASSUME QueueInv, FilesInv, LiveInv, TreeInv, EmptyInv, InsertChild
  PROVE  EmptyInv'
<1> DEFINE op == Head(todo)
           p == op.id
           w == Tree[p].kids
           n == Spanning(Tree[p], Node(Head(w)), Node(Last(w)))
           ops == <<Persist(p)>>
<1>1. /\ todo # <<>> /\ Splitting /\ ~Doomed /\ p \in DOMAIN cache_
      /\ cache_' = [cache_ EXCEPT ![p] = n] /\ Call(ops)
  BY InsertChildEffect
<1>2. StackOK
  BY <1>1 DEF TreeInv
<1>3. /\ DOMAIN Tree = DOMAIN cache_ /\ \A q \in DOMAIN cache_ : q # p => Tree[q] = cache_[q]
      /\ NodeIn(Tree[p], Known, Genuine)
  BY <1>1, <1>2, TreeSplitting DEF LiveInv
<1>4. n.kids = Tree[p].kids /\ n.buf = Tree[p].buf
  BY <1>3, SpanningLinks, SpanningFacts DEF SameLinks
<1> HIDE DEF n
<1>6. IsSeq(ops) /\ Head(ops) = Persist(p) /\ ToSet(ops) = {Persist(p)} /\ ops # <<>>
  <2>1. ToSet(ops) = {Persist(p)}
    BY DEF ToSet
  <2>2. IsSeq(ops)
    BY CallsOne DEF Calls, Persist
  <2> QED
    BY <2>1, <2>2
<1>7. Persist(p).op = "persist"
  BY DEF Persist
<1> HIDE DEF ops
<1>8. ~Splitting'
  BY <1>1, <1>6, <1>7, NextCall DEF Splitting, Do, LiveInv
<1>9. DOMAIN Tree' = DOMAIN Tree /\ \A q \in DOMAIN Tree :
        Tree'[q].kids = Tree[q].kids /\ (Tree[q].buf = <<>> => Tree'[q].buf = <<>>)
  BY <1>1, <1>3, <1>4, <1>8, TreeIs
<1>10. PICK X : Emptied(X)
  BY <1>1, FirstFrom
<1>11. (\A x \in ToSet(ops) : From(x, Tree, X)) /\ FullFirst(Head(ops), cache_')
  BY <1>6, <1>7 DEF From, FullFirst
<1> QED
  BY <1>1, <1>2, <1>6, <1>9, <1>10, <1>11, EmptyKept DEF LiveInv

\* A flush empties its node; what is above it was emptied before.
LEMMA DoFlushEmpty ==
  ASSUME QueueInv, FilesInv, LiveInv, TreeInv, EmptyInv, DoFlush
  PROVE  EmptyInv'
<1> DEFINE p == Head(todo).id
           old == cache_[p].kids
           new == NewKids(p)
           n == Len(old)
           hit == HitBy(p)
           c == Check(p, cache_'[p].kids)
           ops == <<Persist(p)>> \o Commit \o <<c>>
<1>1. FlushCall(p, old, new, n, hit, c, ops)
  BY FlushTo
<1>2. Head(todo).op = "do_flush"
  BY DEF DoFlush, Do
<1>3. ~Doomed /\ todo # <<>>
  BY <1>1 DEF FlushCall
<1>4. PICK X : Emptied(X) /\ Drained(Tree, X) /\ From(Head(todo), Tree, X)
  BY <1>3, FirstFrom
<1>5. ParentsIn(Tree, X, p) /\ buffer_full(cache_[p].buf)
  BY <1>2, <1>3, <1>4, FirstFrom DEF From, FullFirst
<1> HIDE DEF p, old, new, n, hit, c, ops
<1>6. Flushes(Tree, Tree', p, n, old, new, hit) /\ Tree = cache_ /\ DOMAIN Tree \subseteq Known
  BY <1>1 DEF FlushCall, LiveInv, CacheInv
<1>7. p \notin X
  <2>1. DOMAIN << >> = {}
    OBVIOUS
  <2>2. ~buffer_full(<< >>)
    BY <2>1, NoneFull
  <2> QED
    BY <1>4, <1>5, <1>6, <2>2 DEF Drained
<1>30. Shape(Tree, Root) /\ StackOK
  BY <1>3 DEF TreeInv
<1> DEFINE C == Tree
           D == Tree'
           K == Known
           Y == X \cup {p}
<1>8. Flushes(C, D, p, n, old, new, hit) /\ DOMAIN C \subseteq K /\ Drained(C, X) /\ ParentsIn(C, X, p)
      /\ \A q \in DOMAIN C : \A k \in ToSet(C[q].kids) \cap ToSet(old) : q = p
  <2>1. old = C[p].kids /\ p \in DOMAIN C
    BY <1>6 DEF Flushes
  <2> QED
    BY <1>4, <1>5, <1>6, <1>30, <2>1 DEF Shape
<1>9. \A i \in 1..n : i \in hit => new[i] \notin K
  BY <1>1 DEF FlushCall
<1>10. ToSet(new) = {new[i] : i \in 1..n} /\ ToSet(old) = {old[i] : i \in 1..n} /\ D[p].kids = new /\ C[p].kids = old
       /\ p \in DOMAIN C
  BY <1>8 DEF Flushes
<1> HIDE DEF C, D, K
\* The parent of a node of D that C knew was its parent in C, or the same under its old id.
<1>11. ASSUME NEW q \in DOMAIN D, q # p, NEW k \in ToSet(D[q].kids)
       PROVE  \/ q \in DOMAIN C /\ k \in ToSet(C[q].kids) /\ D[q].kids = C[q].kids
              \/ \E i \in hit : q = new[i] /\ k \in ToSet(C[old[i]].kids) /\ old[i] \in DOMAIN C /\ old[i] \in ToSet(old)
  <2>1. CASE q \in ToSet(new)
    <3>1. PICK i \in 1..n : q = new[i]
      BY <1>10, <2>1
    <3>2. D[q].kids = C[old[i]].kids /\ old[i] \in DOMAIN C /\ (i \notin hit => new[i] = old[i])
          /\ old[i] \in ToSet(old)
      BY <1>8, <1>10, <3>1 DEF Flushes, SameLinks
    <3> QED
      BY <1>11, <3>1, <3>2
  <2>2. CASE q \notin ToSet(new)
    BY <1>8, <1>11, <2>2 DEF Flushes
  <2> QED
    BY <2>1, <2>2
\* No child of p was emptied.
<1>12. ToSet(old) \cap X = {}
  BY <1>7, <1>8, <1>10 DEF Drained, ParentsIn
<1>13. X \subseteq DOMAIN D /\ \A q \in X : D[q] = C[q]
  <2> SUFFICES ASSUME NEW q \in X PROVE q \in DOMAIN D /\ D[q] = C[q]
    OBVIOUS
  <2>1. q \in DOMAIN C /\ q # p /\ q \notin ToSet(old)
    BY <1>7, <1>8, <1>12 DEF Drained
  <2> QED
    BY <1>8, <2>1 DEF Flushes
<1>14. ASSUME NEW k, ParentsIn(C, X, k) PROVE ParentsIn(D, Y, k) \/ k \in ToSet(new) \ K
  <2> SUFFICES ASSUME NEW q \in DOMAIN D, k \in ToSet(D[q].kids), q # p PROVE q \in X
    BY DEF ParentsIn
  <2>1. ASSUME NEW i \in hit, k \in ToSet(C[old[i]].kids), old[i] \in DOMAIN C, old[i] \in ToSet(old) PROVE FALSE
    BY <1>12, <1>14, <2>1 DEF ParentsIn
  <2> QED
    BY <1>11, <1>14, <2>1 DEF ParentsIn
<1>15. \A k \in K : ParentsIn(C, X, k) => ParentsIn(D, Y, k)
  BY <1>14
<1>16. ASSUME NEW k \in ToSet(new) PROVE ParentsIn(D, Y, k)
  <2> SUFFICES ASSUME NEW q \in DOMAIN D, k \in ToSet(D[q].kids), q # p PROVE FALSE
    BY DEF ParentsIn
  <2>1. PICK j \in 1..n : k = new[j]
    BY <1>10
  <2>2. PICK m \in DOMAIN C : k \in ToSet(C[m].kids) /\ (m = q \/ m \in ToSet(old))
    BY <1>11
  <2>3. ToSet(C[m].kids) \subseteq DOMAIN C
    <3>1. Shape(C, Root)
      BY <1>30 DEF C
    <3> QED
      BY <3>1 DEF Shape
  <2>4. j \notin hit
    BY <1>8, <2>1, <2>2, <2>3 DEF Flushes
  <2>5. k = old[j] /\ k \in ToSet(old)
    BY <1>8, <1>10, <2>1, <2>4 DEF Flushes
  <2>6. m = p
    BY <1>8, <2>2, <2>5
  <2>7. p \notin ToSet(old)
    BY <1>8, <1>10 DEF Flushes
  <2> QED
    BY <2>2, <2>6, <2>7
<1>17. Drained(D, Y)
  <2>1. p \in DOMAIN D /\ D[p].buf = <<>>
    <3>1. \A i \in 1..n : old[i] # p
      BY <1>8 DEF Flushes
    <3>2. hit \subseteq 1..n
      BY <1>8 DEF Flushes
    <3>3. p \notin {old[i] : i \in hit}
      BY <3>1, <3>2
    <3> QED
      BY <1>8, <1>10, <3>3 DEF Flushes
  <2>2. \A q \in X : ParentsIn(C, X, q) /\ q \in DOMAIN C /\ C[q].buf = <<>>
    BY <1>8 DEF Drained
  <2>3. ASSUME NEW q \in Y PROVE D[q].buf = <<>> /\ ParentsIn(D, Y, q)
    <3>1. q \in K /\ ParentsIn(C, X, q)
      BY <1>8, <1>10, <2>2
    <3> QED
      BY <1>13, <1>15, <2>1, <2>2, <3>1
  <2> QED
    BY <1>13, <2>1, <2>3 DEF Drained
<1>18. \A x \in ToSet(ops) : From(x, D, Y)
  <2>1. ToSet(ops) = {Persist(p), Save, Gc, c} /\ c.op = "check" /\ c.kids = new
    BY <1>1 DEF FlushCall
  <2> QED
    BY <1>16, <2>1 DEF From, Persist, Save, Gc
<1>19. FullFirst(Head(ops), cache_')
  <2>1. Head(ops) = Persist(p)
    BY <1>1 DEF FlushCall
  <2> QED
    BY <2>1 DEF FullFirst, Persist
<1>20. IsSeq(ops) /\ Call(ops)
  BY <1>1 DEF FlushCall
<1> QED
  BY <1>3, <1>4, <1>15, <1>17, <1>18, <1>19, <1>20, <1>30, EmptyStep DEF C, D, K, LiveInv

-----------------------------------------------------------------------------
(* Splits and emptied nodes *)

\* The node gone of the tree c is cut into a and b, which are empty if it was emptied
\* and have no children if it was not.
CutNode(c, root, K, X, gone, l, r, a, b) ==
  /\ Shape(c, root) /\ DOMAIN c \subseteq K /\ Drained(c, X) /\ l \notin K /\ r \notin K
  /\ ParentsIn(c, X, gone) /\ ToSet(a.kids) \cup ToSet(b.kids) \subseteq ToSet(c[gone].kids)
  /\ gone \in X => a.buf = <<>> /\ b.buf = <<>>
  /\ gone \notin X => ToSet(a.kids) = {} /\ ToSet(b.kids) = {}

LEMMA SplitDrained ==
  ASSUME NEW c, NEW d, NEW root, NEW K, NEW X, NEW gone, NEW p, NEW l, NEW r, NEW a, NEW b,
         CutNode(c, root, K, X, gone, l, r, a, b), Splits(c, d, gone, p, l, r, a, b),
         NEW Y, Y = IF gone \in X THEN (X \ {gone}) \cup {l, r} ELSE X
  PROVE  Drained(d, Y) /\ p \in Y /\ \A k \in K : ParentsIn(c, X, k) => ParentsIn(d, Y, k)
<1>0. /\ Shape(c, root) /\ DOMAIN c \subseteq K /\ Drained(c, X) /\ l \notin K /\ r \notin K
      /\ ParentsIn(c, X, gone) /\ ToSet(a.kids) \cup ToSet(b.kids) \subseteq ToSet(c[gone].kids)
      /\ gone \in X => a.buf = <<>> /\ b.buf = <<>>
      /\ gone \notin X => ToSet(a.kids) = {} /\ ToSet(b.kids) = {}
  BY DEF CutNode
<1> USE <1>0
<1>1. /\ p \in DOMAIN c /\ gone \in DOMAIN c \ {p} /\ l # r /\ l \notin DOMAIN c /\ r \notin DOMAIN c
      /\ DOMAIN d = (DOMAIN c \ {gone}) \cup {l, r} /\ d[l] = a /\ d[r] = b /\ d[p].buf = c[p].buf
      /\ ToSet(d[p].kids) = (ToSet(c[p].kids) \ {gone}) \cup {l, r}
      /\ \A q \in DOMAIN c \ {gone, p} : d[q] = c[q]
  BY DEF Splits
<1>2. gone \in ToSet(c[p].kids)
  <2>1. PICK i \in 1..Len(c[p].kids) : c[p].kids[i] = gone
    BY DEF Splits
  <2>2. i \in DOMAIN c[p].kids
    BY <2>1 DEF Splits, IsList
  <2> QED
    BY <2>1, <2>2 DEF ToSet
<1>3. p \in X /\ p \in Y /\ X \subseteq DOMAIN c
  BY <1>1, <1>2 DEF ParentsIn, Drained
<1>4. \A q \in DOMAIN c : ToSet(c[q].kids) \subseteq DOMAIN c
  BY DEF Shape
<1>5. Y \subseteq DOMAIN d
  BY <1>1, <1>3
<1>6. ASSUME NEW q \in DOMAIN d, NEW k \in ToSet(d[q].kids)
      PROVE  \/ q \in {l, r} /\ gone \in X /\ k \in K
             \/ q = p /\ k \in {l, r}
             \/ q \in DOMAIN c \ {gone} /\ k \in ToSet(c[q].kids) /\ k \in K
  BY <1>1, <1>4, <1>6
<1>7. ASSUME NEW k \in K, ParentsIn(c, X, k) PROVE ParentsIn(d, Y, k)
  <2> SUFFICES ASSUME NEW q \in DOMAIN d, k \in ToSet(d[q].kids) PROVE q \in Y
    BY DEF ParentsIn
  <2> QED
    BY <1>3, <1>6, <1>7 DEF ParentsIn
<1>8. ParentsIn(d, Y, l) /\ ParentsIn(d, Y, r)
  BY <1>3, <1>6 DEF ParentsIn
<1>9. ASSUME NEW q \in Y PROVE d[q].buf = <<>> /\ ParentsIn(d, Y, q)
  <2>1. CASE q \in {l, r}
    BY <1>1, <1>3, <1>8, <2>1
  <2>2. CASE q \notin {l, r}
    <3>1. q \in X /\ q # gone
      BY <1>9, <2>2
    <3>2. d[q].buf = c[q].buf /\ c[q].buf = <<>> /\ ParentsIn(c, X, q) /\ q \in K
      BY <1>1, <1>3, <3>1 DEF Drained
    <3> QED
      BY <1>7, <3>2
  <2> QED
    BY <2>1, <2>2
<1> QED
  BY <1>3, <1>5, <1>7, <1>9 DEF Drained

LEMMA SplitRootDrained ==
  ASSUME NEW c, NEW d, NEW root, NEW K, NEW X, NEW t, NEW l, NEW r, NEW a, NEW b,
         CutNode(c, root, K, X, root, l, r, a, b), SplitsRoot(c, d, root, t, l, r, a, b), t \notin K,
         NEW Y, Y = IF root \in X THEN (X \ {root}) \cup {l, r, t} ELSE X
  PROVE  Drained(d, Y) /\ \A k \in K : ParentsIn(c, X, k) => ParentsIn(d, Y, k)
<1>0. /\ Shape(c, root) /\ DOMAIN c \subseteq K /\ Drained(c, X) /\ l \notin K /\ r \notin K
      /\ ParentsIn(c, X, root) /\ ToSet(a.kids) \cup ToSet(b.kids) \subseteq ToSet(c[root].kids)
      /\ root \in X => a.buf = <<>> /\ b.buf = <<>>
      /\ root \notin X => ToSet(a.kids) = {} /\ ToSet(b.kids) = {}
  BY DEF CutNode
<1> USE <1>0
<1>1. /\ root \in DOMAIN c /\ l # r /\ l # t /\ r # t
      /\ l \notin DOMAIN c /\ r \notin DOMAIN c /\ t \notin DOMAIN c
      /\ DOMAIN d = (DOMAIN c \ {root}) \cup {l, r, t} /\ d[l] = a /\ d[r] = b
      /\ d[t].kids = <<l, r>> /\ d[t].buf = <<>>
      /\ \A q \in DOMAIN c \ {root} : d[q] = c[q]
  BY DEF SplitsRoot
<1>2. ToSet(d[t].kids) = {l, r}
  <2>1. ToSet(<<l, r>>) = {l, r}
    BY DEF ToSet
  <2> QED
    BY <1>1, <2>1
<1>3. X \subseteq DOMAIN c
  BY DEF Drained
<1>4. \A q \in DOMAIN c : ToSet(c[q].kids) \subseteq DOMAIN c
  BY DEF Shape
<1>5. Y \subseteq DOMAIN d
  BY <1>1, <1>3
<1>6. ASSUME NEW q \in DOMAIN d, NEW k \in ToSet(d[q].kids)
      PROVE  \/ q \in {l, r} /\ root \in X /\ k \in K
             \/ q = t /\ k \in {l, r}
             \/ q \in DOMAIN c \ {root} /\ k \in ToSet(c[q].kids) /\ k \in K
  <2>1. CASE q = t
    BY <1>2, <1>6, <2>1
  <2>2. CASE q \in {l, r}
    BY <1>1, <1>4, <1>6, <2>2
  <2>3. CASE q \notin {l, r, t}
    BY <1>1, <1>4, <1>6, <2>3
  <2> QED
    BY <2>1, <2>2, <2>3
<1>7. ASSUME NEW k \in K, ParentsIn(c, X, k) PROVE ParentsIn(d, Y, k)
  <2> SUFFICES ASSUME NEW q \in DOMAIN d, k \in ToSet(d[q].kids) PROVE q \in Y
    BY DEF ParentsIn
  <2> QED
    BY <1>3, <1>6, <1>7 DEF ParentsIn
<1>8. root \in X => ParentsIn(d, Y, l) /\ ParentsIn(d, Y, r) /\ ParentsIn(d, Y, t)
  <2> SUFFICES ASSUME root \in X, NEW k \in {l, r, t}, NEW q \in DOMAIN d, k \in ToSet(d[q].kids)
               PROVE  q \in Y
    BY DEF ParentsIn
  <2>1. k \notin K
    OBVIOUS
  <2>2. q = t
    BY <1>6, <2>1
  <2> QED
    BY <2>2
<1>9. ASSUME NEW q \in Y PROVE d[q].buf = <<>> /\ ParentsIn(d, Y, q)
  <2>1. CASE q \in {l, r, t}
    BY <1>1, <1>3, <1>8, <1>9, <2>1
  <2>2. CASE q \notin {l, r, t}
    <3>1. q \in X /\ q # root
      BY <1>3, <1>9, <2>2
    <3>2. d[q].buf = c[q].buf /\ c[q].buf = <<>> /\ ParentsIn(c, X, q) /\ q \in K
      BY <1>1, <1>3, <3>1 DEF Drained
    <3> QED
      BY <1>7, <3>2
  <2> QED
    BY <2>1, <2>2
<1> QED
  BY <1>5, <1>7, <1>9 DEF Drained

\* split_leaf: a full buffer is not that of an emptied node.
LEMMA SplitLeafEmpty ==
  ASSUME QueueInv, FilesInv, LiveInv, TreeInv, EmptyInv, SplitLeaf
  PROVE  EmptyInv'
<1> DEFINE x == Head(todo).id
           parent == Head(Head(todo).path)
           buf == StableSort(cache_[x].buf)
           a == create(0, LeftHalf(buf), <<>>)
           b == create(0, RightHalf(buf), <<>>)
           l == manifest_.next
           r == manifest_.next + 1
           ins == [op |-> "insert_child", id |-> parent, old |-> x, left |-> l, right |-> r]
           ops == (IF x = Root THEN <<>> ELSE <<ins>>) \o Commit
<1>1. /\ todo # <<>> /\ ~Splitting /\ ~Doomed /\ Tree = cache_ /\ x \in DOMAIN cache_
      /\ LeftHalf(buf) \in Seq(Genuine) /\ RightHalf(buf) \in Seq(Genuine)
      /\ Call(ops) /\ IsSeq(ops) /\ ToSet(ops) \subseteq {ins, Save, Gc}
      /\ todo' # <<>> /\ l \notin Known /\ r \notin Known /\ Known \subseteq Known'
      /\ x = Root => /\ ~Splitting' /\ Root' \notin Known /\ Head(todo') = Save
                     /\ SplitsRoot(Tree, Tree', Root, Root', l, r, a, b)
      /\ x # Root => /\ Splitting' /\ Head(todo') = ins /\ Root' = Root
                     /\ ~Doomed' => Splits(Tree, Tree', x, parent, l, r, a, b)
  <2>1. LeafCall(x, parent, a, b, l, r, ins, ops)
    BY SplitLeafTo
  <2> HIDE DEF x, parent, a, b, l, r, ins, ops
  <2> QED
    BY <2>1 DEF LeafCall, buf
<1>2. ToSet(a.kids) = {} /\ ToSet(b.kids) = {}
  BY <1>1, LeafMade
<1>3. Head(todo).op = "split_leaf"
  BY DEF SplitLeaf, Do
<1>4. PICK X : Emptied(X) /\ Drained(Tree, X) /\ From(Head(todo), Tree, X)
  BY <1>1, FirstFrom
<1>5. ParentsIn(Tree, X, x) /\ buffer_full(cache_[x].buf)
  BY <1>1, <1>3, <1>4, FirstFrom DEF From, FullFirst
<1>6. ins.op = "insert_child" /\ ins.id = parent
  OBVIOUS
<1> HIDE DEF x, parent, buf, a, b, l, r, ins, ops
<1>7. x \notin X
  <2>1. DOMAIN << >> = {}
    OBVIOUS
  <2>2. ~buffer_full(<< >>)
    BY <2>1, NoneFull
  <2> QED
    BY <1>1, <1>4, <1>5, <2>2 DEF Drained
<1>8. Shape(Tree, Root) /\ StackOK /\ DOMAIN Tree \subseteq Known
  BY <1>1 DEF TreeInv, LiveInv, CacheInv
<1> SUFFICES ASSUME ~Doomed' PROVE EmptyInv'
  BY DEF EmptyInv
<1>9. Drained(Tree', X) /\ (x # Root => parent \in X)
      /\ \A k \in Known : ParentsIn(Tree, X, k) => ParentsIn(Tree', X, k)
  <2> DEFINE c == Tree
             d == Tree'
             K == Known
             s == Root
             t == Root'
  <2>1. /\ Shape(c, s) /\ DOMAIN c \subseteq K /\ Drained(c, X) /\ l \notin K /\ r \notin K
        /\ ToSet(a.kids) \cup ToSet(b.kids) \subseteq ToSet(c[x].kids)
        /\ ParentsIn(c, X, x) /\ X = IF x \in X THEN (X \ {x}) \cup {l, r} ELSE X
        /\ X = IF x \in X THEN (X \ {x}) \cup {l, r, t} ELSE X
        /\ ToSet(a.kids) = {} /\ ToSet(b.kids) = {}
    BY <1>1, <1>2, <1>4, <1>5, <1>7, <1>8
  <2>6. CutNode(c, s, K, X, x, l, r, a, b)
    BY <1>7, <2>1 DEF CutNode
  <2>2. x = s => t \notin K /\ SplitsRoot(c, d, x, t, l, r, a, b)
    BY <1>1
  <2>3. x # s => Splits(c, d, x, parent, l, r, a, b)
    BY <1>1
  <2> HIDE DEF c, d, K, s, t
  <2>4. CASE x = s
    <3>1. /\ CutNode(c, x, K, X, x, l, r, a, b) /\ SplitsRoot(c, d, x, t, l, r, a, b) /\ t \notin K
          /\ X = IF x \in X THEN (X \ {x}) \cup {l, r, t} ELSE X
      BY <2>1, <2>2, <2>4, <2>6
    <3>2. Drained(d, X) /\ \A k \in K : ParentsIn(c, X, k) => ParentsIn(d, X, k)
      BY ONLY <3>1, SplitRootDrained
    <3> QED
      BY <2>4, <3>2 DEF c, d, K, s
  <2>5. CASE x # s
    <3>1. Drained(d, X) /\ parent \in X /\ \A k \in K : ParentsIn(c, X, k) => ParentsIn(d, X, k)
      <4>1. /\ CutNode(c, s, K, X, x, l, r, a, b) /\ Splits(c, d, x, parent, l, r, a, b)
            /\ X = IF x \in X THEN (X \ {x}) \cup {l, r} ELSE X
        BY <2>1, <2>3, <2>5, <2>6
      <4> QED
        BY ONLY <4>1, SplitDrained
    <3> QED
      BY <3>1 DEF c, d, K
  <2> QED
    BY <2>4, <2>5
<1>10. ASSUME NEW y \in ToSet(ops) PROVE From(y, Tree', X)
  <2>1. x = Root => y \in {Save, Gc}
    <3>1. ops = Commit => ToSet(ops) = {Save, Gc}
      BY DEF ToSet, Commit
    <3>2. x = Root => ops = Commit
      <4>1. Commit \in Seq({Save, Gc})
        BY DEF Commit
      <4> QED
        BY <4>1, ConcatEmptySeq DEF ops
    <3> QED
      BY <3>1, <3>2
  <2>2. y \in {ins, Save, Gc}
    BY <1>1
  <2> QED
    BY <1>6, <1>9, <2>1, <2>2 DEF From, Save, Gc
<1>11. ops # <<>> => FullFirst(Head(ops), cache_')
  <2> SUFFICES ASSUME ops # <<>> PROVE FullFirst(Head(ops), cache_')
    OBVIOUS
  <2>1. Head(ops) \in {ins, Save, Gc}
    BY <1>1, FirstIn
  <2> QED
    BY <1>6, <2>1 DEF FullFirst, Save, Gc
<1> QED
  BY <1>1, <1>4, <1>8, <1>9, <1>10, <1>11, EmptyStep DEF LiveInv

\* insert_child into a full parent: the halves of an emptied node are empty.
LEMMA SplitParentEmpty ==
  ASSUME QueueInv, FilesInv, LiveInv, TreeInv, EmptyInv, SplitParent
  PROVE  EmptyInv'
<1> DEFINE x == Head(todo).id
           parent == IF x = Root THEN x ELSE ParentOf(x)
           l == manifest_.next
           r == manifest_.next + 1
           ins == [op |-> "insert_child", id |-> parent, old |-> x, left |-> l, right |-> r]
           ops == (IF x = Root THEN <<>> ELSE <<ins>>) \o Commit
           s == LeftHalf(Tree[x].kids)
           t == RightHalf(Tree[x].kids)
<1>0. Head(todo).op = "insert_child" /\ todo # <<>> /\ Missing(Head(todo)) = {}
  BY Zenon DEF SplitParent, Do
<1>1. ~Doomed
  <2>1. Readable(x)
    BY <1>0 DEF Missing
  <2> QED
    BY <2>1 DEF Doomed, Readable, LiveInv, CacheInv
<1>2. PICK X : Emptied(X) /\ Drained(Tree, X) /\ From(Head(todo), Tree, X)
  BY <1>0, <1>1, FirstFrom
<1>3. x \in X /\ Tree[x].buf = <<>>
  BY <1>0, <1>2 DEF From, Drained
<1>4. /\ x \in DOMAIN Tree /\ DOMAIN Tree = DOMAIN cache_
      /\ Call(ops) /\ IsSeq(ops) /\ ToSet(ops) \subseteq {ins, Save, Gc}
      /\ todo' # <<>> /\ l \notin Known /\ r \notin Known /\ Known \subseteq Known'
      /\ s \in Seq(Known) /\ t \in Seq(Known) /\ IsCut(Tree[x].kids, s, t)
      /\ \E a, b : /\ SpanOf(Tree, a, Tree[x].level, s) /\ SpanOf(Tree, b, Tree[x].level, t)
                   /\ x = Root => /\ ~Splitting' /\ Root' \notin Known /\ Head(todo') = Save
                                  /\ SplitsRoot(Tree, Tree', Root, Root', l, r, a, b)
                   /\ x # Root => /\ Splitting' /\ Head(todo') = ins /\ Root' = Root
                                  /\ ~Doomed' => Splits(Tree, Tree', x, parent, l, r, a, b)
  <2>1. ParentCall(x, parent, l, r, ins, ops, s, t)
    BY <1>3, SplitParentTo
  <2> HIDE DEF x, parent, l, r, ins, ops, s, t
  <2> QED
    BY <2>1 DEF ParentCall
<1>5. PICK a, b : /\ SpanOf(Tree, a, Tree[x].level, s) /\ SpanOf(Tree, b, Tree[x].level, t)
                  /\ x = Root => /\ ~Splitting' /\ Root' \notin Known /\ Head(todo') = Save
                                 /\ SplitsRoot(Tree, Tree', Root, Root', l, r, a, b)
                  /\ x # Root => /\ Splitting' /\ Head(todo') = ins /\ Root' = Root
                                 /\ ~Doomed' => Splits(Tree, Tree', x, parent, l, r, a, b)
  BY <1>4
<1>6. ins.op = "insert_child" /\ ins.id = parent
  OBVIOUS
<1>7. ToSet(s) \cup ToSet(t) \subseteq ToSet(Tree[x].kids)
  <2>1. Tree[x].kids \in Seq(Known)
    BY <1>0, <1>1, <1>3, TreeSplitting DEF Splitting, Do, LiveInv, TreeInv, NodeIn
  <2> DEFINE w == Tree[x].kids
             K == Known
  <2>2. w \in Seq(K) /\ s \in Seq(K) /\ t \in Seq(K) /\ IsCut(w, s, t)
    BY <1>4, <2>1
  <2> HIDE DEF w, K, s, t
  <2>3. /\ ToSet(w) = {w[i] : i \in 1..Len(w)} /\ ToSet(s) = {s[i] : i \in 1..Len(s)}
        /\ ToSet(t) = {t[i] : i \in 1..Len(t)} /\ Len(w) \in Nat /\ Len(s) \in Nat /\ Len(t) \in Nat
    BY <2>2, ToSetFacts, SMTT(30)
  <2>4. /\ Len(w) = Len(s) + Len(t) /\ (\A j \in 1..Len(s) : s[j] = w[j])
        /\ \A j \in 1..Len(t) : t[j] = w[Len(s) + j]
    BY <2>2 DEF IsCut
  <2>5. \A j \in 1..Len(s) : j \in 1..Len(w)
    BY <2>3, <2>4
  <2>6. \A j \in 1..Len(t) : Len(s) + j \in 1..Len(w)
    BY <2>3, <2>4
  <2>7. ToSet(s) \subseteq ToSet(w)
    BY <2>3, <2>4, <2>5
  <2>8. ToSet(t) \subseteq ToSet(w)
    BY <2>3, <2>4, <2>6
  <2> QED
    BY <2>7, <2>8 DEF w
<1>8. a.buf = <<>> /\ b.buf = <<>> /\ a.kids = s /\ b.kids = t
  BY <1>5 DEF SpanOf
<1>9. Shape(Tree, Root) /\ StackOK /\ DOMAIN Tree \subseteq Known
  BY <1>1, <1>4 DEF TreeInv, LiveInv, CacheInv
<1>10. ParentsIn(Tree, X, x)
  BY <1>2, <1>3 DEF Drained
<1> HIDE DEF x, parent, l, r, ins, ops, s, t
<1> SUFFICES ASSUME ~Doomed' PROVE EmptyInv'
  BY DEF EmptyInv
<1> DEFINE Y == (X \ {x}) \cup IF x = Root THEN {l, r, Root'} ELSE {l, r}
<1>11. Drained(Tree', Y) /\ (x # Root => parent \in Y)
       /\ \A k \in Known : ParentsIn(Tree, X, k) => ParentsIn(Tree', Y, k)
  <2> DEFINE c == Tree
             d == Tree'
             K == Known
             v == Root
             u == Root'
  <2>1. /\ Shape(c, v) /\ DOMAIN c \subseteq K /\ Drained(c, X) /\ l \notin K /\ r \notin K
        /\ ToSet(a.kids) \cup ToSet(b.kids) \subseteq ToSet(c[x].kids)
        /\ ParentsIn(c, X, x) /\ a.buf = <<>> /\ b.buf = <<>> /\ x \in X
    BY <1>2, <1>3, <1>4, <1>7, <1>8, <1>9, <1>10
  <2>8. CutNode(c, v, K, X, x, l, r, a, b)
    BY <2>1 DEF CutNode
  <2>2. x = v => u \notin K /\ SplitsRoot(c, d, x, u, l, r, a, b)
    BY <1>5
  <2>3. x # v => Splits(c, d, x, parent, l, r, a, b)
    BY <1>5
  <2>6. x = v => Y = IF x \in X THEN (X \ {x}) \cup {l, r, u} ELSE X
    BY <1>3
  <2>7. x # v => Y = IF x \in X THEN (X \ {x}) \cup {l, r} ELSE X
    BY <1>3
  <2> HIDE DEF c, d, K, v, u, Y
  <2>4. CASE x = v
    <3>1. /\ CutNode(c, x, K, X, x, l, r, a, b) /\ SplitsRoot(c, d, x, u, l, r, a, b) /\ u \notin K
          /\ Y = IF x \in X THEN (X \ {x}) \cup {l, r, u} ELSE X
      BY <2>2, <2>4, <2>6, <2>8
    <3>2. Drained(d, Y) /\ \A k \in K : ParentsIn(c, X, k) => ParentsIn(d, Y, k)
      BY ONLY <3>1, SplitRootDrained
    <3> QED
      BY <2>4, <3>2 DEF c, d, K, v
  <2>5. CASE x # v
    <3>1. Drained(d, Y) /\ parent \in Y /\ \A k \in K : ParentsIn(c, X, k) => ParentsIn(d, Y, k)
      <4>1. /\ CutNode(c, v, K, X, x, l, r, a, b) /\ Splits(c, d, x, parent, l, r, a, b)
            /\ Y = IF x \in X THEN (X \ {x}) \cup {l, r} ELSE X
        BY <2>3, <2>5, <2>7, <2>8
      <4> QED
        BY ONLY <4>1, SplitDrained
    <3> QED
      BY <3>1 DEF c, d, K
  <2> QED
    BY <2>4, <2>5
<1> HIDE DEF Y
<1>12. ASSUME NEW y \in ToSet(ops) PROVE From(y, Tree', Y)
  <2>1. x = Root => y \in {Save, Gc}
    <3>1. ops = Commit => ToSet(ops) = {Save, Gc}
      BY DEF ToSet, Commit
    <3>2. x = Root => ops = Commit
      <4>1. Commit \in Seq({Save, Gc})
        BY DEF Commit
      <4> QED
        BY <4>1, ConcatEmptySeq DEF ops
    <3> QED
      BY <3>1, <3>2
  <2>2. y \in {ins, Save, Gc}
    BY <1>4
  <2> QED
    BY <1>6, <1>11, <2>1, <2>2 DEF From, Save, Gc
<1>13. ops # <<>> => FullFirst(Head(ops), cache_')
  <2> SUFFICES ASSUME ops # <<>> PROVE FullFirst(Head(ops), cache_')
    OBVIOUS
  <2>1. Head(ops) \in {ins, Save, Gc}
    BY <1>4, FirstIn
  <2> QED
    BY <1>6, <2>1 DEF FullFirst, Save, Gc
<1> QED
  BY <1>0, <1>2, <1>4, <1>9, <1>11, <1>12, <1>13, EmptyStep DEF LiveInv

-----------------------------------------------------------------------------
(* All steps *)

LEMMA WorkEmpty ==
  ASSUME QueueInv, FilesInv, LiveInv, TreeInv, EmptyInv, Client \/ Work
  PROVE  EmptyInv'
BY ClientEmpty, QuietWorkEmpty, CheckChildEmpty, PersistEmpty, InsertChildEmpty, DoFlushEmpty,
   SplitLeafEmpty, SplitParentEmpty DEF Work

LEMMA FirstEmpty ==
  ASSUME EnsureRoot
  PROVE  EmptyInv'
<1> DEFINE o == [op |-> "opened"]
<1>1. todo' = <<Save, o>> /\ Head(todo') = Save
  BY DEF EnsureRoot
<1>2. ToSet(<<Save, o>>) = {Save, o}
  BY DEF ToSet
<1>3. Save.op = "save" /\ o.op = "opened"
  BY DEF Save
<1> HIDE DEF o
<1>4. \A x \in ToSet(todo') : From(x, Tree', {})
  BY <1>1, <1>2, <1>3 DEF From
<1>5. Drained(Tree', {}) /\ FullFirst(Head(todo'), cache_')
  BY <1>1, <1>3 DEF Drained, FullFirst
<1> QED
  BY <1>4, <1>5 DEF EmptyInv, Emptied

LEMMA EmptyNext ==
  ASSUME QueueInv, FilesInv, ScanInv, ShapeInv, Alive => EmptyInv, [FaultNext]_vars
  PROVE  (Alive => EmptyInv)'
<1>1. CASE UNCHANGED vars
  <2>1. UNCHANGED <<cache_, todo>> /\ UNCHANGED <<session, status, threw>>
    BY <1>1 DEF vars, memory, life
  <2> QED
    BY <2>1, QuietEmpty DEF Alive
<1>2. CASE Client \/ Work
  <2>1. session' = session /\ threw' = threw /\ status # "down"
    BY <1>2, WorkGoesOn
  <2>2. Alive' => LiveInv /\ TreeInv /\ EmptyInv
    BY <2>1 DEF ScanInv, ShapeInv, Alive
  <2> QED
    BY <1>2, <2>2, WorkEmpty
<1>3. CASE Ending
  <2>1. ~Alive'
    BY <1>3, EndingEnds DEF Alive
  <2> QED
    BY <2>1
<1>4. CASE Open \/ EnsureRoot
  BY <1>4, FirstSession, FirstEmpty
<1> QED
  BY <1>1, <1>2, <1>3, <1>4, AllSteps

LEMMA EmptyInvariant == FaultSpec => [](ScanInv /\ ShapeInv /\ (Alive => EmptyInv))
<1>1. Init => (Alive => EmptyInv)
  BY DEF Init, Alive
<1>2. QueueInv /\ FilesInv /\ ScanInv /\ ShapeInv /\ (Alive => EmptyInv) /\ [FaultNext]_vars
        => (Alive => EmptyInv)'
  BY EmptyNext
<1> QED
  BY <1>1, <1>2, TreeInvariant, FilesInvariant, PTL DEF FaultSpec

\* Nothing can be caught between the halves of a split parent: in the session that
\* built the tree, until something is thrown, insert_child finds the buffer of the
\* node it works on empty, as its comment says (tree.cpp:523), for every fanout, buffer
\* size and sequence of writes.  So are the buffers of all nodes above it.
THEOREM ParentsAreEmpty ==
  FaultSpec => [](session = 1 /\ ~threw => InsertIntoEmptied)
<1>1. ScanInv /\ ShapeInv /\ (Alive => EmptyInv) /\ QueueInv
        => (session = 1 /\ ~threw => InsertIntoEmptied)
  <2> SUFFICES ASSUME ScanInv, ShapeInv, Alive => EmptyInv, QueueInv, session = 1, ~threw,
                      Do("insert_child"), Readable(Head(todo).id)
               PROVE  Node(Head(todo).id).buf = <<>>
    BY DEF InsertIntoEmptied
  <2>1. PICK x : x = Head(todo).id
    OBVIOUS
  <2>2. Alive /\ LiveInv /\ TreeInv
    <3>1. status = "down" => todo = <<>>
      BY DEF QueueInv
    <3> QED
      BY <3>1 DEF Do, Alive, ScanInv, ShapeInv
  <2>3. x \in DOMAIN cache_ /\ ~Doomed /\ todo # <<>> /\ Head(todo).op = "insert_child"
    BY <2>1, <2>2 DEF Readable, LiveInv, CacheInv, Doomed, Do
  <2>4. PICK X : Drained(Tree, X) /\ x \in X
    BY <2>1, <2>2, <2>3, FirstFrom DEF From
  <2>5. StackOK /\ Splitting /\ CacheInv /\ CallsInv
    BY <2>2, <2>3 DEF Splitting, Do, LiveInv, TreeInv
  <2>6. Tree[x].buf = cache_[x].buf
    BY <2>1, <2>3, <2>5, TreeSplitting
  <2> QED
    BY <2>1, <2>3, <2>4, <2>6 DEF Drained, Node
<1> QED
  BY <1>1, EmptyInvariant, FilesInvariant, PTL
=============================================================================
