----------------------------- MODULE DiskProofs -----------------------------
(***************************************************************************)
(* Proofs about the tree on disk: what the manifest file and the node      *)
(* files hold between any two writes to disk, from the first open of a     *)
(* directory until something is thrown, for any fanout, any buffer size    *)
(* and any sequence of writes.  The nodes that the manifest file names     *)
(* form a tree, and their files hold what every flush() covered that has   *)
(* returned, but for the moment between the rewrite of a node in place and *)
(* the save of the manifest that follows it.                               *)
(***************************************************************************)
EXTENDS ShapeProofs

-----------------------------------------------------------------------------
(* The tree on disk *)

\* The root and the nodes that the manifest file names, with their files.
SavedRoot == load(saved).root
SavedIds == ValidIds(load(saved))
SavedTree == [i \in SavedIds |-> files[i]]

\* The ids that the file of a node leads to.
FileKids(i) == IF i \in OnDisk THEN ToSet(files[i].kids) ELSE {}

FileLevels(f, ids, n) ==
  f = [i \in 0..n |-> IF i = 0 THEN ids ELSE f[i - 1] \cup UNION {FileKids(j) : j \in f[i - 1]}]

LEMMA FileLevelsExist ==
  ASSUME NEW ids, NEW n \in Nat
  PROVE  \E f : FileLevels(f, ids, n)
<1> DEFINE Add(s) == s \cup UNION {FileKids(j) : j \in s}
           T == {m \in Nat : \E f : FileLevels(f, ids, m)}
<1>1. 0 \in T
  <2> DEFINE f == [m \in 0..0 |-> ids]
  <2>1. \A m \in 0..0 : m = 0
    OBVIOUS
  <2> HIDE DEF Add
  <2>2. f = [m \in 0..0 |-> IF m = 0 THEN ids ELSE Add(f[m - 1])]
    BY <2>1
  <2>3. FileLevels(f, ids, 0)
    BY <2>2, Zenon DEF FileLevels, Add
  <2> QED
    BY <2>3
<1>2. ASSUME NEW m \in Nat, m \in T PROVE m + 1 \in T
  <2>1. PICK f : FileLevels(f, ids, m)
    BY <1>2
  <2>2. f = [p \in 0..m |-> IF p = 0 THEN ids ELSE Add(f[p - 1])]
    BY <2>1, Zenon DEF FileLevels
  <2> HIDE DEF Add
  <2> DEFINE g == [p \in 0..m + 1 |-> IF p = m + 1 THEN Add(f[m]) ELSE f[p]]
  <2>3. \A p \in 0..m : g[p] = f[p]
    OBVIOUS
  <2>4. ASSUME NEW p \in 0..m + 1
        PROVE  g[p] = IF p = 0 THEN ids ELSE Add(g[p - 1])
    <3>1. CASE p = m + 1
      <4>1. p # 0 /\ p - 1 = m /\ m \in 0..m
        BY <3>1
      <4>2. g[p - 1] = f[m]
        BY <2>3, <4>1
      <4> QED
        BY <3>1, <4>1, <4>2
    <3>2. CASE p \in 0..m /\ p # 0
      <4>1. p - 1 \in 0..m
        BY <3>2
      <4>2. g[p] = f[p] /\ g[p - 1] = f[p - 1]
        BY <2>3, <3>2, <4>1
      <4> HIDE DEF g
      <4> QED
        BY <2>2, <3>2, <4>2
    <3>3. CASE p = 0
      <4>1. 0 \in 0..m
        OBVIOUS
      <4>2. g[0] = f[0] /\ f[0] = ids
        BY <2>2, <2>3, <4>1
      <4> QED
        BY <3>3, <4>2
    <3> QED
      BY <3>1, <3>2, <3>3
  <2>5. g = [p \in 0..m + 1 |-> g[p]]
    OBVIOUS
  <2> HIDE DEF g
  <2>6. g = [p \in 0..m + 1 |-> IF p = 0 THEN ids ELSE Add(g[p - 1])]
    BY <2>4, <2>5
  <2>7. FileLevels(g, ids, m + 1)
    BY <2>6, Zenon DEF FileLevels, Add
  <2> QED
    BY <2>7
<1> HIDE DEF T
<1>3. Nat \subseteq T
  BY <1>1, <1>2, SetInduction
<1> QED
  BY <1>3 DEF T

LEMMA DurableLevels ==
  ASSUME NEW root, root = SavedRoot, root \in OnDisk, NEW n \in Nat, n = files[root].level
  PROVE  \E f : /\ DurableReach = f[n] /\ f[0] = {root}
                /\ \A i \in 0..n : i # 0 => f[i] = f[i - 1] \cup UNION {FileKids(j) : j \in f[i - 1]}
<1> DEFINE h == IF SavedRoot \in OnDisk THEN files[SavedRoot].level ELSE 0
           f == CHOOSE g : FileLevels(g, {SavedRoot}, h)
<1>1. DurableReach = f[h]
  BY Zenon DEF DurableReach, Closure, FileLevels, FileKids, SavedRoot
<1>2. h = n
  OBVIOUS
<1> HIDE DEF h
<1>3. FileLevels(f, {root}, n)
  BY <1>2, FileLevelsExist
<1> HIDE DEF f
<1>4. ASSUME NEW m \in 0..n
      PROVE  f[m] = IF m = 0 THEN {root} ELSE f[m - 1] \cup UNION {FileKids(j) : j \in f[m - 1]}
  <2> DEFINE g == [i \in 0..n |-> IF i = 0 THEN {root}
                                   ELSE f[i - 1] \cup UNION {FileKids(j) : j \in f[i - 1]}]
  <2>1. f = g
    BY <1>3, Zenon DEF FileLevels
  <2>2. g[m] = IF m = 0 THEN {root} ELSE f[m - 1] \cup UNION {FileKids(j) : j \in f[m - 1]}
    BY Zenon
  <2> HIDE DEF g
  <2> QED
    BY <2>1, <2>2
<1>5. 0 \in 0..n
  OBVIOUS
<1>6. f[0] = {root}
  BY <1>4, <1>5
<1> QED
  BY <1>1, <1>2, <1>4, <1>6

\* When the nodes on disk form a tree, a process that opens the directory finds them all.
LEMMA DurableReachIs ==
  ASSUME SavedFilesExist, Shape(SavedTree, SavedRoot)
  PROVE  DurableReach = SavedIds /\ OnDisk = SavedIds
<1> DEFINE c == SavedTree
           R == SavedRoot
           n == c[R].level
<1>1. OnDisk = SavedIds /\ DOMAIN c = SavedIds
  BY DEF SavedFilesExist, SavedIds, SavedTree, OnDisk
<1>2. /\ R \in DOMAIN c /\ n \in Nat
      /\ \A q \in DOMAIN c : /\ c[q].level \in Nat /\ c[q].level <= n
                             /\ q # R => \E p \in DOMAIN c : /\ q \in ToSet(c[p].kids)
                                                             /\ c[p].level = c[q].level + 1
  BY DEF Shape
<1>3. \A q \in DOMAIN c : FileKids(q) = ToSet(c[q].kids)
  BY <1>1 DEF FileKids, SavedTree
<1>4. \A q : FileKids(q) \subseteq DOMAIN c
  <2>1. \A q \in DOMAIN c : ToSet(c[q].kids) \subseteq DOMAIN c
    BY DEF Shape
  <2> QED
    BY <1>1, <1>3, <2>1 DEF FileKids
<1>5. n = files[R].level /\ R \in OnDisk
  BY <1>1, <1>2 DEF SavedTree
<1> HIDE DEF c, n
<1>6. PICK f : /\ DurableReach = f[n] /\ f[0] = {R}
               /\ \A i \in 0..n : i # 0 => f[i] = f[i - 1] \cup UNION {FileKids(j) : j \in f[i - 1]}
  BY <1>2, <1>5, DurableLevels
<1> HIDE DEF R
<1>7. ASSUME NEW i \in Nat, i + 1 <= n
      PROVE  f[i + 1] = f[i] \cup UNION {FileKids(j) : j \in f[i]}
  <2>1. i + 1 \in 0..n /\ i + 1 # 0 /\ (i + 1) - 1 = i
    BY <1>2, <1>7
  <2> QED
    BY <1>6, <2>1
<1> DEFINE T == {i \in Nat : i <= n => f[i] \subseteq DOMAIN c
                               /\ \A q \in DOMAIN c : c[q].level + i >= n => q \in f[i]}
<1>8. 0 \in T
  <2>1. ASSUME NEW q \in DOMAIN c, c[q].level + 0 >= n PROVE q \in f[0]
    <3>1. q # R => \E p \in DOMAIN c : c[p].level = c[q].level + 1 /\ c[p].level <= n
      BY <1>2
    <3>2. c[q].level \in Nat
      BY <1>2
    <3>3. q = R
      BY <1>2, <2>1, <3>1, <3>2
    <3> QED
      BY <1>6, <3>3
  <2> QED
    BY <1>2, <1>6, <2>1
<1>9. ASSUME NEW i \in Nat, i \in T PROVE i + 1 \in T
  <2> SUFFICES ASSUME i + 1 <= n
               PROVE  f[i + 1] \subseteq DOMAIN c
                      /\ \A q \in DOMAIN c : c[q].level + (i + 1) >= n => q \in f[i + 1]
    OBVIOUS
  <2>1. f[i] \subseteq DOMAIN c /\ \A p \in DOMAIN c : c[p].level + i >= n => p \in f[i]
    BY <1>2, <1>9
  <2>2. f[i + 1] = f[i] \cup UNION {FileKids(j) : j \in f[i]}
    BY <1>7
  <2>3. ASSUME NEW q \in DOMAIN c, c[q].level + (i + 1) >= n PROVE q \in f[i + 1]
    <3>1. CASE c[q].level + i >= n
      BY <2>1, <2>2, <3>1
    <3>2. CASE ~(c[q].level + i >= n)
      <4>1. q # R /\ c[q].level \in Nat
        BY <1>2, <3>2 DEF n
      <4>2. PICK p \in DOMAIN c : q \in ToSet(c[p].kids) /\ c[p].level = c[q].level + 1
        BY <1>2, <4>1
      <4>3. c[p].level + i >= n
        BY <1>2, <2>3, <4>1, <4>2
      <4>4. p \in f[i] /\ q \in FileKids(p)
        BY <1>3, <2>1, <4>2, <4>3
      <4> QED
        BY <2>2, <4>4
    <3> QED
      BY <3>1, <3>2
  <2> QED
    BY <1>4, <2>1, <2>2, <2>3
<1> HIDE DEF T
<1>10. n \in T
  BY <1>2, <1>8, <1>9, SetInduction
<1>11. ASSUME NEW q \in DOMAIN c PROVE q \in f[n]
  <2>1. c[q].level + n >= n
    BY <1>2
  <2> QED
    BY <1>2, <1>10, <2>1 DEF T
<1>12. f[n] \subseteq DOMAIN c
  BY <1>2, <1>10 DEF T
<1> QED
  BY <1>1, <1>6, <1>11, <1>12

-----------------------------------------------------------------------------
(* Nodes and their files *)

\* The entries any client could write at any time.
Dated ==
  {e \in [key : Keys, val : Nat, seq : Nat, del : BOOLEAN, sz : Sizes \cup {1}] : e.val = e.seq}

\* m and n name the same children, and neither has an entry newer than the other's.
Alike(m, n) ==
  /\ SameLinks(m, n)
  /\ Covers(ToSet(m.buf), ToSet(n.buf)) /\ Covers(ToSet(n.buf), ToSet(m.buf))

LEMMA DatedFacts == IsEntries(Dated) /\ Genuine \subseteq Dated
BY TreeAssumption DEF IsEntries, Dated, Genuine

LEMMA AlikeSelf ==
  ASSUME NEW E, IsEntries(E), NEW n, ToSet(n.buf) \subseteq E
  PROVE  Alike(n, n)
<1> DEFINE S == ToSet(n.buf)
<1>1. S \subseteq E /\ S \subseteq S
  OBVIOUS
<1> HIDE DEF S
<1>2. Covers(S, S)
  BY <1>1, CoversSelf
<1> QED
  BY <1>2 DEF Alike, SameLinks, S

LEMMA AlikeThrough ==
  ASSUME NEW m, NEW n, NEW o, Alike(m, n), Alike(n, o),
         NEW E, IsEntries(E), ToSet(m.buf) \subseteq E, ToSet(n.buf) \subseteq E, ToSet(o.buf) \subseteq E
  PROVE  Alike(m, o)
<1> DEFINE S == ToSet(m.buf)
           T == ToSet(n.buf)
           U == ToSet(o.buf)
<1>1. /\ S \subseteq E /\ T \subseteq E /\ U \subseteq E
      /\ Covers(S, T) /\ Covers(T, U) /\ Covers(U, T) /\ Covers(T, S)
  BY DEF Alike
<1>2. SameLinks(m, o)
  BY DEF Alike, SameLinks
<1> HIDE DEF S, T, U
<1>3. Covers(S, U) /\ Covers(U, S)
  BY <1>1, CoversThrough
<1> QED
  BY <1>2, <1>3 DEF Alike, S, U

LEMMA AlikeSwapped ==
  ASSUME NEW m, NEW n, Alike(m, n)
  PROVE  Alike(n, m)
BY DEF Alike, SameLinks

\* A node that keeps its links and whose buffer is a part of n's that covers it.
LEMMA AlikePart ==
  ASSUME NEW m, NEW n, NEW E, IsEntries(E), ToSet(n.buf) \subseteq E, ToSet(m.buf) \subseteq ToSet(n.buf),
         Covers(ToSet(m.buf), ToSet(n.buf)), SameLinks(m, n)
  PROVE  Alike(m, n)
<1> DEFINE S == ToSet(m.buf)
           T == ToSet(n.buf)
<1>1. T \subseteq E /\ S \subseteq T
  OBVIOUS
<1> HIDE DEF S, T
<1>2. Covers(T, S)
  BY <1>1, CoversSelf
<1> QED
  BY <1>2 DEF Alike, S, T

\* The buffer is the part of it that it holds.
LEMMA NodeInOwn ==
  ASSUME NEW K, NEW G, IsEntries(G), NEW n, NodeIn(n, K, G)
  PROVE  /\ NodeIn(n, K, ToSet(n.buf)) /\ IsEntries(ToSet(n.buf)) /\ ToSet(n.buf) \subseteq G
         /\ n.buf \in Seq(G)
<1>1. n.buf \in Seq(G)
  BY DEF NodeIn
<1>2. n.buf \in Seq(ToSet(n.buf)) /\ ToSet(n.buf) \subseteq G
  BY <1>1, ToSetFacts
<1>3. NodeIn(n, K, ToSet(n.buf))
  BY <1>2 DEF NodeIn
<1> QED
  BY <1>1, <1>2, <1>3 DEF IsEntries

\* Rewriting a node in place, and refreshing its range.
LEMMA FlushToDiskAlike ==
  ASSUME NEW K, NEW G, IsEntries(G), NEW n, NodeIn(n, K, G)
  PROVE  Alike(flush_to_disk(n), n)
<1> DEFINE m == flush_to_disk(n)
<1>1. SameLinks(m, n) /\ ToSet(m.buf) \subseteq ToSet(n.buf) /\ Covers(ToSet(m.buf), ToSet(n.buf))
  BY FlushToDiskLinks, FlushToDiskFacts DEF Inherits
<1>2. ToSet(n.buf) \subseteq G
  BY NodeInOwn
<1> HIDE DEF m
<1>3. Alike(m, n)
  BY <1>1, <1>2, AlikePart
<1> QED
  BY <1>3 DEF m

LEMMA RefreshedAlike ==
  ASSUME NEW K, NEW G, IsEntries(G), NEW n, NodeIn(n, K, G)
  PROVE  Alike(Refreshed(n), n)
<1> DEFINE m == Refreshed(n)
           H == ToSet(n.buf)
<1>1. SameLinks(m, n)
  BY RefreshedLinks
<1>2. NodeIn(n, K, H) /\ IsEntries(H) /\ H \subseteq G
  BY NodeInOwn
<1> HIDE DEF H, m
<1>3. NodeIn(m, K, H) /\ Covers(ToSet(m.buf), ToSet(n.buf))
  BY <1>2, RefreshedFacts DEF m
<1>4. ToSet(m.buf) \subseteq H
  BY <1>2, <1>3, NodeInOwn
<1>5. ToSet(n.buf) = H
  BY DEF H
<1>6. Alike(m, n)
  BY <1>1, <1>2, <1>3, <1>4, <1>5, AlikePart
<1> QED
  BY <1>6 DEF m

-----------------------------------------------------------------------------
(* The invariant *)

\* The entries in the files of the nodes that the manifest file names.
Written == UNION {ToSet(files[i].buf) : i \in SavedIds}

\* S has, for every key that f names a write of, that write or a newer one.
Met(f, S) == \A k \in Keys : f[k] = NoValue \/ \E e \in S : e.key = k /\ f[k] <= e.seq

\* The root has been given a batch that its file may not have yet.
Lagging ==
  \/ \A x \in ToSet(todo) : x.op \in {"done", "return", "closed"}
  \/ todo # <<>> /\ Head(todo).op \in {"do_flush", "split_leaf"} /\ Head(todo).id = Root

\* The manifest file names a tree, whole but for the moment between a rewrite in place
\* and the save that follows it.
SavedInv ==
  saved # {} => /\ SavedRoot \in SavedIds /\ SavedIds \subseteq Known
                /\ ~Saving => Shape(SavedTree, SavedRoot)

\* A node's file is as good as the node, unless it is about to be written.
SyncInv ==
  \A q \in DOMAIN cache_ :
    \/ Do("persist") /\ Head(todo).id = q
    \/ Alike(files[q], cache_[q])
    \/ q = Root /\ Lagging /\ SameLinks(files[q], cache_[q])

\* Files hold entries that were written.
DatedInv == \A i \in DOMAIN files : ToSet(files[i].buf) \subseteq Dated

\* A rewrite in place is followed by a save.
NextIsSave ==
  Do("persist") \/ Do("insert_child") => Tail(todo) # <<>> /\ Head(Tail(todo)).op = "save"

\* With no save pending, the manifest file has the nodes of the one in memory.
CleanInv ==
  (\A x \in ToSet(todo) : x.op # "save") => saved # {} /\ SavedIds = ValidIds(manifest_)

\* What a flush() covered that has returned is in memory and on disk.
FloorInv ==
  floor \in [Keys -> Nat] /\ Met(floor, Held) /\ (~Saving => Met(floor, Written))

\* What a flush() covers that is about to return is in memory and, once it only has
\* to return, on disk.
ReturnInv ==
  \A x \in ToSet(todo) : x.op = "return" =>
    /\ todo = <<x>> \/ todo = <<Save, x>> \/ todo = <<Persist(Root), Save, x>>
    /\ x.covers \in [Keys -> Nat] /\ Met(x.covers, Held)
    /\ todo = <<x>> => Met(x.covers, Written)

DiskInv ==
  /\ SavedInv /\ SyncInv /\ DatedInv /\ NextIsSave /\ CleanInv /\ FloorInv /\ ReturnInv

-----------------------------------------------------------------------------
(* Steps that keep what is on disk *)

LEMMA MetThrough ==
  ASSUME NEW f \in [Keys -> Nat], NEW S, NEW T, Met(f, S), Covers(T, S), S \subseteq Dated, T \subseteq Dated
  PROVE  Met(f, T)
<1> SUFFICES ASSUME NEW k \in Keys, f[k] # NoValue PROVE \E e \in T : e.key = k /\ f[k] <= e.seq
  BY DEF Met
<1>1. PICK g \in S : g.key = k /\ f[k] <= g.seq
  BY DEF Met
<1>2. PICK e \in T : e.key = g.key /\ g.seq <= e.seq
  BY DEF Covers
<1>3. f[k] \in Nat /\ g.seq \in Nat /\ e.seq \in Nat
  BY <1>1, <1>2, DatedFacts DEF IsEntries
<1>4. e.key = k /\ f[k] <= e.seq
  BY <1>1, <1>2, <1>3
<1> QED
  BY <1>4

LEMMA WrittenDated ==
  ASSUME SavedFilesExist, DatedInv
  PROVE  SavedIds \subseteq DOMAIN files /\ Written \subseteq Dated
BY DEF SavedFilesExist, SavedIds, Written, DatedInv

LEMMA HeldDated ==
  ASSUME LiveInv
  PROVE  Held \subseteq Dated
BY HeldFacts, DatedFacts DEF LiveInv

\* Files that are as good as before.
LEMMA FilesKept ==
  ASSUME SavedFilesExist, SavedFilesExist', DatedInv, DatedInv', saved' = saved,
         \A i \in SavedIds : Alike(files'[i], files[i])
  PROVE  /\ SavedIds' = SavedIds /\ SavedRoot' = SavedRoot
         /\ Shape(SavedTree, SavedRoot) => Shape(SavedTree', SavedRoot')
         /\ Covers(Written', Written)
<1>1. SavedIds' = SavedIds /\ SavedRoot' = SavedRoot
  BY DEF SavedIds, SavedRoot
<1>2. ASSUME Shape(SavedTree, SavedRoot) PROVE Shape(SavedTree', SavedRoot)
  <2> DEFINE c == SavedTree
             d == SavedTree'
             r == SavedRoot
  <2>1. Shape(c, r)
    BY <1>2
  <2>2. DOMAIN c = SavedIds /\ DOMAIN d = SavedIds
    BY <1>1 DEF SavedTree
  <2>3. \A q \in SavedIds : c[q] = files[q] /\ d[q] = files'[q]
    BY <1>1 DEF SavedTree
  <2>4. \A q \in DOMAIN c : SameLinks(d[q], c[q])
    BY <2>2, <2>3 DEF Alike
  <2> HIDE DEF c, d, r
  <2>5. Shape(d, r)
    BY <2>1, <2>2, <2>4, ShapeSame
  <2> QED
    BY <2>5 DEF d, r
<1>3. ASSUME NEW g \in Written PROVE \E e \in Written' : e.key = g.key /\ g.seq <= e.seq
  <2>1. PICK i \in SavedIds : g \in ToSet(files[i].buf)
    BY DEF Written
  <2>2. Covers(ToSet(files'[i].buf), ToSet(files[i].buf))
    BY DEF Alike
  <2>3. PICK e \in ToSet(files'[i].buf) : e.key = g.key /\ g.seq <= e.seq
    BY <2>1, <2>2 DEF Covers
  <2>4. e \in Written'
    BY <1>1, <2>3 DEF Written
  <2> QED
    BY <2>3, <2>4
<1> QED
  BY <1>1, <1>2, <1>3 DEF Covers

\* A step that leaves the manifest file alone and every file that it names as good
\* as it was.
LEMMA DiskKept ==
  ASSUME SavedFilesExist, SavedFilesExist', LiveInv, LiveInv', DatedInv, DatedInv',
         SavedInv, FloorInv, ~Saving, UNCHANGED <<saved, floor>>, Known \subseteq Known',
         Covers(Held', Held), \A i \in SavedIds : Alike(files'[i], files[i])
  PROVE  SavedInv' /\ FloorInv'
<1>1. /\ SavedIds' = SavedIds /\ SavedRoot' = SavedRoot /\ Covers(Written', Written)
      /\ Shape(SavedTree, SavedRoot) => Shape(SavedTree', SavedRoot')
  BY FilesKept
<1>2. SavedInv'
  BY <1>1 DEF SavedInv
<1>3. floor \in [Keys -> Nat] /\ Met(floor, Held) /\ Met(floor, Written)
  BY DEF FloorInv
<1> DEFINE S == Held'
           T == Written'
<1>4. S \subseteq Dated
  <2>1. WritesInv' /\ CacheInv'
    BY DEF LiveInv
  <2>2. \A i \in DOMAIN cache_' : ToSet(cache_'[i].buf) \subseteq Genuine'
    <3> DEFINE c == cache_'
               K == Known'
               G == Genuine'
    <3>1. \A i \in DOMAIN c : NodeIn(c[i], K, G)
      BY <2>1 DEF CacheInv
    <3> HIDE DEF c, K, G
    <3>2. \A i \in DOMAIN c : c[i].buf \in Seq(G)
      BY <3>1 DEF NodeIn
    <3>3. \A i \in DOMAIN c : ToSet(c[i].buf) \subseteq G
      BY <3>2, ToSetFacts
    <3> QED
      BY <3>3 DEF c, G
  <2>3. Genuine' \subseteq Dated
    BY TreeAssumption DEF Genuine, Dated
  <2> QED
    BY <2>2, <2>3 DEF Held
<1>5. T \subseteq Dated
  BY <1>1 DEF SavedFilesExist, SavedIds, Written, DatedInv
<1>6. Held \subseteq Dated /\ Written \subseteq Dated
  BY HeldDated, WrittenDated
<1>7. Covers(S, Held) /\ Covers(T, Written)
  BY <1>1
<1> HIDE DEF S, T
<1>8. Met(floor, S) /\ Met(floor, T)
  BY <1>3, <1>4, <1>5, <1>6, <1>7, MetThrough
<1>9. Met(floor, Held)' /\ Met(floor, Written)'
  BY <1>8 DEF S, T, Met
<1> QED
  BY <1>2, <1>3, <1>9 DEF FloorInv

-----------------------------------------------------------------------------
(* What the steps that change the tree write *)

\* The child number i of p gets a new file from do_flush.
Rewrites(p, i) == i \in HitBy(p) \/ MadeKids(p)[i].kids # <<>>

LEMMA FlushFiles ==
  ASSUME FilesInv, CacheInv, NEW p \in DOMAIN cache_, cache_[p].kids # <<>>,
         IsInjective(cache_[p].kids), UnreadKids(p) = {},
         FlushChildren(p, Len(cache_[p].kids) + 1),
         NEW new, new = NewKids(p), NEW n, n = Len(cache_[p].kids)
  PROVE  /\ \A i \in 1..n :
              IF Rewrites(p, i)
              THEN new[i] \in DOMAIN files' /\ files'[new[i]] = Refreshed(MadeKids(p)[i])
              ELSE /\ Refreshed(MadeKids(p)[i]) = MadeKids(p)[i]
                   /\ new[i] \in DOMAIN files => files'[new[i]] = files[new[i]]
         /\ \A id \in DOMAIN files : (\A i \in 1..n : new[i] # id) => files'[id] = files[id]
         /\ \A id \in DOMAIN files' : \/ id \in DOMAIN files
                                      \/ \E i \in 1..n : id = new[i] /\ Rewrites(p, i)
         /\ DOMAIN files \subseteq DOMAIN files'
<1> DEFINE parent == cache_[p]
           old    == parent.kids
           stop   == Len(old) + 1
           hit    == HitBy(p)
           made   == MadeKids(p)
           done   == {i \in DOMAIN old : i < stop}
           kid    == [i \in done |-> Refreshed(made[i])]
           nk     == NewKids(p)
           Pos(id) == CHOOSE i \in DOMAIN nk : nk[i] = id
           Made(id) == IF Pos(id) \in done THEN kid[Pos(id)] ELSE made[Pos(id)]
           written == {nk[i] : i \in hit \cup {j \in done : made[j].kids # <<>>}}
<1>1. files' = [id \in DOMAIN files \cup written |->
                      IF id \in written THEN Made(id) ELSE files[id]]
  BY Zenon DEF FlushChildren
<1>2. /\ n \in Nat \ {0} /\ DOMAIN old = 1..n /\ hit \subseteq 1..n /\ stop = n + 1
  BY MadeKidsFacts
<1>3. DOMAIN new = 1..n /\ \A i, j \in 1..n : new[i] = new[j] => i = j
  <2>1. DOMAIN new = 1..n /\ IsInjective(new)
    BY FlushEffect
  <2> QED
    BY <2>1 DEF IsInjective
<1>4. done = 1..n
  BY <1>2
<1>5. new = nk
  OBVIOUS
<1> HIDE DEF hit, made, done, nk, stop, old
<1>6. \A i \in 1..n : Pos(new[i]) = i
  BY <1>3, <1>5
<1>7. \A i \in 1..n : Made(new[i]) = Refreshed(made[i])
  BY <1>4, <1>6
<1>8. written = {new[i] : i \in {j \in 1..n : Rewrites(p, j)}}
  <2>1. hit \cup {j \in done : made[j].kids # <<>>} = {j \in 1..n : Rewrites(p, j)}
    BY <1>2, <1>4 DEF Rewrites, hit, made
  <2> QED
    BY <1>5, <2>1
<1> HIDE DEF Made, written, kid
<1>9. DOMAIN files' = DOMAIN files \cup written
  BY <1>1
<1>10. \A id \in DOMAIN files' : files'[id] = IF id \in written THEN Made(id) ELSE files[id]
  BY <1>1
<1>11. \A i \in 1..n : new[i] \in written <=> Rewrites(p, i)
  BY <1>3, <1>8
<1>12. ASSUME NEW i \in 1..n
       PROVE  IF Rewrites(p, i)
              THEN new[i] \in DOMAIN files' /\ files'[new[i]] = Refreshed(made[i])
              ELSE /\ Refreshed(made[i]) = made[i]
                   /\ new[i] \in DOMAIN files => files'[new[i]] = files[new[i]]
  <2>1. CASE Rewrites(p, i)
    BY <1>7, <1>9, <1>10, <1>11, <2>1
  <2>2. CASE ~Rewrites(p, i)
    <3>1. made[i].kids = <<>>
      BY <2>2 DEF Rewrites, made
    <3>2. Refreshed(made[i]) = made[i]
      BY <3>1 DEF Refreshed
    <3> QED
      BY <1>9, <1>10, <1>11, <2>2, <3>2
  <2> QED
    BY <2>1, <2>2
<1>13. ASSUME NEW id \in DOMAIN files, \A i \in 1..n : new[i] # id PROVE files'[id] = files[id]
  <2>1. id \notin written
    BY <1>8, <1>13
  <2> QED
    BY <1>9, <1>10, <2>1
<1>14. \A id \in DOMAIN files' : \/ id \in DOMAIN files
                                 \/ \E i \in 1..n : id = new[i] /\ Rewrites(p, i)
  BY <1>8, <1>9
<1> QED
  BY <1>9, <1>12, <1>13, <1>14 DEF made

\* The ids that Replace gives out.
Fresh(isRoot) ==
  LET l == manifest_.next IN IF isRoot THEN {l, l + 1, l + 2} ELSE {l, l + 1}

LEMMA ReplaceFiles ==
  ASSUME CacheInv, NEW gone \in DOMAIN cache_, NEW a, NEW b, NEW isRoot \in BOOLEAN, NEW loaded,
         Replace(gone, a, b, isRoot, loaded)
  PROVE  /\ Fresh(isRoot) \cap Known = {} /\ DOMAIN files' = DOMAIN files \cup Fresh(isRoot)
         /\ \A q \in Fresh(isRoot) : q \in DOMAIN cache_' /\ files'[q] = cache_'[q]
         /\ \A q \in DOMAIN files \ Fresh(isRoot) : files'[q] = files[q]
<1> DEFINE l == manifest_.next
           made == Fresh(isRoot)
           top == Spanning(create(a.level + 1, <<>>, <<l, l + 1>>), a, b)
           New(id) == IF id = l THEN a ELSE IF id = l + 1 THEN b ELSE top
           D == (DOMAIN cache_ \cup made \cup loaded) \ {gone}
<1>1. /\ cache_' = [id \in D |-> IF id \in made THEN New(id) ELSE Node(id)]
      /\ files' = [id \in DOMAIN files \cup made |-> IF id \in made THEN New(id) ELSE files[id]]
  BY Zenon DEF Replace, Fresh
<1>2. l \in Nat /\ DOMAIN cache_ \subseteq Known
  BY DEF CacheInv
<1>3. made \cap Known = {}
  BY <1>2 DEF Known, Fresh
<1>4. made \subseteq D
  BY <1>2, <1>3
<1> HIDE DEF New, D
<1>5. /\ DOMAIN cache_' = D /\ \A q \in D : cache_'[q] = IF q \in made THEN New(q) ELSE Node(q)
  BY <1>1
<1>6. /\ DOMAIN files' = DOMAIN files \cup made
      /\ \A q \in DOMAIN files \cup made : files'[q] = IF q \in made THEN New(q) ELSE files[q]
  BY <1>1
<1> QED
  BY <1>3, <1>4, <1>5, <1>6

-----------------------------------------------------------------------------
(* The pending calls *)

LEMMA HeadIs ==
  ASSUME NEW E, NEW w \in Seq(E), Len(w) >= 1
  PROVE  w # <<>> /\ Head(w) = w[1]
OBVIOUS

\* What is first in two sequences, one after the other.
LEMMA FirstTwo ==
  ASSUME NEW S, NEW u \in Seq(S), NEW t \in Seq(S), Len(u) >= 2, NEW v, v = u \o t
  PROVE  v # <<>> /\ Head(v) = u[1] /\ Tail(v) # <<>> /\ Head(Tail(v)) = u[2]
<1>1. v \in Seq(S) /\ Len(v) = Len(u) + Len(t) /\ Len(u) \in Nat /\ Len(t) \in Nat
      /\ \A i \in 1..Len(u) : v[i] = u[i]
  OBVIOUS
<1>2. Len(v) >= 2 /\ v[1] = u[1] /\ v[2] = u[2]
  BY <1>1

<1>3. v # <<>> /\ Head(v) = v[1]
  BY <1>1, <1>2
<1>4. Tail(v) \in Seq(S) /\ Len(Tail(v)) = Len(v) - 1 /\ Tail(v)[1] = v[2]
  BY <1>1, <1>2
<1>5. Tail(v) # <<>> /\ Head(Tail(v)) = Tail(v)[1]
  <2>1. Tail(v) \in Seq(S) /\ Len(Tail(v)) >= 1
    BY <1>1, <1>2, <1>4
  <2> QED
    BY ONLY <2>1, HeadIs
<1> QED
  BY <1>2, <1>3, <1>4, <1>5

\* No flush() is waiting for a call that is none of its own.
LEMMA NoReturn ==
  ASSUME QueueInv, ReturnInv, todo # <<>>, Head(todo).op \notin {"return", "save", "persist"}
  PROVE  \A x \in ToSet(todo) : x.op # "return"
<1> SUFFICES ASSUME NEW x \in ToSet(todo), x.op = "return" PROVE FALSE
  OBVIOUS
<1>1. todo = <<x>> \/ todo = <<Save, x>> \/ todo = <<Persist(Root), Save, x>>
  BY DEF ReturnInv
<1>2. Save.op = "save" /\ Persist(Root).op = "persist"
  BY DEF Save, Persist
<1>3. Head(<<x>>) = x /\ Head(<<Save, x>>) = Save /\ Head(<<Persist(Root), Save, x>>) = Persist(Root)
  OBVIOUS
<1> QED
  BY <1>1, <1>2, <1>3

\* The calls before a call and after it.
LEMMA CallSets ==
  ASSUME QueueInv, todo # <<>>, NEW ops, IsSeq(ops), Call(ops)
  PROVE  /\ ToSet(todo') = ToSet(ops) \cup ToSet(Tail(todo))
         /\ ToSet(todo) = {Head(todo)} \cup ToSet(Tail(todo))
<1> DEFINE t == Tail(todo)
           E == ToSet(todo)
           S == ToSet(ops) \cup E
<1>1. t \in Seq(E) /\ todo \in Seq(E)
  BY DEF QueueInv, IsSeq
<1>2. todo' = ops \o t /\ ops \in Seq(S) /\ t \in Seq(S)
  BY <1>1 DEF IsSeq, Call
<1>3. ToSet(todo) = {todo[i] : i \in 1..Len(todo)} /\ ToSet(t) = {t[i] : i \in 1..Len(t)}
  BY <1>1, ToSetFacts
<1>4. /\ Len(todo) \in Nat /\ Len(todo) > 0 /\ Len(t) = Len(todo) - 1 /\ Head(todo) = todo[1]
      /\ \A i \in 1..Len(t) : t[i] = todo[i + 1]
  BY <1>1
<1> HIDE DEF S, E, t
<1>5. ToSet(ops \o t) = ToSet(ops) \cup ToSet(t)
  BY <1>2, ToSetConcat
<1>6. ASSUME NEW i \in 1..Len(todo) PROVE todo[i] = Head(todo) \/ todo[i] \in ToSet(t)
  <2>1. CASE i = 1
    BY <1>4, <2>1
  <2>2. CASE i # 1
    <3>1. i - 1 \in 1..Len(t) /\ (i - 1) + 1 = i
      BY <1>4, <2>2
    <3>2. t[i - 1] = todo[i]
      BY <1>4, <3>1
    <3> QED
      BY <1>3, <3>1, <3>2
  <2> QED
    BY <2>1, <2>2
<1>7. \A i \in 1..Len(t) : t[i] \in ToSet(todo)
  <2> TAKE i \in 1..Len(t)
  <2>1. i + 1 \in 1..Len(todo)
    BY <1>4
  <2> QED
    BY <1>3, <1>4, <2>1
<1>8. 1 \in 1..Len(todo) /\ Head(todo) \in ToSet(todo)
  BY <1>3, <1>4
<1> QED
  BY <1>2, <1>3, <1>5, <1>6, <1>7, <1>8 DEF t

\* A pending call other than the first is passive, and no persist or insert_child.
LEMMA HeadOnly ==
  ASSUME QueueInv, CallsInv, NEW ops, IsSeq(ops), Call(ops), todo # <<>>,
         ops = <<>> \/ Head(ops).op \notin {"persist", "insert_child"}
  PROVE  NextIsSave' /\ ~Do("persist")' /\ ~Do("insert_child")'
<1>1. ~Do("persist")' /\ ~Do("insert_child")'
  BY NextCall DEF Do
<1> QED
  BY <1>1 DEF NextIsSave

-----------------------------------------------------------------------------
(* Steps *)

LEMMA GenuineDated == Genuine \subseteq Dated /\ Genuine' \subseteq Dated
BY TreeAssumption DEF Genuine, Dated

LEMMA CachedDated ==
  ASSUME CacheInv
  PROVE  \A q \in DOMAIN cache_ : ToSet(cache_[q].buf) \subseteq Dated
<1>1. \A q \in DOMAIN cache_ : NodeIn(cache_[q], Known, Genuine)
  BY DEF CacheInv
<1> QED
  BY <1>1, NodeInOwn, GenuineEntries, GenuineDated

LEMMA CachedDatedNext ==
  ASSUME CacheInv'
  PROVE  \A q \in DOMAIN cache_' : ToSet(cache_'[q].buf) \subseteq Dated
<1> DEFINE c == cache_'
           K == Known'
           G == Genuine'
<1>1. \A q \in DOMAIN c : NodeIn(c[q], K, G)
  BY DEF CacheInv
<1>2. IsEntries(G) /\ G \subseteq Dated
  BY GenuineDated, DatedFacts DEF IsEntries
<1> HIDE DEF c, K, G
<1>3. \A q \in DOMAIN c : ToSet(c[q].buf) \subseteq G
  BY <1>1, <1>2, NodeInOwn
<1> QED
  BY <1>2, <1>3 DEF c

\* A call that does not write, and no flush() is under way.
LEMMA CallReturn ==
  ASSUME QueueInv, ReturnInv, todo # <<>>, Head(todo).op \notin {"return", "save", "persist"},
         NEW ops, IsSeq(ops), Call(ops), \A x \in ToSet(ops) : x.op # "return"
  PROVE  ReturnInv'
<1>1. \A x \in ToSet(todo) : x.op # "return"
  BY NoReturn
<1>2. ToSet(todo') \subseteq ToSet(ops) \cup ToSet(todo)
  BY CallSets
<1>3. \A x \in ToSet(todo') : x.op # "return"
  BY <1>1, <1>2
<1> QED
  BY <1>3 DEF ReturnInv

\* A step that changes nothing but clients' data.
LEMMA QuietDisk ==
  ASSUME DiskInv, UNCHANGED <<cache_, manifest_, files, saved, floor, todo>>
  PROVE  DiskInv'
<1>1. UNCHANGED <<SavedIds, SavedRoot, Root, Known, Held, Saving>>
  BY DEF SavedIds, SavedRoot, Root, Known, Held, Saving
<1>2. UNCHANGED <<Written, SavedTree>>
  BY <1>1 DEF Written, SavedTree
<1>3. UNCHANGED Lagging
  BY <1>1 DEF Lagging
<1>4. SavedInv'
  BY <1>1, <1>2 DEF DiskInv, SavedInv
<1>5. SyncInv'
  BY <1>1, <1>3 DEF DiskInv, SyncInv, Do
<1>6. DatedInv' /\ NextIsSave' /\ CleanInv'
  BY <1>1 DEF DiskInv, DatedInv, NextIsSave, CleanInv, Do
<1>7. FloorInv'
  BY <1>1, <1>2 DEF DiskInv, FloorInv
<1>8. ReturnInv'
  BY <1>1, <1>2 DEF DiskInv, ReturnInv
<1> QED
  BY <1>4, <1>5, <1>6, <1>7, <1>8 DEF DiskInv

\* Files that stay as they are.
LEMMA SavedSelf ==
  ASSUME SavedFilesExist, DatedInv
  PROVE  \A i \in SavedIds : Alike(files[i], files[i])
<1>1. \A i \in SavedIds : ToSet(files[i].buf) \subseteq Dated
  BY WrittenDated DEF DatedInv
<1> QED
  BY <1>1, AlikeSelf, DatedFacts

LEMMA NotLagging ==
  ASSUME QueueInv, todo # <<>>, Head(todo).op \notin {"done", "return", "closed", "do_flush", "split_leaf"}
  PROVE  ~Lagging
BY FirstIn DEF Lagging, QueueInv

\* A call that changes neither memory nor disk.
LEMMA QuietCall ==
  ASSUME QueueInv, LiveInv, LiveInv', SavedFilesExist, SavedFilesExist', DiskInv,
         UNCHANGED <<cache_, manifest_, files, saved, floor>>,
         todo # <<>>, Head(todo).op \in {"done", "opened", "check", "gc"},
         NEW ops, IsSeq(ops), Call(ops),
         \A x \in ToSet(ops) : x.op \in {"check", "do_flush", "split_leaf"},
         Head(todo).op = "done" => ops = <<>>
  PROVE  DiskInv'
<1>1. UNCHANGED <<Root, Known, Held, SavedIds>> /\ ~Saving
  BY DEF Root, Known, Held, SavedIds, Saving
<1>2. ToSet(todo') = ToSet(ops) \cup ToSet(Tail(todo))
      /\ ToSet(todo) = {Head(todo)} \cup ToSet(Tail(todo))
  BY CallSets
<1>3. DatedInv'
  BY DEF DiskInv, DatedInv
<1>4. SavedInv' /\ FloorInv'
  <2>1. \A i \in SavedIds : Alike(files'[i], files[i])
    BY SavedSelf DEF DiskInv
  <2>2. Covers(Held', Held)
    <3>1. Held \subseteq Dated
      BY HeldDated
    <3> QED
      BY <1>1, <3>1, CoversSelf, DatedFacts
  <2> QED
    BY <1>1, <1>3, <2>1, <2>2, DiskKept DEF DiskInv
<1>5. ops # <<>> => Head(ops) \in ToSet(ops)
  BY FirstIn
<1>6. NextIsSave'
  BY <1>5, HeadOnly DEF LiveInv
<1>7. SyncInv'
  <2> SUFFICES ASSUME NEW q \in DOMAIN cache_
               PROVE  \/ Alike(files[q], cache_[q])
                      \/ q = Root /\ Lagging' /\ SameLinks(files[q], cache_[q])
    BY <1>1 DEF SyncInv
  <2>1. \/ Alike(files[q], cache_[q])
        \/ q = Root /\ Lagging /\ SameLinks(files[q], cache_[q])
    BY DEF DiskInv, SyncInv, Do
  <2>2. ASSUME Lagging PROVE Lagging'
    <3>1. Head(todo).op = "done" /\ ops = <<>>
      BY <2>2, NotLagging
    <3>2. ToSet(todo') \subseteq ToSet(todo)
      BY <1>2, <3>1, FirstIn DEF ToSet
    <3>3. \A x \in ToSet(todo) : x.op \in {"done", "return", "closed"}
      BY <2>2, <3>1 DEF Lagging
    <3> QED
      BY <3>2, <3>3 DEF Lagging
  <2> QED
    BY <2>1, <2>2
<1>8. CleanInv'
  <2>1. (\A x \in ToSet(todo') : x.op # "save") => \A x \in ToSet(todo) : x.op # "save"
    BY <1>2
  <2> QED
    BY <1>1, <2>1 DEF DiskInv, CleanInv
<1>9. ReturnInv'
  BY CallReturn DEF DiskInv
<1> QED
  BY <1>3, <1>4, <1>6, <1>7, <1>8, <1>9 DEF DiskInv

\* A change of the tree: what it writes has the ids of no node on disk, or is as good as
\* what was there; a save follows.
LEMMA ChangeDisk ==
  ASSUME QueueInv, LiveInv, LiveInv', SavedFilesExist, SavedFilesExist', DiskInv,
         UNCHANGED <<saved, floor>>, Known \subseteq Known', Covers(Held', Held),
         todo # <<>>, Head(todo).op \in {"do_flush", "split_leaf", "insert_child"},
         NEW ops, IsSeq(ops), Call(ops), \A x \in ToSet(ops) : x.op # "return",
         Save \in ToSet(todo'), NextIsSave',
         \A i \in SavedIds : Alike(files'[i], files[i]),
         \A i \in DOMAIN files' : \/ i \in DOMAIN files /\ files'[i] = files[i]
                                  \/ i \in DOMAIN cache_' /\ files'[i] = cache_'[i],
         \A q \in DOMAIN cache_' : \/ Do("persist")' /\ Head(todo').id = q
                                   \/ Alike(files'[q], cache_'[q])
  PROVE  DiskInv'
<1>1. ~Saving
  BY DEF Saving
<1>2. DatedInv'
  <2>1. \A q \in DOMAIN cache_' : ToSet(cache_'[q].buf) \subseteq Dated
    BY CachedDatedNext DEF LiveInv
  <2>2. \A i \in DOMAIN files : ToSet(files[i].buf) \subseteq Dated
    BY DEF DiskInv, DatedInv
  <2>3. \A i \in DOMAIN files' : ToSet(files'[i].buf) \subseteq Dated
    BY <2>1, <2>2
  <2> QED
    BY <2>3 DEF DatedInv
<1>3. SavedInv' /\ FloorInv'
  BY <1>1, <1>2, DiskKept DEF DiskInv
<1>4. SyncInv'
  BY DEF SyncInv
<1>5. CleanInv'
  BY DEF CleanInv, Save
<1>6. ReturnInv'
  BY CallReturn DEF DiskInv
<1> QED
  BY <1>2, <1>3, <1>4, <1>5, <1>6 DEF DiskInv

LEMMA NothingCalled == IsSeq(<<>>) /\ ToSet(<<>>) = {}
<1>1. \A E : <<>> \in Seq(E) /\ Len(<<>>) = 0
  OBVIOUS
<1> QED
  BY <1>1, ToSetFacts DEF IsSeq

LEMMA OneCalled ==
  ASSUME NEW x
  PROVE  IsSeq(<<x>>) /\ ToSet(<<x>>) = {x} /\ Tail(<<x>>) = <<>> /\ Head(<<x>>) = x
<1>1. <<x>> \in Seq({x}) /\ Len(<<x>>) = 1 /\ <<x>>[1] = x /\ Tail(<<x>>) = <<>> /\ Head(<<x>>) = x
  OBVIOUS
<1>2. ToSet(<<x>>) = {<<x>>[i] : i \in 1..Len(<<x>>)} /\ <<x>> \in Seq(ToSet(<<x>>))
  BY <1>1, ToSetFacts
<1> QED
  BY <1>1, <1>2 DEF IsSeq

LEMMA QuietWorkDisk ==
  ASSUME QueueInv, FilesInv, LiveInv, TreeInv, DiskInv, FilesInv', LiveInv',
         Done \/ Opened \/ CheckChild
  PROVE  DiskInv'
<1>1. SavedFilesExist /\ SavedFilesExist'
  BY DEF FilesInv
<1>2. CASE Done
  <2>1. /\ todo # <<>> /\ Head(todo).op = "done" /\ Call(<<>>)
        /\ UNCHANGED <<cache_, manifest_, files, saved, floor>>
    BY <1>2 DEF Done, Do, memory, disk, history
  <2> QED
    BY <1>1, <2>1, NothingCalled, QuietCall
<1>3. CASE Opened
  <2>1. /\ todo # <<>> /\ Head(todo).op = "opened" /\ Call(<<>>)
        /\ UNCHANGED <<cache_, manifest_, files, saved, floor>>
    BY <1>3 DEF Opened, Do, memory, disk, history
  <2> QED
    BY <1>1, <2>1, NothingCalled, QuietCall
<1>4. CASE CheckChild
  <2>1. /\ todo # <<>> /\ Head(todo).op = "check"
        /\ UNCHANGED <<cache_, manifest_, files, saved, floor>>
    BY <1>4 DEF CheckChild, Do, memory, disk, history
  <2>2. StackOK
    BY <2>1 DEF TreeInv, Doomed, Splitting, Do
  <2>3. PICK ops : /\ IsSeq(ops) /\ Call(ops)
                   /\ \A x \in ToSet(ops) : x.op \in {"check", "do_flush", "split_leaf"}
    <3>1. \E ops : /\ IsSeq(ops) /\ Call(ops)
                  /\ \A x \in ToSet(ops) :
                       \/ x.op = "check" /\ ToSet(x.kids) \subseteq ToSet(Head(todo).kids)
                       \/ /\ x.op \in {"do_flush", "split_leaf"} /\ x.id \in ToSet(Head(todo).kids)
                          /\ x.id \in DOMAIN cache_ /\ buffer_full(cache_[x.id].buf)
      BY <1>4, <2>2, CheckCalls
    <3> QED
      BY <3>1
  <2> QED
    BY <1>1, <2>1, <2>3, QuietCall
<1> QED
  BY <1>2, <1>3, <1>4

LEMMA ReturnDisk ==
  ASSUME QueueInv, FilesInv, LiveInv, TreeInv, DiskInv, Return
  PROVE  DiskInv'
<1> DEFINE x == Head(todo)
<1>1. /\ todo # <<>> /\ x.op = "return" /\ Call(<<>>) /\ floor' = x.covers
      /\ UNCHANGED <<cache_, manifest_, files, saved>>
  BY DEF Return, Do, memory, disk
<1>2. x \in ToSet(todo)
  BY <1>1, FirstIn DEF QueueInv
<1>3. /\ todo = <<x>> \/ todo = <<Save, x>> \/ todo = <<Persist(Root), Save, x>>
      /\ x.covers \in [Keys -> Nat] /\ Met(x.covers, Held)
      /\ todo = <<x>> => Met(x.covers, Written)
  BY <1>1, <1>2 DEF DiskInv, ReturnInv
<1>4. todo = <<x>>
  <2>1. Head(<<Save, x>>) = Save /\ Head(<<Persist(Root), Save, x>>) = Persist(Root)
    OBVIOUS
  <2>2. Save.op = "save" /\ Persist(Root).op = "persist"
    BY DEF Save, Persist
  <2> QED
    BY <1>1, <1>3, <2>1, <2>2
<1>5. todo' = <<>> /\ ToSet(todo') = {}
  <2>1. todo' = Tail(todo) \/ todo' = <<>> \o Tail(todo)
    BY <1>1 DEF Call
  <2>2. Tail(<<x>>) = <<>> /\ <<>> \o <<>> = <<>>
    OBVIOUS
  <2> QED
    BY <1>4, <2>1, <2>2, NothingCalled
<1>6. UNCHANGED <<Root, Known, Held, SavedIds, SavedRoot>> /\ ~Saving
  BY <1>1 DEF Root, Known, Held, SavedIds, SavedRoot, Saving
<1>7. UNCHANGED <<Written, SavedTree>>
  BY <1>1, <1>6 DEF Written, SavedTree
<1>8. SavedInv'
  BY <1>1, <1>6, <1>7 DEF DiskInv, SavedInv
<1>9. SyncInv'
  <2>1. Lagging'
    BY <1>5 DEF Lagging
  <2>2. \A q \in DOMAIN cache_ : \/ Alike(files[q], cache_[q])
                                 \/ q = Root /\ SameLinks(files[q], cache_[q])
    BY <1>1 DEF DiskInv, SyncInv, Do
  <2> QED
    BY <1>1, <1>6, <2>1, <2>2 DEF SyncInv
<1>10. DatedInv' /\ NextIsSave' /\ ReturnInv'
  BY <1>1, <1>5 DEF DiskInv, DatedInv, NextIsSave, ReturnInv, Do
<1>11. CleanInv'
  <2>1. ToSet(<<x>>) = {x}
    BY OneCalled
  <2> QED
    BY <1>1, <1>4, <1>6, <2>1 DEF DiskInv, CleanInv
<1>12. FloorInv'
  BY <1>1, <1>3, <1>4, <1>6, <1>7 DEF FloorInv
<1> QED
  BY <1>8, <1>9, <1>10, <1>11, <1>12 DEF DiskInv

LEMMA GarbageDisk ==
  ASSUME QueueInv, FilesInv, LiveInv, TreeInv, DiskInv, FilesInv', LiveInv', CollectGarbage
  PROVE  DiskInv'
<1>1. /\ todo # <<>> /\ Head(todo).op = "gc" /\ UNCHANGED <<cache_, saved, floor>>
      /\ SavedFilesExist /\ SavedFilesExist'
  BY DEF CollectGarbage, Do, history, FilesInv
<1>2. CASE Call(<<>>) /\ UNCHANGED <<files, manifest_>>
  BY <1>1, <1>2, NothingCalled, QuietCall
<1>3. ASSUME NEW id \in InvalidIds(manifest_),
             files' = Restrict(files, DOMAIN files \ {id}),
             manifest_' = forget(manifest_, id), UNCHANGED todo
      PROVE  DiskInv'
  <2>1. ValidIds(manifest_') = ValidIds(manifest_) /\ Root' = Root /\ Known' = Known
    BY <1>3, ForgetFacts DEF FilesInv, Root, Known
  <2>2. id \notin DOMAIN cache_
    <3>1. ValidInv
      BY <1>1 DEF TreeInv, Doomed, Splitting, Do
    <3> QED
      BY <3>1 DEF ValidInv, InvalidIds
  <2>3. id \notin SavedIds
    BY <1>1 DEF FilesInv, Do, SavedIds
  <2>4. DOMAIN files' = DOMAIN files \ {id} /\ \A i \in DOMAIN files' : files'[i] = files[i]
    <3>1. files' = [i \in DOMAIN files \ {id} |-> files[i]]
      BY <1>3 DEF Restrict
    <3> QED
      BY <3>1
  <2>5. SavedIds' = SavedIds /\ Held' = Held /\ ~Saving /\ SavedIds \subseteq DOMAIN files
    BY <1>1, WrittenDated DEF SavedIds, Held, Saving, DiskInv
  <2>6. DatedInv'
    BY <2>4 DEF DiskInv, DatedInv
  <2>7. SavedInv' /\ FloorInv'
    <3>1. \A i \in SavedIds : Alike(files'[i], files[i])
      <4>1. \A i \in SavedIds : files'[i] = files[i]
        BY <2>3, <2>4, <2>5
      <4> QED
        BY <1>1, <4>1, SavedSelf DEF DiskInv
    <3>2. Covers(Held', Held)
      <4>1. Held \subseteq Dated
        BY HeldDated
      <4> QED
        BY <2>5, <4>1, CoversSelf, DatedFacts
    <3> QED
      BY <1>1, <2>1, <2>5, <2>6, <3>1, <3>2, DiskKept DEF DiskInv
  <2>8. SyncInv'
    <3>1. \A q \in DOMAIN cache_ : Alike(files[q], cache_[q])
      <4>1. ~Lagging
        BY <1>1, NotLagging
      <4> QED
        BY <1>1, <4>1 DEF DiskInv, SyncInv, Do
    <3>2. \A q \in DOMAIN cache_ : files'[q] = files[q]
      <4>1. DOMAIN cache_ \subseteq DOMAIN files
        <5>1. ValidInv
          BY <1>1 DEF TreeInv, Doomed, Splitting, Do
        <5> QED
          BY <5>1 DEF ValidInv, FilesInv
      <4> QED
        BY <2>2, <2>4, <4>1
    <3> QED
      BY <1>1, <3>1, <3>2 DEF SyncInv
  <2>9. NextIsSave'
    BY <1>1, <1>3 DEF NextIsSave, Do
  <2>10. CleanInv'
    BY <1>1, <1>3, <2>1, <2>5 DEF DiskInv, CleanInv
  <2>11. ReturnInv'
    <3>1. \A x \in ToSet(todo) : x.op # "return"
      BY <1>1, NoReturn DEF DiskInv
    <3> QED
      BY <1>3, <3>1 DEF ReturnInv
  <2> QED
    BY <2>6, <2>7, <2>8, <2>9, <2>10, <2>11 DEF DiskInv
<1> QED
  BY <1>2, <1>3 DEF CollectGarbage

\* A flush() that waits for the call that is first.
LEMMA WaitingReturn ==
  ASSUME QueueInv, ReturnInv, todo # <<>>, Call(<<>>), NEW x \in ToSet(todo'), x.op = "return"
  PROVE  /\ x.covers \in [Keys -> Nat] /\ Met(x.covers, Held)
         /\ Head(todo).op = "save" => todo' = <<x>>
         /\ Head(todo).op = "persist" => todo' = <<Save, x>>
<1>1. x \in ToSet(todo)
  BY CallSets, NothingCalled
<1>2. /\ todo = <<x>> \/ todo = <<Save, x>> \/ todo = <<Persist(Root), Save, x>>
      /\ x.covers \in [Keys -> Nat] /\ Met(x.covers, Held)
  BY <1>1 DEF ReturnInv
<1>3. Save.op = "save" /\ Persist(Root).op = "persist"
  BY DEF Save, Persist
<1>4. todo' = Tail(todo)
  <2>1. Tail(todo) \in Seq(ToSet(todo))
    BY DEF QueueInv, IsSeq
  <2>2. <<>> \o Tail(todo) = Tail(todo)
    BY <2>1
  <2> QED
    BY <2>2 DEF Call
<1>5. /\ Head(<<x>>) = x
      /\ Head(<<Save, x>>) = Save /\ Tail(<<Save, x>>) = <<x>>
      /\ Head(<<Persist(Root), Save, x>>) = Persist(Root)
      /\ Tail(<<Persist(Root), Save, x>>) = <<Save, x>>
  OBVIOUS
<1> QED
  BY <1>2, <1>3, <1>4, <1>5

LEMMA PersistDisk ==
  ASSUME QueueInv, FilesInv, LiveInv, TreeInv, DiskInv, FilesInv', LiveInv', PersistNode
  PROVE  DiskInv'
<1> DEFINE id == Head(todo).id
           n == flush_to_disk(cache_[id])
<1>1. /\ todo # <<>> /\ Head(todo).op = "persist" /\ Call(<<>>) /\ UNCHANGED <<saved, floor>>
      /\ cache_' = [cache_ EXCEPT ![id] = n]
      /\ files' = [i \in DOMAIN files \cup {id} |-> IF i = id THEN n ELSE files[i]]
      /\ manifest_' = register(manifest_, {id})
  BY DEF PersistNode, Do, history
<1>2. id \in DOMAIN cache_ /\ DOMAIN cache_' = DOMAIN cache_ /\ cache_'[id] = n
      /\ \A q \in DOMAIN cache_ \ {id} : cache_'[q] = cache_[q]
  <2>1. id \in DOMAIN cache_ /\ cache_ = [i \in DOMAIN cache_ |-> cache_[i]]
    BY <1>1 DEF LiveInv, CallsInv, CallReady, CacheInv
  <2> HIDE DEF n, id
  <2> QED
    BY <1>1, <2>1
<1>3. /\ DOMAIN files' = DOMAIN files \cup {id} /\ files'[id] = n
      /\ \A i \in DOMAIN files \ {id} : files'[i] = files[i]
  <2> HIDE DEF n, id
  <2> QED
    BY <1>1
<1>4. Known' = Known /\ Root' = Root
  BY <1>1, RegisterFacts DEF FilesInv, Known, Root
<1>5. todo' = Tail(todo) /\ todo' # <<>> /\ Head(todo') = Head(Tail(todo)) /\ Head(todo').op = "save"
  <2>1. Tail(todo) # <<>> /\ Head(Tail(todo)).op = "save"
    BY <1>1 DEF DiskInv, NextIsSave, Do
  <2>2. todo' = Tail(todo)
    BY <1>1, NothingCalled, NextCall DEF LiveInv
  <2> QED
    BY <2>1, <2>2
<1>6. Covers(Held', Held)
  BY DiskLive
<1>7. ToSet(n.buf) \subseteq Dated
  BY <1>2, CachedDatedNext DEF LiveInv
<1> HIDE DEF n, id
<1>8. DatedInv'
  BY <1>3, <1>7 DEF DiskInv, DatedInv
<1>9. SavedInv'
  <2>1. Saving'
    BY <1>5 DEF Saving
  <2> QED
    BY <1>1, <1>4, <2>1 DEF DiskInv, SavedInv, SavedRoot, SavedIds
<1>10. FloorInv'
  <2>1. Saving'
    BY <1>5 DEF Saving
  <2>2. floor \in [Keys -> Nat] /\ Met(floor, Held)
    BY DEF DiskInv, FloorInv
  <2>3. Held \subseteq Dated /\ Held' \subseteq Dated
    <3>1. Held' \subseteq Dated
      BY CachedDatedNext DEF LiveInv, Held
    <3> QED
      BY <3>1, HeldDated
  <2>4. Met(floor, Held')
    BY <1>6, <2>2, <2>3, MetThrough
  <2>5. Met(floor, Held)'
    BY <1>1, <2>4 DEF Met
  <2> QED
    BY <1>1, <2>1, <2>2, <2>5 DEF FloorInv
<1>11. SyncInv'
  <2>1. \A q \in DOMAIN cache_ \ {id} : Alike(files[q], cache_[q]) /\ q \in DOMAIN files
    <3>1. ~Lagging
      BY <1>1, NotLagging
    <3>2. ValidInv
      BY <1>1 DEF TreeInv, Doomed, Splitting, Do
    <3>3. DOMAIN cache_ \subseteq DOMAIN files
      BY <3>2 DEF ValidInv, FilesInv
    <3> QED
      BY <3>1, <3>3 DEF DiskInv, SyncInv, id
  <2>2. Alike(n, n)
    BY <1>7, AlikeSelf, DatedFacts
  <2>3. \A q \in DOMAIN cache_' : Alike(files'[q], cache_'[q])
    BY <1>2, <1>3, <2>1, <2>2
  <2> QED
    BY <2>3 DEF SyncInv
<1>12. NextIsSave'
  BY <1>5 DEF NextIsSave, Do
<1>13. CleanInv'
  <2>1. Head(todo') \in ToSet(todo')
    <3>1. Tail(todo) \in Seq(ToSet(todo))
      BY <1>1 DEF QueueInv, IsSeq
    <3> QED
      BY ONLY <1>5, <3>1, EndsIn
  <2> QED
    BY <1>5, <2>1 DEF CleanInv
<1>14. ReturnInv'
  <2> SUFFICES ASSUME NEW x \in ToSet(todo'), x.op = "return"
               PROVE  /\ todo' = <<Save, x>> /\ x.covers \in [Keys -> Nat] /\ Met(x.covers, Held')
    <3>1. \A y : <<Save, y>> # <<y>>
      <4>1. \A y : Len(<<Save, y>>) = 2 /\ Len(<<y>>) = 1
        OBVIOUS
      <4> QED
        BY <4>1
    <3> QED
      BY <3>1 DEF ReturnInv, Met
  <2>1. x.covers \in [Keys -> Nat] /\ Met(x.covers, Held) /\ todo' = <<Save, x>>
    BY <1>1, WaitingReturn DEF DiskInv
  <2>2. Held \subseteq Dated /\ Held' \subseteq Dated
    <3>1. Held' \subseteq Dated
      BY CachedDatedNext DEF LiveInv, Held
    <3> QED
      BY <3>1, HeldDated
  <2>3. Met(x.covers, Held')
    BY <1>6, <2>1, <2>2, MetThrough
  <2> QED
    BY <2>1, <2>3
<1> QED
  BY <1>8, <1>9, <1>10, <1>11, <1>12, <1>13, <1>14 DEF DiskInv
LEMMA SaveLoadRoot ==
  ASSUME NEW m
  PROVE  load(save(m)).root = m.root /\ save(m) # {}
<1> DEFINE lines == save(m)
           D == IdsOf(lines, "ROOT")
<1>1. Line("ROOT", m.root, FALSE) \in lines
  BY DEF save
<1>2. \A l \in lines : l.token = "ROOT" => l.id = m.root
  BY DEF save, Line
<1>3. D = {l.id : l \in {x \in lines : x.token = "ROOT"}}
  BY DEF IdsOf
<1>4. load(lines).root = IF D = {} THEN INVALID_NODE_ID ELSE CHOOSE i \in D : TRUE
  BY DEF load, IdOr
<1> HIDE DEF lines, D
<1>5. D = {m.root}
  <2> DEFINE l == Line("ROOT", m.root, FALSE)
  <2>1. l \in lines /\ l.token = "ROOT" /\ l.id = m.root
    BY <1>1 DEF Line
  <2> HIDE DEF l
  <2> QED
    BY <1>2, <1>3, <2>1
<1>6. (CHOOSE i \in D : TRUE) \in D
  BY <1>5
<1> QED
  BY <1>1, <1>4, <1>5, <1>6 DEF lines

LEMMA SaveDisk ==
  ASSUME QueueInv, FilesInv, LiveInv, TreeInv, DiskInv, SaveManifest
  PROVE  DiskInv'
<1>1. /\ todo # <<>> /\ Head(todo).op = "save" /\ saved' = save(manifest_) /\ Call(<<>>)
      /\ UNCHANGED <<cache_, manifest_, files, floor>>
  BY DEF SaveManifest, Do, memory, history
<1>2. Shape(cache_, Root) /\ ValidInv
  BY <1>1, TreeIs DEF TreeInv, Doomed, Splitting, Do
<1>3. saved' # {} /\ SavedRoot' = Root /\ SavedIds' = DOMAIN cache_
  <2>1. ValidIds(load(saved')) = ValidIds(manifest_)
    BY <1>1, SaveLoad DEF FilesInv
  <2> QED
    BY <1>1, <1>2, <2>1, SaveLoadRoot DEF SavedRoot, SavedIds, Root, ValidInv
<1>4. \A q \in DOMAIN cache_ : Alike(files[q], cache_[q])
  <2>1. ~Lagging
    BY <1>1, NotLagging
  <2> QED
    BY <1>1, <2>1 DEF DiskInv, SyncInv, Do
<1>5. SavedInv'
  <2> DEFINE c == cache_
             d == SavedTree'
  <2>1. DOMAIN d = DOMAIN c /\ \A q \in DOMAIN c : d[q] = files[q]
    BY <1>1, <1>3 DEF SavedTree
  <2> HIDE DEF d
  <2>2. Shape(d, Root)
    BY <1>2, <1>4, <2>1, ShapeSame DEF Alike
  <2>3. Root \in DOMAIN cache_
    BY <1>2 DEF Shape
  <2>4. DOMAIN cache_ \subseteq Known' 
    BY <1>1 DEF LiveInv, CacheInv, Known
  <2> QED
    BY <1>3, <2>2, <2>3, <2>4 DEF SavedInv, d
<1>6. SyncInv'
  BY <1>1, <1>4 DEF SyncInv
<1>7. DatedInv'
  BY <1>1 DEF DiskInv, DatedInv
<1>8. NextIsSave'
  BY <1>1, NothingCalled, HeadOnly DEF LiveInv
<1>9. CleanInv'
  BY <1>1, <1>2, <1>3 DEF CleanInv, ValidInv
<1>10. Covers(Written', Held) /\ Held \subseteq Dated /\ Written' \subseteq Dated /\ Held' = Held
  <2>1. Held' = Held /\ Held \subseteq Dated
    BY <1>1, HeldDated DEF Held
  <2>2. Written' = UNION {ToSet(files[i].buf) : i \in DOMAIN cache_}
    BY <1>1, <1>3 DEF Written
  <2>3. DOMAIN cache_ \subseteq DOMAIN files
    BY <1>2 DEF ValidInv, FilesInv
  <2>4. Written' \subseteq Dated
    BY <2>2, <2>3 DEF DiskInv, DatedInv
  <2>5. ASSUME NEW g \in Held PROVE \E e \in Written' : e.key = g.key /\ g.seq <= e.seq
    <3>1. PICK i \in DOMAIN cache_ : g \in ToSet(cache_[i].buf)
      BY DEF Held
    <3>2. Covers(ToSet(files[i].buf), ToSet(cache_[i].buf))
      BY <1>4 DEF Alike
    <3>3. PICK e \in ToSet(files[i].buf) : e.key = g.key /\ g.seq <= e.seq
      BY <3>1, <3>2 DEF Covers
    <3> QED
      BY <2>2, <3>3
  <2>6. Covers(Written', Held)
    BY <2>5 DEF Covers
  <2> QED
    BY <2>1, <2>4, <2>6
<1>11. ASSUME NEW f \in [Keys -> Nat], Met(f, Held) PROVE Met(f, Written')
  BY <1>10, <1>11, MetThrough
<1>12. FloorInv'
  <2>1. floor \in [Keys -> Nat] /\ Met(floor, Held)
    BY DEF DiskInv, FloorInv
  <2>2. Met(floor, Written)' /\ Met(floor, Held)'
    BY <1>1, <1>10, <1>11, <2>1 DEF Met
  <2> QED
    BY <1>1, <2>1, <2>2 DEF FloorInv
<1>13. ReturnInv'
  <2> SUFFICES ASSUME NEW x \in ToSet(todo'), x.op = "return"
               PROVE  /\ todo' = <<x>> /\ x.covers \in [Keys -> Nat]
                      /\ Met(x.covers, Held') /\ Met(x.covers, Written')
    BY DEF ReturnInv, Met
  <2>1. x.covers \in [Keys -> Nat] /\ Met(x.covers, Held) /\ todo' = <<x>>
    BY <1>1, WaitingReturn DEF DiskInv
  <2> QED
    BY <1>10, <1>11, <2>1
<1> QED
  BY <1>5, <1>6, <1>7, <1>8, <1>9, <1>12, <1>13 DEF DiskInv

LEMMA InsertChildDisk ==
  ASSUME QueueInv, FilesInv, LiveInv, TreeInv, DiskInv, FilesInv', LiveInv', InsertChild
  PROVE  DiskInv'
<1> DEFINE op == Head(todo)
           p == op.id
           ops == <<Persist(p)>>
           w == Tree[p].kids
           n == Spanning(Tree[p], Node(Head(w)), Node(Last(w)))
<1>1. /\ todo # <<>> /\ Splitting /\ p \in DOMAIN cache_ /\ cache_' = [cache_ EXCEPT ![p] = n]
      /\ Call(ops) /\ UNCHANGED <<manifest_, files>>
  BY InsertChildEffect
<1>2. op.op = "insert_child" /\ UNCHANGED <<saved, floor>> /\ Known' = Known
  <2>1. UNCHANGED <<saved, floor>>
    BY DEF InsertChild, disk, history
  <2> QED
    BY <1>1, <2>1 DEF Splitting, Do, Known
<1>3. IsSeq(ops) /\ ToSet(ops) = {Persist(p)} /\ Head(ops) = Persist(p) /\ ops # <<>>
  <2>1. ops # <<>>
    BY CallsOne
  <2> QED
    BY <2>1, OneCalled
<1>4. Persist(p).op = "persist" /\ Persist(p).id = p
  BY DEF Persist
<1>5. Head(todo') = Persist(p) /\ todo' # <<>> /\ Tail(todo') = Tail(todo)
  <2>1. Head(todo') = Head(ops) /\ todo' # <<>>
    BY <1>1, <1>3, NextCall DEF LiveInv
  <2>2. Tail(todo) \in Seq(ToSet(todo)) /\ todo' = <<Persist(p)>> \o Tail(todo)
    BY <1>1 DEF QueueInv, IsSeq, Call
  <2>3. \A x, E : \A s \in Seq(E) : Tail(<<x>> \o s) = s
    OBVIOUS
  <2> QED
    BY <1>3, <2>1, <2>2, <2>3
<1>6. Tail(todo) # <<>> /\ Head(Tail(todo)).op = "save"
  BY <1>1, <1>2 DEF DiskInv, NextIsSave, Do
<1>7. NextIsSave'
  BY <1>5, <1>6 DEF NextIsSave
<1>8. CleanInv'
  <2>1. Head(Tail(todo)) \in ToSet(Tail(todo))
    <3>1. Tail(todo) \in Seq(ToSet(todo))
      BY <1>1 DEF QueueInv, IsSeq
    <3> QED
      BY ONLY <1>6, <3>1, EndsIn
  <2>2. Head(Tail(todo)) \in ToSet(todo')
    BY <1>1, <1>3, <2>1, CallSets
  <2> QED
    BY <1>6, <2>2 DEF CleanInv
<1>9. Covers(Held', Held)
  BY InsertChildLive
<1>10. DatedInv'
  BY <1>1 DEF DiskInv, DatedInv
<1>11. SavedInv' /\ FloorInv'
  <2>1. \A i \in SavedIds : Alike(files'[i], files[i])
    BY <1>1, SavedSelf DEF DiskInv, FilesInv
  <2>2. ~Saving
    BY <1>2 DEF Saving
  <2> QED
    BY <1>2, <1>9, <1>10, <2>1, <2>2, DiskKept DEF DiskInv, FilesInv
<1>12. SyncInv'
  <2>1. DOMAIN cache_' = DOMAIN cache_ /\ \A q \in DOMAIN cache_ \ {p} : cache_'[q] = cache_[q]
    <3> HIDE DEF n, p
    <3> QED
      BY <1>1
  <2>2. \A q \in DOMAIN cache_ : Alike(files[q], cache_[q])
    <3>1. ~Lagging
      BY <1>1, <1>2, NotLagging
    <3> QED
      BY <1>2, <3>1 DEF DiskInv, SyncInv, Do
  <2>3. Do("persist")' /\ Head(todo').id = p
    BY <1>4, <1>5 DEF Do
  <2> QED
    BY <1>1, <2>1, <2>2, <2>3 DEF SyncInv
<1>13. ReturnInv'
  BY <1>1, <1>2, <1>3, <1>4, CallReturn DEF DiskInv
<1> QED
  BY <1>7, <1>8, <1>10, <1>11, <1>12, <1>13 DEF DiskInv

LEMMA CommitIs == IsSeq(Commit) /\ Commit # <<>> /\ Head(Commit) = Save /\ ToSet(Commit) = {Save, Gc}
<1>1. Commit \in Seq({Save, Gc}) /\ Len(Commit) = 2 /\ Commit[1] = Save /\ Commit[2] = Gc
      /\ Commit # <<>> /\ Head(Commit) = Save
  BY DEF Commit
<1>2. ToSet(Commit) = {Commit[i] : i \in 1..Len(Commit)} /\ Commit \in Seq(ToSet(Commit))
  BY <1>1, ToSetFacts
<1> QED
  BY <1>1, <1>2 DEF IsSeq

LEMMA NothingSaved ==
  ASSUME saved = {}
  PROVE  ValidIds(load(saved)) = {}
<1>1. IdsOf(saved, "NODE") = {}
  BY DEF IdsOf
<1> QED
  BY <1>1, LoadFacts DEF NodesOf, ValidIds

\* The two nodes that a node is split into, or the three that the root is.
LEMMA SplitDisk ==
  ASSUME QueueInv, FilesInv, LiveInv, TreeInv, DiskInv, FilesInv', LiveInv',
         ~Doomed, todo # <<>>, Head(todo).op \in {"split_leaf", "insert_child"},
         UNCHANGED <<saved, floor>>, Covers(Held', Held),
         NEW gone \in DOMAIN cache_, NEW a, NEW b, NEW isRoot \in BOOLEAN, NEW loaded,
         loaded \subseteq DOMAIN cache_, Replace(gone, a, b, isRoot, loaded),
         Head(todo).id = gone, isRoot <=> gone = Root,
         NEW ins, ins.op = "insert_child", NEW up, up = IF isRoot THEN <<>> ELSE <<ins>>,
         Call(up \o Commit)
  PROVE  DiskInv'
<1> DEFINE l == manifest_.next
           r == l + 1
           t == l + 2
           made == IF isRoot THEN {l, r, t} ELSE {l, r}
           ops == up \o Commit
<1>1. /\ Known \subseteq Known' /\ l \notin Known /\ r \notin Known /\ t \notin Known
      /\ DOMAIN cache_' = (DOMAIN cache_ \cup made) \ {gone}
      /\ cache_'[l] = a /\ cache_'[r] = b
      /\ \A q \in DOMAIN cache_ \ {gone} : q \in DOMAIN cache_' /\ cache_'[q] = cache_[q]
      /\ isRoot => cache_'[t] = Spanning(create(a.level + 1, <<>>, <<l, r>>), a, b)
  <2>1. /\ FilesInv /\ CacheInv /\ gone \in DOMAIN cache_ /\ isRoot \in BOOLEAN
        /\ loaded \subseteq DOMAIN cache_ /\ Replace(gone, a, b, isRoot, loaded)
    BY DEF LiveInv
  <2>2. /\ l # r /\ l # t /\ r # t /\ Known \subseteq Known' /\ l \in Nat
        /\ l \notin Known /\ r \notin Known /\ t \notin Known /\ made \subseteq Known'
        /\ DOMAIN cache_' = (DOMAIN cache_ \cup made) \ {gone}
        /\ cache_'[l] = a /\ cache_'[r] = b
        /\ \A q \in DOMAIN cache_ \ {gone} : q \in DOMAIN cache_' /\ cache_'[q] = cache_[q]
        /\ isRoot => /\ cache_'[t] = Spanning(create(a.level + 1, <<>>, <<l, r>>), a, b)
                     /\ manifest_'.root = t
        /\ ~isRoot => manifest_'.root = Root
        /\ DOMAIN cache_ = ValidIds(manifest_) => DOMAIN cache_' = ValidIds(manifest_')
        /\ DOMAIN files \subseteq DOMAIN manifest_.nodes =>
             DOMAIN files' \subseteq DOMAIN manifest_'.nodes
    BY ONLY <2>1, ReplaceEffect
  <2> QED
    BY <2>2
<1>2. /\ made \cap Known = {} /\ DOMAIN files' = DOMAIN files \cup made
      /\ \A q \in made : q \in DOMAIN cache_' /\ files'[q] = cache_'[q]
      /\ \A q \in DOMAIN files \ made : files'[q] = files[q]
  <2>1. made = Fresh(isRoot) /\ CacheInv
    BY DEF Fresh, LiveInv
  <2>2. /\ Fresh(isRoot) \cap Known = {} /\ DOMAIN files' = DOMAIN files \cup Fresh(isRoot)
        /\ \A q \in Fresh(isRoot) : q \in DOMAIN cache_' /\ files'[q] = cache_'[q]
        /\ \A q \in DOMAIN files \ Fresh(isRoot) : files'[q] = files[q]
    BY <2>1, ReplaceFiles
  <2> HIDE DEF made
  <2> QED
    BY <2>1, <2>2
<1>3. DOMAIN cache_ \subseteq Known
  BY DEF LiveInv, CacheInv
<1>4. made \cap Known = {}
  BY <1>2
<1>5. DOMAIN cache_ \subseteq DOMAIN files
  <2>1. ValidInv
    BY DEF TreeInv
  <2> QED
    BY <2>1 DEF ValidInv, FilesInv
<1>6. \A q \in DOMAIN cache_ \ {gone} : Alike(files[q], cache_[q])
  <2>1. ~(\A x \in ToSet(todo) : x.op \in {"done", "return", "closed"})
    BY FirstIn DEF QueueInv
  <2> QED
    BY <2>1 DEF DiskInv, SyncInv, Do, Lagging
<1>7. \A q \in DOMAIN cache_' : Alike(files'[q], cache_'[q])
  <2>1. \A q \in made : Alike(files'[q], cache_'[q])
    <3>1. \A q \in DOMAIN cache_' : Alike(cache_'[q], cache_'[q])
      BY CachedDatedNext, AlikeSelf, DatedFacts DEF LiveInv
    <3> QED
      BY <1>2, <3>1
  <2>2. \A q \in DOMAIN cache_ \ {gone} : Alike(files'[q], cache_'[q])
    BY <1>1, <1>2, <1>3, <1>4, <1>5, <1>6
  <2> QED
    BY <1>1, <2>1, <2>2
<1> HIDE DEF made
<1>8. \A i \in SavedIds : Alike(files'[i], files[i])
  <2>1. saved # {} => SavedIds \subseteq Known
    BY DEF DiskInv, SavedInv
  <2>2. saved = {} => SavedIds = {}
    BY NothingSaved DEF SavedIds
  <2>3. SavedIds \subseteq DOMAIN files
    BY WrittenDated DEF DiskInv, FilesInv
  <2>4. \A i \in SavedIds : files'[i] = files[i]
    BY <1>2, <1>4, <2>1, <2>2, <2>3
  <2> QED
    BY <2>4, SavedSelf DEF DiskInv, FilesInv
<1>9. \A i \in DOMAIN files' : \/ i \in DOMAIN files /\ files'[i] = files[i]
                               \/ i \in DOMAIN cache_' /\ files'[i] = cache_'[i]
  BY <1>2
<1>10. /\ IsSeq(ops) /\ ops # <<>> /\ \A x \in ToSet(ops) : x.op # "return"
       /\ Save \in ToSet(todo') /\ NextIsSave'
  <2>1. CASE isRoot
    <3>1. ops = Commit
      <4>1. up = <<>>
        BY <2>1
      <4>2. <<>> \o Commit = Commit
        BY DEF Commit
      <4> QED
        BY <4>1, <4>2
    <3>2. IsSeq(Commit) /\ Commit # <<>> /\ Head(Commit) = Save /\ ToSet(Commit) = {Save, Gc}
      BY CommitIs
    <3>3. Save.op = "save" /\ Gc.op = "gc"
      BY DEF Save, Gc
    <3>4. ToSet(todo') = ToSet(ops) \cup ToSet(Tail(todo))
      BY <3>1, <3>2, CallSets
    <3>5. NextIsSave'
      BY <3>1, <3>2, <3>3, HeadOnly DEF LiveInv
    <3> QED
      BY <3>1, <3>2, <3>3, <3>4, <3>5
  <2>2. CASE ~isRoot
    <3>1. ops = <<ins>> \o <<Save, Gc>>
      BY <2>2 DEF Commit
    <3>2. IsSeq(ops) /\ ops # <<>> /\ Head(ops) = ins /\ ToSet(ops) = {ins, Save, Gc}
      <4> DEFINE u == ops
      <4>1. u = <<ins>> \o <<Save, Gc>>
        BY <3>1
      <4> HIDE DEF u
      <4>2. IsSeq(u) /\ u # <<>> /\ Head(u) = ins /\ ToSet(u) = {ins, Save, Gc}
        BY ONLY <4>1, OneBeforeTwo
      <4> QED
        BY <4>2 DEF u
    <3>3. Save.op = "save" /\ Gc.op = "gc"
      BY DEF Save, Gc
    <3>4. ToSet(todo') = ToSet(ops) \cup ToSet(Tail(todo))
      BY <3>2, CallSets
    <3>5. Tail(todo') # <<>> /\ Head(Tail(todo')) = Save
      <4>1. Len(ops) >= 2 /\ ops[2] = Save
        BY <3>1
      <4> DEFINE u == ops
                 v == todo'
                 rest == Tail(todo)
                 S == ToSet(ops) \cup ToSet(todo)
      <4>2. u \in Seq(S) /\ rest \in Seq(S) /\ v = u \o rest
        BY <3>2 DEF QueueInv, IsSeq, Call
      <4>3. Len(u) >= 2 /\ u[2] = Save
        BY <4>1
      <4> HIDE DEF u, v, rest, S
      <4>4. Tail(v) # <<>> /\ Head(Tail(v)) = Save
        BY <4>2, <4>3, FirstTwo
      <4> QED
        BY <4>4 DEF v
    <3>6. NextIsSave'
      BY <3>3, <3>5 DEF NextIsSave
    <3> QED
      BY <3>2, <3>3, <3>4, <3>6
  <2> QED
    BY <2>1, <2>2
<1> HIDE DEF ops
<1>11. SavedFilesExist /\ SavedFilesExist'
  BY DEF FilesInv
<1> QED
  BY <1>1, <1>7, <1>8, <1>9, <1>10, <1>11, ChangeDisk DEF ops

LEMMA SplitLeafDisk ==
  ASSUME QueueInv, FilesInv, LiveInv, TreeInv, DiskInv, FilesInv', LiveInv', SplitLeaf
  PROVE  DiskInv'
<1> DEFINE x == Head(todo).id
           parent == Head(Head(todo).path)
           s == StableSort(cache_[x].buf)
           a == create(0, LeftHalf(s), <<>>)
           b == create(0, RightHalf(s), <<>>)
           ins == [op |-> "insert_child", id |-> parent, old |-> x,
                   left |-> manifest_.next, right |-> manifest_.next + 1]
           isRoot == x = Root
           up == IF isRoot THEN <<>> ELSE <<ins>>
           loaded == {}
<1>1. /\ todo # <<>> /\ ~Doomed /\ x \in DOMAIN cache_
      /\ Replace(x, a, b, isRoot, loaded) /\ Call(up \o Commit)
  BY SplitLeafEffect
<1>2. Head(todo).op = "split_leaf" /\ UNCHANGED <<saved, floor>>
  BY DEF SplitLeaf, Do, history
<1>3. Covers(Held', Held)
  BY SplitLeafLive
<1>4. isRoot \in BOOLEAN /\ loaded \subseteq DOMAIN cache_ /\ ins.op = "insert_child"
  OBVIOUS
<1>5. up = (IF isRoot THEN <<>> ELSE <<ins>>) /\ (isRoot <=> x = Root) /\ Head(todo).id = x
  OBVIOUS
<1> HIDE DEF a, b, ins, isRoot, up, loaded, x
<1> QED
  BY <1>1, <1>2, <1>3, <1>4, <1>5, SplitDisk

LEMMA SplitParentDisk ==
  ASSUME QueueInv, FilesInv, LiveInv, TreeInv, DiskInv, FilesInv', LiveInv', SplitParent
  PROVE  DiskInv'
<1> DEFINE x == Head(todo).id
           n == Tree[x]
           ins == [op |-> "insert_child", id |-> ParentOf(x), old |-> x,
                   left |-> manifest_.next, right |-> manifest_.next + 1]
           isRoot == x = Root
           up == IF isRoot THEN <<>> ELSE <<ins>>
           loaded == Searched(x)
<1>1. /\ todo # <<>> /\ ~Doomed /\ Splitting /\ x \in DOMAIN cache_ /\ loaded \subseteq DOMAIN cache_
      /\ \E a, b : Replace(x, a, b, isRoot, loaded)
      /\ Call(up \o Commit)
  <2>1. /\ todo # <<>> /\ Splitting /\ ~Doomed /\ x \in DOMAIN cache_ /\ Searched(x) \subseteq DOMAIN cache_
        /\ \E left \in SUBSET DOMAIN n.buf :
              Replace(x,
                HalfNode(n.level, n.buf, left, LeftHalf(n.kids),
                         Node(Head(LeftHalf(n.kids))), Node(Last(LeftHalf(n.kids)))),
                HalfNode(n.level, n.buf, DOMAIN n.buf \ left, RightHalf(n.kids),
                         Node(Head(RightHalf(n.kids))), Node(Last(RightHalf(n.kids)))),
                x = Root, Searched(x))
        /\ Call((IF x = Root THEN <<>> ELSE <<ins>>) \o Commit)
    BY SplitParentEffect
  <2> QED
    BY <2>1
<1>2. Head(todo).op = "insert_child" /\ UNCHANGED <<saved, floor>>
  BY DEF SplitParent, Do, history
<1>3. Covers(Held', Held)
  BY SplitParentLive
<1>4. isRoot \in BOOLEAN /\ ins.op = "insert_child"
  OBVIOUS
<1>5. up = (IF isRoot THEN <<>> ELSE <<ins>>) /\ (isRoot <=> x = Root) /\ Head(todo).id = x
  OBVIOUS
<1> HIDE DEF ins, isRoot, up, loaded, x, n
<1> QED
  BY <1>1, <1>2, <1>3, <1>4, <1>5, SplitDisk

\* What is next after the first call of several.
LEMMA SecondCall ==
  ASSUME QueueInv, todo # <<>>, NEW ops, IsSeq(ops), Call(ops), Len(ops) >= 2
  PROVE  Tail(todo') # <<>> /\ Head(Tail(todo')) = ops[2]
<1> DEFINE u == ops
           v == todo'
           rest == Tail(todo)
           S == ToSet(ops) \cup ToSet(todo)
<1>1. u \in Seq(S) /\ rest \in Seq(S) /\ v = u \o rest /\ Len(u) >= 2
  BY DEF QueueInv, IsSeq, Call
<1> HIDE DEF u, v, rest, S
<1>2. Tail(v) # <<>> /\ Head(Tail(v)) = u[2]
  BY <1>1, FirstTwo
<1> QED
  BY <1>2 DEF u, v

LEMMA FourCalls ==
  ASSUME NEW x, NEW c
  PROVE  Len(<<x>> \o Commit \o <<c>>) >= 2 /\ (<<x>> \o Commit \o <<c>>)[2] = Save
BY DEF Commit

\* The nodes before and after a do_flush.
LEMMA FlushesNodes ==
  ASSUME NEW k, NEW d, NEW p, NEW n, NEW old, NEW new, NEW hit, Flushes(k, d, p, n, old, new, hit)
  PROVE  /\ \A i \in 1..n : /\ old[i] \in DOMAIN k /\ old[i] # p /\ new[i] # p
                            /\ i \notin hit => new[i] = old[i]
                            /\ new[i] \in DOMAIN d
         /\ \A q \in DOMAIN d : \/ q = p \/ \E i \in 1..n : q = new[i]
                                \/ /\ q \in DOMAIN k \ {p} /\ d[q] = k[q]
                                   /\ \A i \in 1..n : q # old[i]
<1>1. /\ ToSet(old) = {old[i] : i \in 1..n} /\ ToSet(new) = {new[i] : i \in 1..n}
      /\ \A i \in 1..n : /\ old[i] \in DOMAIN k /\ old[i] # p /\ new[i] # p
                         /\ i \notin hit => new[i] = old[i]
      /\ DOMAIN d = (DOMAIN k \ {old[i] : i \in hit}) \cup {new[i] : i \in 1..n}
  BY DEF Flushes
<1>2. \A q \in DOMAIN d : q = p \/ q \in ToSet(new)
                        \/ (q \in DOMAIN k \ (ToSet(old) \cup {p}) /\ d[q] = k[q])
  BY Zenon DEF Flushes
<1>3. \A q \in DOMAIN d : \/ q = p \/ \E i \in 1..n : q = new[i]
                        \/ /\ q \in DOMAIN k \ {p} /\ d[q] = k[q]
                           /\ \A i \in 1..n : q # old[i]
  BY <1>1, <1>2
<1>4. \A i \in 1..n : new[i] \in DOMAIN d
  BY <1>1
<1> QED
  BY <1>1, <1>3, <1>4

LEMMA DoFlushDisk ==
  ASSUME QueueInv, FilesInv, LiveInv, TreeInv, DiskInv, FilesInv', LiveInv', DoFlush
  PROVE  DiskInv'
<1> DEFINE p == Head(todo).id
           old == cache_[p].kids
           new == NewKids(p)
           n == Len(old)
           hit == HitBy(p)
           made == MadeKids(p)
           c == Check(p, cache_'[p].kids)
           ops == <<Persist(p)>> \o Commit \o <<c>>
<1>1. FlushCall(p, old, new, n, hit, c, ops)
  BY FlushTo
<1>2. /\ todo # <<>> /\ ~Splitting /\ ~Doomed /\ Tree = cache_ /\ p \in DOMAIN cache_
      /\ UnreadKids(p) = {} /\ old # <<>>
      /\ Flushes(Tree, Tree', p, n, old, new, hit)
      /\ \A i \in 1..n : /\ Tree'[new[i]] = Refreshed(made[i])
                         /\ i \in hit => new[i] \notin Known
      /\ c.op = "check" /\ Call(ops) /\ IsSeq(ops) /\ ops # <<>> /\ Head(ops) = Persist(p)
      /\ ToSet(ops) = {Persist(p), Save, Gc, c}
      /\ ~Splitting' /\ Tree' = cache_' /\ Known \subseteq Known'
  BY <1>1 DEF FlushCall
<1>3. Head(todo).op = "do_flush" /\ UNCHANGED <<saved, floor>>
  BY DEF DoFlush, Do, history
<1>4. Covers(Held', Held)
  BY DoFlushLive
<1>5. Shape(cache_, Root) /\ ValidInv
  BY <1>2 DEF TreeInv
<1>6. /\ \A i \in 1..n :
           IF Rewrites(p, i)
           THEN new[i] \in DOMAIN files' /\ files'[new[i]] = Refreshed(made[i])
           ELSE /\ Refreshed(made[i]) = made[i]
                /\ new[i] \in DOMAIN files => files'[new[i]] = files[new[i]]
      /\ \A id \in DOMAIN files : (\A i \in 1..n : new[i] # id) => files'[id] = files[id]
      /\ \A id \in DOMAIN files' : \/ id \in DOMAIN files
                                   \/ \E i \in 1..n : id = new[i] /\ Rewrites(p, i)
      /\ DOMAIN files \subseteq DOMAIN files'
  <2>1. IsInjective(old) /\ FlushChildren(p, n + 1)
    <3>1. FlushChildren(p, n + 1)
      BY DEF DoFlush
    <3> QED
      BY <1>2, <1>5, <3>1 DEF Shape
  <2>2. CacheInv /\ p \in DOMAIN cache_ /\ cache_[p].kids # <<>> /\ UnreadKids(p) = {}
    BY <1>2 DEF LiveInv
  <2> QED
    BY <2>1, <2>2, FlushFiles
<1>7. /\ \A i \in 1..n : /\ old[i] \in DOMAIN cache_ /\ old[i] # p /\ new[i] # p
                         /\ i \notin hit => new[i] = old[i]
                         /\ new[i] \in DOMAIN cache_'
      /\ \A q \in DOMAIN cache_' : \/ q = p \/ \E i \in 1..n : q = new[i]
                                   \/ /\ q \in DOMAIN cache_ \ {p} /\ cache_'[q] = cache_[q]
                                      /\ \A i \in 1..n : q # old[i]
  <2>1. Flushes(cache_, cache_', p, n, old, new, hit)
    BY <1>2
  <2> HIDE DEF p, old, new, n, hit
  <2> QED
    BY ONLY <2>1, FlushesNodes
<1>8. \A i \in 1..n : i \notin hit => made[i] = cache_[old[i]]
  <2>1. CacheInv /\ p \in DOMAIN cache_ /\ cache_[p].kids # <<>> /\ UnreadKids(p) = {}
    BY <1>2 DEF LiveInv
  <2>2. /\ hit = {i \in 1..n : PartsOf(p)[i] # <<>>}
        /\ \A i \in 1..n : made[i] = IF PartsOf(p)[i] = <<>> THEN cache_[cache_[p].kids[i]]
                                     ELSE Rewritten(cache_[cache_[p].kids[i]], PartsOf(p)[i])
    BY <2>1, PartsIs
  <2> QED
    BY <2>2
<1>9. \A q \in DOMAIN cache_ \ {p} : Alike(files[q], cache_[q])
  <2>1. ~(\A x \in ToSet(todo) : x.op \in {"done", "return", "closed"})
    BY <1>2, <1>3, FirstIn DEF QueueInv
  <2> QED
    BY <1>3, <2>1 DEF DiskInv, SyncInv, Do, Lagging
<1>10. DOMAIN cache_ \subseteq Known /\ DOMAIN cache_ \subseteq DOMAIN files
  BY <1>5 DEF ValidInv, FilesInv, LiveInv, CacheInv
<1>11. /\ \A q \in DOMAIN cache_' : Alike(cache_'[q], cache_'[q])
  BY CachedDatedNext, AlikeSelf, DatedFacts DEF LiveInv
<1>12. \A i \in 1..n : cache_'[new[i]] = Refreshed(made[i])
  BY <1>2
<1>13. \A q \in DOMAIN cache_ : Alike(Refreshed(cache_[q]), cache_[q])
  <2>1. \A q \in DOMAIN cache_ : NodeIn(cache_[q], Known, Genuine)
    BY DEF LiveInv, CacheInv
  <2> QED
    BY <2>1, RefreshedAlike, GenuineEntries
<1>14. Persist(p).op = "persist" /\ Persist(p).id = p /\ Save.op = "save" /\ Gc.op = "gc"
  BY DEF Persist, Save, Gc
<1>15. Head(todo') = Persist(p) /\ todo' # <<>>
  BY <1>2, NextCall DEF LiveInv
<1>16. Save \in ToSet(todo') /\ NextIsSave'
  <2>1. Save \in ToSet(todo')
    BY <1>2, CallSets
  <2>2. Tail(todo') # <<>> /\ Head(Tail(todo')) = Save
    <3>1. Len(ops) >= 2 /\ ops[2] = Save
      BY FourCalls
    <3> HIDE DEF ops
    <3> QED
      BY <1>2, <3>1, SecondCall
  <2> QED
    BY <1>14, <2>1, <2>2 DEF NextIsSave
<1>17. \A x \in ToSet(ops) : x.op # "return"
  BY <1>2, <1>14
<1> HIDE DEF p, old, new, n, hit, made, c, ops
<1>18. \A i \in SavedIds : Alike(files'[i], files[i])
  <2>1. SavedIds \subseteq Known /\ SavedIds \subseteq DOMAIN files
        /\ \A i \in SavedIds : Alike(files[i], files[i])
    <3>1. saved # {} => SavedIds \subseteq Known
      BY DEF DiskInv, SavedInv
    <3>2. saved = {} => SavedIds = {}
      BY NothingSaved DEF SavedIds
    <3> QED
      BY <3>1, <3>2, WrittenDated, SavedSelf DEF DiskInv, FilesInv
  <2> TAKE id \in SavedIds
  <2>2. CASE \A i \in 1..n : new[i] # id
    BY <1>6, <2>1, <2>2
  <2>3. ASSUME NEW i \in 1..n, new[i] = id PROVE Alike(files'[id], files[id])
    <3>1. i \notin hit
      BY <1>2, <2>1, <2>3
    <3>2. id = old[i] /\ made[i] = cache_[id] /\ id \in DOMAIN cache_ \ {p}
      BY <1>7, <1>8, <2>3, <3>1
    <3>3. CASE Rewrites(p, i)
      <4> DEFINE m == files'[id]
                 o == cache_[id]
                 f == files[id]
      <4>1. m = Refreshed(o)
        BY <1>6, <2>3, <3>2, <3>3
      <4>2. Alike(m, o) /\ Alike(o, f)
        BY <1>9, <1>13, <3>2, <4>1, AlikeSwapped
      <4>3. ToSet(o.buf) \subseteq Dated /\ ToSet(f.buf) \subseteq Dated /\ ToSet(m.buf) \subseteq Dated
        <5>1. ToSet(o.buf) \subseteq Dated
          BY <3>2, CachedDated DEF LiveInv
        <5>2. ToSet(f.buf) \subseteq Dated
          BY <2>1 DEF DiskInv, DatedInv
        <5>3. m = cache_'[id] /\ id \in DOMAIN cache_'
          BY <1>7, <1>12, <2>3, <3>2, <4>1
        <5>4. ToSet(m.buf) \subseteq Dated
          BY <5>3, CachedDatedNext DEF LiveInv
        <5> QED
          BY <5>1, <5>2, <5>4
      <4> HIDE DEF m, o, f
      <4>4. Alike(m, f)
        BY <4>2, <4>3, AlikeThrough, DatedFacts
      <4> QED
        BY <4>4 DEF m, f
    <3>4. CASE ~Rewrites(p, i)
      BY <1>6, <2>1, <2>3, <3>4
    <3> QED
      BY <3>3, <3>4
  <2> QED
    BY <2>2, <2>3
<1>19. ASSUME NEW id \in DOMAIN files'
       PROVE  \/ id \in DOMAIN files /\ files'[id] = files[id]
              \/ id \in DOMAIN cache_' /\ files'[id] = cache_'[id]
  <2>1. CASE \E i \in 1..n : new[i] = id /\ Rewrites(p, i)
    BY <1>6, <1>7, <1>12, <2>1
  <2>2. CASE ~\E i \in 1..n : new[i] = id /\ Rewrites(p, i)
    BY <1>6, <1>19, <2>2
  <2> QED
    BY <2>1, <2>2
<1>20. ASSUME NEW q \in DOMAIN cache_'
       PROVE  (Do("persist")' /\ Head(todo').id = q) \/ Alike(files'[q], cache_'[q])
  <2>1. CASE q = p
    BY <1>14, <1>15, <2>1 DEF Do
  <2>2. ASSUME NEW i \in 1..n, q = new[i] PROVE Alike(files'[q], cache_'[q])
    <3>1. CASE Rewrites(p, i)
      BY <1>6, <1>11, <1>12, <2>2, <3>1
    <3>2. CASE ~Rewrites(p, i)
      <4>1. i \notin hit
        BY <3>2 DEF Rewrites, hit
      <4>2. q = old[i] /\ made[i] = cache_[q] /\ q \in DOMAIN cache_ \ {p}
        BY <1>7, <1>8, <2>2, <4>1
      <4>3. cache_'[q] = cache_[q] /\ files'[q] = files[q]
        BY <1>6, <1>10, <1>12, <2>2, <3>2, <4>2
      <4> QED
        BY <1>9, <4>2, <4>3
    <3> QED
      BY <3>1, <3>2
  <2>3. CASE q # p /\ \A i \in 1..n : q # new[i]
    <3>1. q \in DOMAIN cache_ \ {p} /\ cache_'[q] = cache_[q]
      BY <1>7, <2>3
    <3>2. files'[q] = files[q]
      BY <1>6, <1>10, <2>3, <3>1
    <3> QED
      BY <1>9, <3>1, <3>2
  <2> QED
    BY <2>1, <2>2, <2>3
<1>21. SavedFilesExist /\ SavedFilesExist'
  BY DEF FilesInv
<1>22. /\ todo # <<>> /\ Known \subseteq Known' /\ IsSeq(ops) /\ Call(ops)
  BY <1>2
<1> QED
  BY <1>3, <1>4, <1>16, <1>17, <1>18, <1>19, <1>20, <1>21, <1>22, ChangeDisk

\* A drain on a tree in memory.
LEMMA DrainNodes ==
  ASSUME LiveInv, TreeInv, todo = <<>>, NEW calls, NEW last, Drain(calls, last),
         UNCHANGED <<manifest_, latest>>
  PROVE  /\ Root \in DOMAIN cache_ /\ ValidInv
         /\ DOMAIN cache_' = DOMAIN cache_ /\ cache_'[Root].buf = Merged
         /\ SameLinks(cache_'[Root], cache_[Root])
         /\ \A q \in DOMAIN cache_ \ {Root} : cache_'[q] = cache_[q]
         /\ Covers(Held', Held) /\ Known' = Known /\ Root' = Root
         /\ todo' = calls \o <<last>> /\ write_buf' = <<>>
<1> DEFINE r == cache_[Root]
           n == [r EXCEPT !.buf = Merged]
           s == r.buf \o write_buf
<1>1. ~Splitting /\ ~Doomed /\ Tree = cache_
  BY TreeIs DEF Splitting, Doomed, Do
<1>2. Root \in DOMAIN cache_ /\ ValidInv
  BY <1>1 DEF TreeInv, Shape
<1>3. Readable(Root) /\ Cached({Root}) = cache_ /\ Node(Root) = r
  BY <1>2, ReadableCached DEF LiveInv
<1>4. cache_' = [cache_ EXCEPT ![Root] = n] /\ write_buf' = <<>> /\ todo' = calls \o <<last>>
  BY <1>3 DEF Drain
<1>5. NodeIn(r, Known, Genuine) /\ Root \notin ToSet(r.kids)
  BY <1>2 DEF LiveInv, CacheInv
<1>6. s \in Seq(Genuine) /\ ToSet(s) = ToSet(r.buf) \cup ToSet(write_buf)
  <2>1. r.buf \in Seq(Genuine) /\ write_buf \in Seq(Genuine)
    BY <1>5 DEF NodeIn, LiveInv, WritesInv
  <2> HIDE DEF r
  <2> QED
    BY <2>1, ToSetConcat
<1>7. Merged = StableSort(s)
  BY <1>3 DEF Merged
<1> HIDE DEF s
<1>8. Merged \in Seq(Genuine) /\ ToSet(Merged) = ToSet(r.buf) \cup ToSet(write_buf)
  BY <1>6, <1>7, SortFacts, GenuineEntries
<1>9. SameLinks(n, r)
  BY <1>5 DEF NodeIn, SameLinks
<1> HIDE DEF r
<1>10. NodeIn(n, Known, Genuine) /\ n.kids = r.kids /\ n.buf = Merged
  BY <1>5, <1>8, BufReplaced
<1> HIDE DEF n
<1>11. Covers(ToSet(n.buf), ToSet(r.buf))
  <2>1. ToSet(r.buf) \subseteq Genuine
    BY <1>5, ToSetFacts DEF NodeIn
  <2>2. \A g \in ToSet(r.buf) : g \in ToSet(n.buf) /\ g.seq <= g.seq
    BY <1>8, <1>10, <2>1, GenuineEntries DEF IsEntries
  <2> QED
    BY <2>2 DEF Covers
<1>12. manifest_'.next = manifest_.next /\ ValidIds(manifest_') \subseteq DOMAIN cache_
  BY DEF LiveInv, CacheInv
<1>13. /\ Known' = Known /\ DOMAIN cache_' = DOMAIN cache_ /\ cache_'[Root] = n
       /\ \A i \in DOMAIN cache_ \ {Root} : cache_'[i] = cache_[i]
       /\ Covers(Held', Held)
  BY <1>2, <1>4, <1>5, <1>10, <1>11, <1>12, NodeReplaced DEF r, LiveInv
<1>14. Root' = Root
  BY DEF Root
<1> QED
  BY <1>2, <1>4, <1>9, <1>10, <1>13, <1>14 DEF r

\* The calls of a drain.
DrainCall(calls, last) ==
  \/ calls = <<>>
  \/ \E x : calls = <<x>> /\ x.op \in {"do_flush", "split_leaf"} /\ x.id = Root
            /\ last.op # "return"
  \/ calls = <<Persist(Root), Save>>

LEMMA TripleIs ==
  ASSUME NEW x, NEW y, NEW z
  PROVE  <<x, y>> \o <<z>> = <<x, y, z>>
<1> DEFINE S == {x, y, z}
           u == <<x, y>>
           v == <<z>>
           w == u \o v
<1>1. u \in Seq(S) /\ v \in Seq(S) /\ Len(u) = 2 /\ Len(v) = 1 /\ u[1] = x /\ u[2] = y /\ v[1] = z
  OBVIOUS
<1> HIDE DEF u, v, S
<1>2. /\ w \in Seq(S) /\ Len(w) = 3 /\ w[1] = x /\ w[2] = y /\ w[3] = z
  <2>1. /\ u \o v \in Seq(S) /\ Len(u \o v) = Len(u) + Len(v)
        /\ \A j \in 1..Len(u) : (u \o v)[j] = u[j]
        /\ \A j \in 1..Len(v) : (u \o v)[Len(u) + j] = v[j]
    <3>1. u \in Seq(S) /\ v \in Seq(S)
      BY ONLY <1>1
    <3> HIDE DEF w
    <3> QED
      BY ONLY <3>1, ConcatIs
  <2>2. 1 \in 1..2 /\ 2 \in 1..2 /\ 1 \in 1..1 /\ 2 + 1 = 3
    OBVIOUS
  <2>3. /\ u \o v \in Seq(S) /\ Len(u \o v) = 3
        /\ (u \o v)[1] = u[1] /\ (u \o v)[2] = u[2] /\ (u \o v)[3] = v[1]
    BY <1>1, <2>1, <2>2
  <2> QED
    BY <1>1, <2>3
<1> HIDE DEF w
<1>3. w = <<x, y, z>>
  BY <1>2
<1> QED
  BY <1>3 DEF u, v, w

LEMMA DrainedCalls ==
  ASSUME NEW calls, NEW last, DrainCall(calls, last), todo' = calls \o <<last>>,
         last.op \in {"done", "return", "closed"}, Root' = Root
  PROVE  /\ todo' # <<>> /\ ~Do("throw")' /\ NextIsSave' /\ ~Saving'
         /\ Lagging' \/ (Do("persist") /\ Head(todo).id = Root)'
         /\ \A x \in ToSet(todo') : x.op = "return" =>
              x = last /\ ((todo' = <<x>> /\ calls = <<>>) \/ todo' = <<Persist(Root'), Save, x>>)
<1>1. CASE calls = <<>>
  <2>1. todo' = <<last>>
    BY <1>1
  <2>2. ToSet(<<last>>) = {last} /\ Head(<<last>>) = last /\ <<last>> # <<>>
    BY OneCalled
  <2> QED
    BY <1>1, <2>1, <2>2 DEF Do, NextIsSave, Saving, Lagging
<1>2. ASSUME NEW x, calls = <<x>>, x.op \in {"do_flush", "split_leaf"}, x.id = Root,
             last.op # "return"
      PROVE  /\ todo' # <<>> /\ ~Do("throw")' /\ NextIsSave' /\ ~Saving' /\ Lagging'
             /\ \A y \in ToSet(todo') : y.op # "return"
  <2>1. todo' = <<x, last>>
    BY <1>2, PairFacts
  <2>2. Head(<<x, last>>) = x /\ <<x, last>> # <<>>
    OBVIOUS
  <2>3. ToSet(<<x, last>>) = {x, last}
    BY DEF ToSet
  <2> QED
    BY <1>2, <2>1, <2>2, <2>3 DEF Do, NextIsSave, Saving, Lagging
<1>3. CASE calls = <<Persist(Root), Save>>
  <2> DEFINE p == Persist(Root)
             s == Save
  <2>1. p.op = "persist" /\ p.id = Root /\ s.op = "save"
    BY DEF Persist, Save
  <2>2. calls = <<p, s>>
    BY <1>3
  <2> HIDE DEF p, s
  <2>3. todo' = <<p, s, last>>
    BY <2>2, TripleIs
  <2>4. Head(<<p, s, last>>) = p /\ Tail(<<p, s, last>>) = <<s, last>> /\ Head(<<s, last>>) = s
        /\ <<p, s, last>> # <<>> /\ <<s, last>> # <<>>
    OBVIOUS
  <2>5. ToSet(<<p, s, last>>) = {p, s, last}
    BY DEF ToSet
  <2>6. \A x \in ToSet(todo') : x.op = "return" => x = last /\ todo' = <<p, s, x>>
    BY <2>1, <2>3, <2>5
  <2>7. \A x : <<p, s, x>> = <<Persist(Root'), Save, x>>
    BY DEF p, s
  <2> QED
    BY <2>1, <2>3, <2>4, <2>6, <2>7 DEF Do, NextIsSave, Saving
<1> QED
  BY <1>1, <1>2, <1>3 DEF DrainCall

LEMMA DrainDisk ==
  ASSUME QueueInv, FilesInv, LiveInv, TreeInv, DiskInv, FilesInv', LiveInv',
         todo = <<>>, NEW calls, NEW last, Drain(calls, last), DrainCall(calls, last),
         UNCHANGED <<manifest_, files, saved, latest, floor>>,
         last.op \in {"done", "return", "closed"},
         last.op = "return" => /\ last.covers = [k \in Keys |-> latest[k].val]
                               /\ calls = <<>> => Merged = <<>>
  PROVE  DiskInv'
<1>1. /\ Root \in DOMAIN cache_ /\ ValidInv
      /\ DOMAIN cache_' = DOMAIN cache_ /\ cache_'[Root].buf = Merged
      /\ SameLinks(cache_'[Root], cache_[Root])
      /\ \A q \in DOMAIN cache_ \ {Root} : cache_'[q] = cache_[q]
      /\ Covers(Held', Held) /\ Known' = Known /\ Root' = Root
      /\ todo' = calls \o <<last>> /\ write_buf' = <<>>
  BY DrainNodes
<1>2. /\ todo' # <<>> /\ ~Do("throw")' /\ NextIsSave' /\ ~Saving'
      /\ Lagging' \/ (Do("persist") /\ Head(todo).id = Root)'
      /\ \A x \in ToSet(todo') : x.op = "return" =>
           x = last /\ ((todo' = <<x>> /\ calls = <<>>) \/ todo' = <<Persist(Root'), Save, x>>)
  BY <1>1, DrainedCalls
<1>3. SavedFilesExist /\ SavedFilesExist' /\ ~Saving /\ ToSet(todo) = {}
      /\ ~Do("persist")
  BY NothingCalled DEF FilesInv, Saving, Do
<1>4. SavedIds' = SavedIds /\ Written' = Written
  <2>1. SavedIds' = SavedIds
    BY DEF SavedIds
  <2> QED
    BY <2>1 DEF Written
<1>5. DatedInv'
  BY DEF DiskInv, DatedInv
<1>6. SavedInv' /\ FloorInv'
  <2>1. \A i \in SavedIds : Alike(files'[i], files[i])
    BY <1>3, SavedSelf DEF DiskInv
  <2> QED
    BY <1>1, <1>3, <1>5, <2>1, DiskKept DEF DiskInv
<1>7. \A q \in DOMAIN cache_ : \/ Alike(files[q], cache_[q])
                               \/ q = Root /\ SameLinks(files[q], cache_[q])
  BY <1>3 DEF DiskInv, SyncInv
<1>8. SyncInv'
  <2> SUFFICES ASSUME NEW q \in DOMAIN cache_
               PROVE  \/ (Do("persist") /\ Head(todo).id = q)'
                      \/ Alike(files[q], cache_'[q])
                      \/ q = Root /\ Lagging' /\ SameLinks(files[q], cache_'[q])
    BY <1>1 DEF SyncInv
  <2>1. CASE q # Root
    BY <1>1, <1>7, <2>1
  <2>2. CASE q = Root
    <3>1. SameLinks(files[q], cache_[q])
      BY <1>7 DEF Alike
    <3>2. SameLinks(files[q], cache_'[q])
      BY <1>1, <2>2, <3>1 DEF SameLinks
    <3> QED
      BY <1>1, <1>2, <2>2, <3>2
  <2> QED
    BY <2>1, <2>2
<1>9. saved # {} /\ SavedIds = ValidIds(manifest_)
  BY <1>3 DEF DiskInv, CleanInv
<1>10. CleanInv'
  BY <1>4, <1>9 DEF CleanInv
<1>11. ReturnInv'
  <2> SUFFICES ASSUME NEW x \in ToSet(todo'), x.op = "return"
               PROVE  /\ todo' = <<x>> \/ todo' = <<Save, x>> \/ todo' = <<Persist(Root'), Save, x>>
                      /\ x.covers \in [Keys -> Nat] /\ Met(x.covers, Held')
                      /\ todo' = <<x>> => Met(x.covers, Written')
    BY DEF ReturnInv, Met
  <2>1. x = last /\ ((todo' = <<x>> /\ calls = <<>>) \/ todo' = <<Persist(Root'), Save, x>>)
    BY <1>2
  <2>2. x.covers = [k \in Keys |-> latest[k].val]
    BY <2>1
  <2>3. \A k \in Keys : latest[k].val \in Nat /\ latest[k].seq = latest[k].val
    BY DEF LiveInv, WritesInv
  <2>4. x.covers \in [Keys -> Nat]
    BY <2>2, <2>3
  <2>5. \A k \in Keys : latest[k].val # NoValue =>
          \E i \in DOMAIN cache_' : \E e \in ToSet(cache_'[i].buf) : e.key = k /\ e.seq = latest[k].seq
    <3> SUFFICES ASSUME NEW k \in Keys, latest[k].val # NoValue
                 PROVE  \E i \in DOMAIN cache_' : \E e \in ToSet(cache_'[i].buf) :
                          e.key = k /\ e.seq = latest[k].seq
      OBVIOUS
    <3>1. \E e \in Pool' : e.key = k /\ e.seq = latest[k].seq
      BY <1>2 DEF LiveInv, NewestKept
    <3>2. ToSet(write_buf') = {}
      BY <1>1, NothingCalled
    <3> QED
      BY <3>1, <3>2 DEF Pool
  <2>6. Met(x.covers, Held')
    <3> SUFFICES ASSUME NEW k \in Keys, latest[k].val # NoValue
                 PROVE  \E e \in Held' : e.key = k /\ latest[k].val <= e.seq
      BY <2>2 DEF Met
    <3>1. PICK i \in DOMAIN cache_' : \E e \in ToSet(cache_'[i].buf) : e.key = k /\ e.seq = latest[k].seq
      BY <2>5
    <3>2. PICK e \in ToSet(cache_'[i].buf) : e.key = k /\ e.seq = latest[k].seq
      BY <3>1
    <3>3. e \in Held'
      BY <3>2 DEF Held
    <3> QED
      BY <2>3, <3>2, <3>3
  <2>7. ASSUME todo' = <<x>> PROVE Met(x.covers, Written)
    <3>1. Merged = <<>>
      <4>1. <<x>> # <<Persist(Root'), Save, x>>
        <5>1. Len(<<x>>) = 1 /\ Len(<<Persist(Root'), Save, x>>) = 3
          OBVIOUS
        <5> QED
          BY <5>1
      <4> QED
        BY <2>1, <2>7, <4>1
    <3> SUFFICES ASSUME NEW k \in Keys, latest[k].val # NoValue
                 PROVE  \E e \in Written : e.key = k /\ latest[k].val <= e.seq
      BY <2>2 DEF Met
    <3>2. PICK i \in DOMAIN cache_' : \E e \in ToSet(cache_'[i].buf) : e.key = k /\ e.seq = latest[k].seq
      BY <2>5
    <3>3. PICK e \in ToSet(cache_'[i].buf) : e.key = k /\ e.seq = latest[k].seq
      BY <3>2
    <3>4. i # Root /\ i \in DOMAIN cache_ /\ cache_'[i] = cache_[i]
      BY <1>1, <3>1, <3>3, NothingCalled
    <3>5. Covers(ToSet(files[i].buf), ToSet(cache_[i].buf))
      BY <1>7, <3>4 DEF Alike
    <3>6. PICK f \in ToSet(files[i].buf) : f.key = e.key /\ e.seq <= f.seq
      BY <3>3, <3>4, <3>5 DEF Covers
    <3>7. i \in SavedIds
      BY <1>1, <1>9, <3>4 DEF ValidInv
    <3>8. f \in Written
      BY <3>6, <3>7 DEF Written
    <3> QED
      BY <2>3, <3>3, <3>6, <3>8
  <2> QED
    BY <1>4, <2>1, <2>4, <2>6, <2>7
<1> QED
  BY <1>2, <1>5, <1>6, <1>8, <1>10, <1>11 DEF DiskInv

\* Steps of the clients.
LEMMA ClientDisk ==
  ASSUME QueueInv, FilesInv, LiveInv, TreeInv, DiskInv, FilesInv', LiveInv', Client
  PROVE  DiskInv'
<1>1. ASSUME NEW k \in Keys, Get(k) PROVE DiskInv'
  <2>1. cache_' = cache_
    BY <1>1, ReadableCached DEF Get, LiveInv
  <2>2. UNCHANGED <<cache_, manifest_, files, saved, floor, todo>>
    BY <1>1, <2>1 DEF Get, disk, history
  <2> QED
    BY <2>2, QuietDisk
<1>2. ASSUME NEW k \in Keys, remove(k) \/ \E sz \in Sizes : insert(k, sz) PROVE DiskInv'
  <2>1. UNCHANGED <<cache_, manifest_, files, saved, floor, todo>>
    BY <1>2 DEF remove, insert, Write, memory, disk
  <2> QED
    BY <2>1, QuietDisk
<1>3. CASE RequestFlush
  <2>1. UNCHANGED <<cache_, manifest_, files, saved, floor, todo>>
    BY <1>3 DEF RequestFlush, memory, disk, history
  <2> QED
    BY <2>1, QuietDisk
<1>4. CASE BackgroundFlush
  <2> DEFINE over == OnOverflow(Root, Node(Root), <<Root>>)
             calls == IF buffer_full(Merged) THEN over ELSE <<>>
             last == [op |-> "done"]
             f == [op |-> "do_flush", id |-> Root]
             l == [op |-> "split_leaf", id |-> Root, path |-> <<Root>>]
  <2>1. Drain(calls, last) /\ todo = <<>> /\ UNCHANGED <<manifest_, files, saved, latest, floor>>
    BY <1>4 DEF BackgroundFlush, disk, history
  <2>2. calls = <<>> \/ calls = <<f>> \/ calls = <<l>>
    BY DEF OnOverflow
  <2>3. f.op = "do_flush" /\ f.id = Root /\ l.op = "split_leaf" /\ l.id = Root /\ last.op = "done"
    OBVIOUS
  <2> HIDE DEF calls, f, l, last
  <2>4. DrainCall(calls, last)
    BY <2>2, <2>3 DEF DrainCall
  <2> QED
    BY <2>1, <2>3, <2>4, DrainDisk
<1>5. ASSUME NEW end \in {"return", "closed"}, PersistRoot(end) PROVE DiskInv'
  <2> DEFINE last == [op |-> end, covers |-> [k \in Keys |-> latest[k].val]]
  <2>1. Drain(RootWrites, last) /\ todo = <<>> /\ UNCHANGED <<manifest_, files, saved, latest, floor>>
    BY <1>5 DEF PersistRoot, disk, history
  <2>2. last.op = end /\ last.covers = [k \in Keys |-> latest[k].val]
    OBVIOUS
  <2> HIDE DEF last
  <2>3. DrainCall(RootWrites, last) /\ (RootWrites = <<>> => Merged = <<>>)
    BY DEF DrainCall, RootWrites
  <2> QED
    BY <1>5, <2>1, <2>2, <2>3, DrainDisk
<1> QED
  BY <1>1, <1>2, <1>3, <1>4, <1>5 DEF Client, Flush, Close

LEMMA WorkDisk ==
  ASSUME QueueInv, FilesInv, LiveInv, TreeInv, DiskInv, FilesInv', LiveInv', Client \/ Work
  PROVE  DiskInv'
<1>1. Client => DiskInv'
  BY ClientDisk
<1>2. DoFlush => DiskInv'
  BY DoFlushDisk
<1>3. Done \/ Opened \/ CheckChild => DiskInv'
  BY QuietWorkDisk
<1>4. Return => DiskInv'
  BY ReturnDisk
<1>5. CollectGarbage => DiskInv'
  BY GarbageDisk
<1>6. PersistNode => DiskInv'
  BY PersistDisk
<1>7. SaveManifest => DiskInv'
  BY SaveDisk
<1>8. InsertChild => DiskInv'
  BY InsertChildDisk
<1>9. SplitLeaf => DiskInv'
  BY SplitLeafDisk
<1>10. SplitParent => DiskInv'
  BY SplitParentDisk
<1> QED
  BY <1>1, <1>2, <1>3, <1>4, <1>5, <1>6, <1>7, <1>8, <1>9, <1>10 DEF Work

\* The first open writes the file of the empty root and goes on to save the manifest.
LEMMA FirstDisk ==
  ASSUME Unborn, DOMAIN files = {}, floor = [k \in Keys |-> NoValue], EnsureRoot, LiveInv'
  PROVE  DiskInv'
<1> DEFINE r == load(saved).next
           root == create(0, <<>>, <<>>)
           o == [op |-> "opened"]
<1>1. /\ saved = {} /\ saved' = saved /\ floor' = floor /\ todo' = <<Save, o>>
      /\ cache_' = [id \in {r} |-> root]
      /\ files' = [id \in DOMAIN files \cup {r} |-> IF id = r THEN root ELSE files[id]]
  BY DEF EnsureRoot, Load, Unborn
<1> HIDE DEF r, root
<1>2. DOMAIN cache_' = {r} /\ DOMAIN files' = {r} /\ files'[r] = cache_'[r]
  BY <1>1
<1>3. ToSet(todo') = {Save, o} /\ Head(todo') = Save /\ todo' # <<>>
  <2>1. ToSet(<<Save, o>>) = {Save, o}
    BY DEF ToSet
  <2> QED
    BY <1>1, <2>1, PairFacts
<1>4. Save.op = "save" /\ o.op = "opened"
  BY DEF Save
<1> HIDE DEF o
<1>5. \A q \in DOMAIN cache_' : ToSet(cache_'[q].buf) \subseteq Dated
  BY CachedDatedNext DEF LiveInv
<1>6. SavedInv'
  BY <1>1 DEF SavedInv
<1>7. SyncInv'
  <2>1. \A q \in DOMAIN cache_' : Alike(files'[q], cache_'[q])
    BY <1>2, <1>5, AlikeSelf, DatedFacts
  <2> QED
    BY <2>1 DEF SyncInv
<1>8. DatedInv'
  BY <1>2, <1>5 DEF DatedInv
<1>9. NextIsSave' /\ CleanInv' /\ ReturnInv'
  BY <1>3, <1>4 DEF NextIsSave, CleanInv, ReturnInv, Do
<1>10. FloorInv'
  <2>1. floor' \in [Keys -> Nat] /\ \A k \in Keys : floor'[k] = NoValue
    BY <1>1 DEF NoValue
  <2> QED
    BY <2>1 DEF FloorInv, Met
<1> QED
  BY <1>6, <1>7, <1>8, <1>9, <1>10 DEF DiskInv

\* No flush() has covered anything before the first open.
DiskFirst ==
  /\ session = 0 => floor = [k \in Keys |-> NoValue]
  /\ Alive => DiskInv

LEMMA DiskNext ==
  ASSUME QueueInv, FilesInv, ScanInv, ShapeInv, DiskFirst, FilesInv', ScanInv', [FaultNext]_vars
  PROVE  DiskFirst'
<1>1. CASE UNCHANGED vars
  <2>1. UNCHANGED <<cache_, manifest_, files, saved, floor, todo>>
        /\ UNCHANGED <<session, status, threw>>
    BY <1>1 DEF vars, memory, disk, life, history
  <2> QED
    BY <2>1, QuietDisk DEF DiskFirst, Alive
<1>2. CASE Client \/ Work
  <2>1. session' = session /\ threw' = threw /\ status # "down"
    BY <1>2, WorkGoesOn
  <2>2. session # 0
    BY <2>1 DEF ScanInv, Unborn
  <2>3. Alive' => LiveInv /\ TreeInv /\ DiskInv /\ LiveInv'
    BY <2>1 DEF ScanInv, ShapeInv, DiskFirst, Alive
  <2>4. Alive' => DiskInv'
    BY <1>2, <2>3, WorkDisk
  <2> QED
    BY <2>1, <2>2, <2>4 DEF DiskFirst
<1>3. CASE Ending
  <2>1. session' = session /\ (status' = "down" \/ threw') /\ status # "down"
    BY <1>3, EndingEnds
  <2>2. session # 0 /\ ~Alive'
    BY <2>1 DEF ScanInv, Unborn, Alive
  <2> QED
    BY <2>1, <2>2 DEF DiskFirst
<1>4. CASE Open \/ EnsureRoot
  <2>1. session' # 0 /\ (Alive' => session = 0 /\ Unborn /\ EnsureRoot)
    <3>1. session \in Nat /\ session' = session + 1
      BY <1>4, FirstSession
    <3> QED
      BY <1>4, <3>1, FirstSession
  <2>2. Alive' => LiveInv'
    BY DEF ScanInv
  <2> QED
    BY <2>1, <2>2, FirstDisk DEF DiskFirst, ShapeInv
<1> QED
  BY <1>1, <1>2, <1>3, <1>4, AllSteps

LEMMA DiskInvariant == FaultSpec => [](FilesInv /\ ScanInv /\ ShapeInv /\ DiskFirst)
<1>1. Init => DiskFirst
  BY DEF Init, DiskFirst, Alive
<1>2. QueueInv /\ FilesInv /\ ScanInv /\ ShapeInv /\ DiskFirst /\ FilesInv' /\ ScanInv'
        /\ [FaultNext]_vars => DiskFirst'
  BY DiskNext
<1> QED
  BY <1>1, <1>2, TreeInvariant, FilesInvariant, PTL DEF FaultSpec

\* What the invariant says about the tree on disk.
LEMMA DiskTreeIs ==
  ASSUME FilesInv, DiskInv, saved # {}, ~Saving
  PROVE  DurableReach = SavedIds /\ OnDisk = SavedIds
<1>1. SavedFilesExist /\ Shape(SavedTree, SavedRoot)
  BY DEF FilesInv, DiskInv, SavedInv
<1> QED
  BY <1>1, DurableReachIs

\* A crash leaves a tree: at every moment of the session that built the tree, until
\* something is thrown, but for those right before a save of the manifest, every node that a process opening the directory
\* would be led to has its file (tree.cpp:379, tree.cpp:444, manifest.cpp:112): for
\* every fanout, buffer size, sequence of writes and splits, however deep.
THEOREM AlwaysRecoverable == FaultSpec => [](Alive => Recoverable)
<1>1. FilesInv /\ DiskFirst => (Alive => Recoverable)
  <2> SUFFICES ASSUME FilesInv, DiskInv, ~Saving, saved # {} PROVE DurableReach \subseteq OnDisk
    BY DEF Recoverable, DiskFirst
  <2> QED
    BY DiskTreeIs
<1> QED
  BY <1>1, DiskInvariant, PTL

\* The manifest file always names a root that it also lists as a valid node
\* (tree.cpp:136, manifest.cpp:57), in the session that built the tree until something
\* is thrown.
THEOREM SavedRootListed == FaultSpec => [](Alive => SavedRootValid)
<1>1. DiskFirst => (Alive => SavedRootValid)
  BY DEF DiskFirst, DiskInv, SavedInv, SavedRootValid, SavedRoot, SavedIds
<1> QED
  BY <1>1, DiskInvariant, PTL

\* A flush() is durable: what one that has returned covered, or a newer write of the
\* same key, is in a file that the tree on disk leads to, whatever flushes and splits
\* have started or ended since (tree.h:78, tree.cpp:308), at every moment of the
\* session that built the tree, until something is thrown, but for those right before
\* a save of the manifest.
THEOREM FlushIsDurable == FaultSpec => [](Alive => Durable)
<1>1. FilesInv /\ DiskFirst => (Alive => Durable)
  <2> SUFFICES ASSUME FilesInv, DiskInv, ~Saving, NEW k \in Keys, floor[k] # NoValue
               PROVE  \E id \in DurableReach \cap OnDisk : \E e \in ToSet(files[id].buf) :
                        e.key = k /\ e.val >= floor[k]
    BY DEF Durable, DiskFirst
  <2>1. floor \in [Keys -> Nat] /\ Met(floor, Written) /\ SavedFilesExist /\ DatedInv
    BY DEF DiskInv, FloorInv, FilesInv
  <2>2. PICK e \in Written : e.key = k /\ floor[k] <= e.seq
    BY <2>1 DEF Met
  <2>3. PICK id \in SavedIds : e \in ToSet(files[id].buf)
    BY <2>2 DEF Written
  <2>4. saved # {}
    BY <2>3, NothingSaved DEF SavedIds
  <2>5. id \in DurableReach \cap OnDisk
    BY <2>3, <2>4, DiskTreeIs
  <2>6. e \in Dated
    BY <2>1, <2>2, WrittenDated
  <2>7. e.val >= floor[k]
    BY <2>1, <2>2, <2>6 DEF Dated
  <2> QED
    BY <2>2, <2>3, <2>5, <2>7
<1> QED
  BY <1>1, DiskInvariant, PTL
=============================================================================
