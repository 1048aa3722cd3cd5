----------------------------- MODULE TreeProofs -----------------------------
(***************************************************************************)
(* Proofs about the tree engine, with failing writes, crashes and          *)
(* exceptions: what the manifest file promises about the node files; and   *)
(* that range_scan finds every live key in the session that built the      *)
(* tree.  No merge, flush or split loses the newest version of a key, and  *)
(* the cache holds every node.  That argument needs nothing of the tree's  *)
(* shape; it follows the entries through the buffers of the cached nodes.  *)
(***************************************************************************)
EXTENDS TreeFaults, EntriesProofs

-----------------------------------------------------------------------------
(* Manifests *)

\* A manifest as a record, its nodes a map from ids to valid flags.
Shaped(m) == m \in [root : {m.root}, next : {m.next}, nodes : [DOMAIN m.nodes -> BOOLEAN]]

LEMMA NodesReplaced ==
  ASSUME NEW m, Shaped(m), NEW f, f \in [DOMAIN f -> BOOLEAN]
  PROVE  /\ Shaped([m EXCEPT !.nodes = f])
         /\ [m EXCEPT !.nodes = f].nodes = f
         /\ [m EXCEPT !.nodes = f].root = m.root /\ [m EXCEPT !.nodes = f].next = m.next
<1> DEFINE n == [m EXCEPT !.nodes = f]
<1>1. n.nodes = f /\ n.root = m.root /\ n.next = m.next
  BY DEF Shaped
<1>2. n \in [root : {m.root}, next : {m.next}, nodes : [DOMAIN f -> BOOLEAN]]
  BY DEF Shaped
<1> HIDE DEF n
<1>3. Shaped(n)
  BY <1>1, <1>2 DEF Shaped
<1> QED
  BY <1>1, <1>3 DEF n

LEMMA RegisterFacts ==
  ASSUME NEW m, Shaped(m), NEW ids
  PROVE  /\ Shaped(register(m, ids))
         /\ ValidIds(register(m, ids)) = ValidIds(m) \cup ids
         /\ DOMAIN register(m, ids).nodes = DOMAIN m.nodes \cup ids
         /\ register(m, ids).root = m.root /\ register(m, ids).next = m.next
<1> DEFINE f == [i \in DOMAIN m.nodes \cup ids |-> i \in ids \/ m.nodes[i]]
<1>1. f \in [DOMAIN f -> BOOLEAN] /\ DOMAIN f = DOMAIN m.nodes \cup ids
  OBVIOUS
<1>2. register(m, ids) = [m EXCEPT !.nodes = f]
  BY DEF register, Shaped
<1>3. \A i \in DOMAIN f : f[i] <=> i \in ids \/ (i \in DOMAIN m.nodes /\ m.nodes[i])
  OBVIOUS
<1> HIDE DEF f
<1>4. /\ Shaped([m EXCEPT !.nodes = f])
      /\ [m EXCEPT !.nodes = f].nodes = f
      /\ [m EXCEPT !.nodes = f].root = m.root /\ [m EXCEPT !.nodes = f].next = m.next
  BY <1>1, NodesReplaced
<1> QED
  BY <1>1, <1>2, <1>3, <1>4 DEF ValidIds

LEMMA InvalidateFacts ==
  ASSUME NEW m, Shaped(m), NEW ids
  PROVE  /\ Shaped(invalidate(m, ids))
         /\ ValidIds(invalidate(m, ids)) = ValidIds(m) \ ids
         /\ DOMAIN invalidate(m, ids).nodes = DOMAIN m.nodes
         /\ invalidate(m, ids).root = m.root /\ invalidate(m, ids).next = m.next
<1> DEFINE f == [i \in DOMAIN m.nodes |-> m.nodes[i] /\ i \notin ids]
<1>1. f \in [DOMAIN f -> BOOLEAN] /\ DOMAIN f = DOMAIN m.nodes
  OBVIOUS
<1>2. invalidate(m, ids) = [m EXCEPT !.nodes = f]
  BY DEF invalidate, Shaped
<1>3. \A i \in DOMAIN f : f[i] <=> m.nodes[i] /\ i \notin ids
  OBVIOUS
<1> HIDE DEF f
<1>4. /\ Shaped([m EXCEPT !.nodes = f])
      /\ [m EXCEPT !.nodes = f].nodes = f
      /\ [m EXCEPT !.nodes = f].root = m.root /\ [m EXCEPT !.nodes = f].next = m.next
  BY <1>1, NodesReplaced
<1> QED
  BY <1>1, <1>2, <1>3, <1>4 DEF ValidIds

LEMMA TakeIdsFacts ==
  ASSUME NEW m, Shaped(m), NEW n
  PROVE  /\ Shaped(take_ids(m, n)) /\ ValidIds(take_ids(m, n)) = ValidIds(m)
         /\ take_ids(m, n).nodes = m.nodes /\ take_ids(m, n).root = m.root
         /\ take_ids(m, n).next = m.next + n
<1>1. /\ take_ids(m, n).nodes = m.nodes /\ take_ids(m, n).root = m.root
      /\ take_ids(m, n).next = m.next + n
  BY DEF take_ids, Shaped
<1>2. take_ids(m, n) \in
        [root : {m.root}, next : {m.next + n}, nodes : [DOMAIN m.nodes -> BOOLEAN]]
  BY DEF take_ids, Shaped
<1> QED
  BY <1>1, <1>2 DEF Shaped, ValidIds

LEMMA SetRootFacts ==
  ASSUME NEW m, Shaped(m), NEW id
  PROVE  /\ Shaped(set_root(m, id)) /\ ValidIds(set_root(m, id)) = ValidIds(m)
         /\ set_root(m, id).nodes = m.nodes /\ set_root(m, id).root = id
         /\ set_root(m, id).next = m.next
<1>1. /\ set_root(m, id).nodes = m.nodes /\ set_root(m, id).root = id
      /\ set_root(m, id).next = m.next
  BY DEF set_root, Shaped
<1>2. set_root(m, id) \in [root : {id}, next : {m.next}, nodes : [DOMAIN m.nodes -> BOOLEAN]]
  BY DEF set_root, Shaped
<1> QED
  BY <1>1, <1>2 DEF Shaped, ValidIds

LEMMA ForgetFacts ==
  ASSUME NEW m, Shaped(m), NEW id \in InvalidIds(m)
  PROVE  /\ Shaped(forget(m, id)) /\ ValidIds(forget(m, id)) = ValidIds(m)
         /\ DOMAIN forget(m, id).nodes = DOMAIN m.nodes \ {id}
         /\ InvalidIds(forget(m, id)) = InvalidIds(m) \ {id}
         /\ forget(m, id).root = m.root /\ forget(m, id).next = m.next
<1> DEFINE f == [i \in DOMAIN m.nodes \ {id} |-> m.nodes[i]]
<1>1. f \in [DOMAIN f -> BOOLEAN] /\ DOMAIN f = DOMAIN m.nodes \ {id}
  BY DEF Shaped
<1>2. forget(m, id) = [m EXCEPT !.nodes = f]
  BY DEF forget, Shaped, Restrict
<1>3. \A i \in DOMAIN f : f[i] <=> m.nodes[i]
  OBVIOUS
<1> HIDE DEF f
<1>4. /\ Shaped([m EXCEPT !.nodes = f])
      /\ [m EXCEPT !.nodes = f].nodes = f
      /\ [m EXCEPT !.nodes = f].root = m.root /\ [m EXCEPT !.nodes = f].next = m.next
  BY <1>1, NodesReplaced
<1>5. id \in DOMAIN m.nodes /\ ~m.nodes[id]
  BY DEF InvalidIds, ValidIds
<1>6. ValidIds(forget(m, id)) = ValidIds(m)
  BY <1>1, <1>2, <1>3, <1>4, <1>5 DEF ValidIds
<1> QED
  BY <1>1, <1>2, <1>4, <1>6 DEF InvalidIds

\* Whatever the lines are, a loaded manifest is one.
LEMMA LoadFacts ==
  ASSUME NEW lines
  PROVE  Shaped(load(lines)) /\ ValidIds(load(lines)) = ValidIds([nodes |-> NodesOf(lines)])
<1> DEFINE root == IdOr(lines, "ROOT", INVALID_NODE_ID)
           next == Max({IdOr(lines, "NEXT_ID", 1)} \cup {i + 1 : i \in IdsOf(lines, "NODE")})
           nodes == NodesOf(lines)
<1>1. load(lines) = [root |-> root, next |-> next, nodes |-> nodes]
  BY DEF load
<1>2. nodes \in [DOMAIN nodes -> BOOLEAN]
  BY DEF NodesOf
<1> HIDE DEF root, next, nodes
<1> QED
  BY <1>1, <1>2 DEF Shaped, ValidIds, nodes

\* A manifest that is saved and loaded again has the same valid nodes.
LEMMA SaveLoad ==
  ASSUME NEW m, Shaped(m)
  PROVE  ValidIds(load(save(m))) = ValidIds(m)
<1> DEFINE lines == save(m)
           D == IdsOf(lines, "NODE")
<1>1. \A i \in DOMAIN m.nodes : Line("NODE", i, m.nodes[i]) \in lines
  BY DEF save
<1>2. \A l \in lines : l.token = "NODE" => \E i \in DOMAIN m.nodes : l = Line("NODE", i, m.nodes[i])
  BY DEF save, Line
<1>3. D = {l.id : l \in {x \in lines : x.token = "NODE"}}
  BY DEF IdsOf
<1> HIDE DEF lines
<1>4. D = DOMAIN m.nodes
  <2>1. ASSUME NEW i \in D PROVE i \in DOMAIN m.nodes
    <3>1. PICK l \in lines : l.token = "NODE" /\ l.id = i
      BY <1>3
    <3>2. PICK j \in DOMAIN m.nodes : l = Line("NODE", j, m.nodes[j])
      BY <1>2, <3>1
    <3> QED
      BY <3>1, <3>2 DEF Line
  <2>2. ASSUME NEW i \in DOMAIN m.nodes PROVE i \in D
    <3> DEFINE l == Line("NODE", i, m.nodes[i])
    <3>1. l \in lines /\ l.token = "NODE" /\ l.id = i
      BY <1>1 DEF Line
    <3> HIDE DEF l
    <3> QED
      BY <1>3, <3>1
  <2> QED
    BY <2>1, <2>2
<1>5. \A i \in DOMAIN m.nodes : Line("NODE", i, TRUE) \in lines <=> m.nodes[i]
  <2> SUFFICES ASSUME NEW i \in DOMAIN m.nodes
               PROVE  Line("NODE", i, TRUE) \in lines <=> m.nodes[i]
    OBVIOUS
  <2>1. m.nodes[i] \in BOOLEAN
    BY DEF Shaped
  <2>2. CASE m.nodes[i]
    <3>1. m.nodes[i] = TRUE
      BY <2>2
    <3> QED
      BY <1>1, <2>2, <3>1
  <2>3. ASSUME Line("NODE", i, TRUE) \in lines PROVE m.nodes[i]
    <3>1. Line("NODE", i, TRUE).token = "NODE"
      BY DEF Line
    <3>2. PICK j \in DOMAIN m.nodes : Line("NODE", i, TRUE) = Line("NODE", j, m.nodes[j])
      BY <1>2, <2>3, <3>1
    <3>3. i = j /\ m.nodes[j] = TRUE
      BY <3>2 DEF Line
    <3> QED
      BY <3>3
  <2> QED
    BY <2>2, <2>3
<1> DEFINE nodes == NodesOf(lines)
<1>6. DOMAIN nodes = DOMAIN m.nodes /\ \A i \in DOMAIN m.nodes : nodes[i] <=> m.nodes[i]
  BY <1>4, <1>5 DEF NodesOf
<1>7. ValidIds(load(lines)) = {i \in DOMAIN nodes : nodes[i]}
  BY LoadFacts DEF ValidIds
<1> HIDE DEF nodes
<1>8. ValidIds(load(lines)) = ValidIds(m)
  BY <1>6, <1>7 DEF ValidIds
<1> QED
  BY <1>8 DEF lines

-----------------------------------------------------------------------------
(* The calls pending under cache_mu_ *)

IsSeq(s) == s \in Seq(ToSet(s))

\* In s, a gc comes directly after a save; the first call may be one.
GcOrdered(s) == \A i \in 2..Len(s) : s[i].op = "gc" => s[i - 1].op = "save"

\* A sequence of calls in which the first is no gc either.
Calls(s) == IsSeq(s) /\ GcOrdered(s) /\ (s # <<>> => s[1].op # "gc")

LEMMA SeqFacts ==
  ASSUME NEW s, IsSeq(s)
  PROVE  Len(s) \in Nat /\ DOMAIN s = 1..Len(s) /\ (s # <<>> => Len(s) > 0 /\ Head(s) = s[1])
BY EmptySeq DEF IsSeq

LEMMA CallsConcat ==
  ASSUME NEW s, NEW t, Calls(s), Calls(t)
  PROVE  Calls(s \o t)
<1> DEFINE E == ToSet(s) \cup ToSet(t)
           u == s \o t
<1>1. s \in Seq(E) /\ t \in Seq(E)
  BY DEF Calls, IsSeq
<1> HIDE DEF E
<1>2. u \in Seq(E) /\ ToSet(u) = E
  BY <1>1, ToSetConcat DEF E
<1>3. IsSeq(u)
  BY <1>2 DEF IsSeq
<1>4. /\ Len(u) = Len(s) + Len(t) /\ Len(s) \in Nat /\ Len(t) \in Nat
      /\ \A i \in 1..Len(s) : u[i] = s[i]
      /\ \A i \in Len(s) + 1..Len(u) : u[i] = t[i - Len(s)]
  BY <1>1
<1> HIDE DEF u
<1>5. \A i \in 1..Len(s) : s[i].op = "gc" => i > 1 /\ s[i - 1].op = "save"
  <2> SUFFICES ASSUME NEW i \in 1..Len(s), s[i].op = "gc" PROVE i > 1 /\ s[i - 1].op = "save"
    OBVIOUS
  <2>1. s # <<>>
    BY <1>1
  <2>2. i # 1
    BY <2>1 DEF Calls
  <2> QED
    BY <1>4, <2>2 DEF Calls, GcOrdered
<1>6. \A i \in 1..Len(t) : t[i].op = "gc" => i > 1 /\ t[i - 1].op = "save"
  <2> SUFFICES ASSUME NEW i \in 1..Len(t), t[i].op = "gc" PROVE i > 1 /\ t[i - 1].op = "save"
    OBVIOUS
  <2>1. t # <<>>
    BY <1>1
  <2>2. i # 1
    BY <2>1 DEF Calls
  <2> QED
    BY <1>4, <2>2 DEF Calls, GcOrdered
<1>7. ASSUME NEW i \in 1..Len(u), u[i].op = "gc" PROVE i > 1 /\ u[i - 1].op = "save"
  <2>1. CASE i \in 1..Len(s)
    <3>1. i > 1 /\ s[i - 1].op = "save"
      BY <1>4, <1>5, <1>7, <2>1
    <3>2. i - 1 \in 1..Len(s)
      BY <1>4, <2>1, <3>1
    <3> QED
      BY <1>4, <3>1, <3>2
  <2>2. CASE i \in Len(s) + 1..Len(u)
    <3>1. i - Len(s) \in 1..Len(t) /\ t[i - Len(s)].op = "gc"
      BY <1>4, <1>7, <2>2
    <3>2. i - Len(s) > 1 /\ t[i - Len(s) - 1].op = "save"
      BY <1>6, <3>1
    <3>3. i - 1 \in Len(s) + 1..Len(u) /\ (i - 1) - Len(s) = i - Len(s) - 1
      BY <1>4, <2>2, <3>2
    <3> QED
      BY <1>4, <2>2, <3>2, <3>3
  <2> QED
    BY <1>4, <2>1, <2>2
<1>8. u # <<>> => 1 \in 1..Len(u)
  BY <1>2, <1>4
<1>9. GcOrdered(u)
  BY <1>4, <1>7 DEF GcOrdered
<1>10. u # <<>> => u[1].op # "gc"
  BY <1>7, <1>8
<1> QED
  BY <1>3, <1>9, <1>10 DEF Calls, u

LEMMA CallsOne ==
  ASSUME NEW x, x.op # "gc"
  PROVE  Calls(<<x>>)
<1>1. ToSet(<<x>>) = {x} /\ Len(<<x>>) = 1 /\ <<x>>[1] = x
  BY DEF ToSet
<1> QED
  BY <1>1 DEF Calls, IsSeq, GcOrdered

LEMMA CallsNone == Calls(<<>>)
BY DEF Calls, IsSeq, GcOrdered, ToSet

LEMMA CallsCommit == Calls(Commit)
<1> DEFINE s == <<Save, Gc>>
<1>1. Commit = s /\ s[1] = Save /\ s[2] = Gc /\ Len(s) = 2 /\ s # <<>>
  BY DEF Commit
<1>2. s \in Seq({Save, Gc})
  OBVIOUS
<1>3. ToSet(s) = {Save, Gc}
  BY DEF ToSet
<1>4. Save.op = "save" /\ Gc.op = "gc"
  BY DEF Save, Gc
<1> HIDE DEF s
<1>5. \A i \in 2..Len(s) : i = 2 /\ i - 1 = 1
  BY <1>1
<1> QED
  BY <1>1, <1>2, <1>3, <1>4, <1>5 DEF Calls, IsSeq, GcOrdered

\* What is left once the head, no save, has been executed.
LEMMA CallsTail ==
  ASSUME NEW s, IsSeq(s), GcOrdered(s), s # <<>>, Head(s).op # "save"
  PROVE  Calls(Tail(s))
<1> DEFINE t == Tail(s)
           E == ToSet(s)
<1>1. /\ s \in Seq(E) /\ t \in Seq(E) /\ Len(s) \in Nat /\ Len(t) = Len(s) - 1
      /\ \A i \in 1..Len(t) : t[i] = s[i + 1]
  BY HeadTailProperties DEF IsSeq
<1>2. Head(s) = s[1]
  OBVIOUS
<1> HIDE DEF t, E
<1>3. t \in Seq(ToSet(t))
  BY <1>1, ToSetFacts
<1>4. ASSUME NEW i \in 1..Len(t), t[i].op = "gc" PROVE i > 1 /\ t[i - 1].op = "save"
  <2>1. i + 1 \in 2..Len(s) /\ s[i + 1].op = "gc" /\ (i + 1) - 1 = i
    BY <1>1, <1>4
  <2>2. s[i].op = "save"
    BY <2>1 DEF GcOrdered
  <2>3. i # 1
    BY <1>2, <2>2
  <2>4. i > 1 /\ i - 1 \in 1..Len(t) /\ (i - 1) + 1 = i
    BY <1>1, <2>3
  <2> QED
    BY <1>1, <2>2, <2>4
<1>5. t # <<>> => 1 \in 1..Len(t)
  BY <1>1
<1> QED
  BY <1>1, <1>3, <1>4, <1>5 DEF Calls, IsSeq, GcOrdered, t

-----------------------------------------------------------------------------
(* What the manifest file names exists *)

QueueInv ==
  /\ IsSeq(todo) /\ GcOrdered(todo)
  /\ status = "down" => todo = <<>>

\* The nodes that are valid in memory have files, and those valid in the manifest
\* file; when a gc is about to delete files, the manifest file names none of them.
FilesInv ==
  /\ Shaped(manifest_)
  /\ ValidIds(manifest_) \subseteq DOMAIN files
  /\ SavedFilesExist
  /\ Do("gc") => ValidIds(load(saved)) \cap InvalidIds(manifest_) = {}

\* A step that deletes no file and registers only nodes that have one.
Grows ==
  /\ Shaped(manifest_') /\ ValidIds(manifest_') \subseteq DOMAIN files'
  /\ DOMAIN files \subseteq DOMAIN files' /\ saved' = saved

\* Such a step, with calls pending that do not begin with a gc, is harmless.
LEMMA GrowsKeeps ==
  ASSUME FilesInv, Grows, Calls(todo'), status' = "down" => todo' = <<>>
  PROVE  QueueInv' /\ FilesInv'
<1>1. IsSeq(todo') /\ GcOrdered(todo') /\ (todo' # <<>> => Head(todo').op # "gc")
  BY SeqFacts DEF Calls
<1>2. QueueInv'
  BY <1>1 DEF QueueInv
<1>3. ~Do("gc")'
  BY <1>1 DEF Do
<1>4. SavedFilesExist'
  BY DEF FilesInv, Grows, SavedFilesExist
<1> QED
  BY <1>2, <1>3, <1>4 DEF FilesInv, Grows

\* Nothing in the manifest or on disk changes.
LEMMA SameGrows ==
  ASSUME FilesInv, UNCHANGED <<manifest_, files, saved>>
  PROVE  Grows
BY DEF FilesInv, Grows

\* The pending calls after one that was no save.
LEMMA CallKeeps ==
  ASSUME QueueInv, NEW op, Do(op), op # "save", NEW ops, Calls(ops), Call(ops)
  PROVE  Calls(todo') /\ status # "down" /\ todo # <<>>
<1>1. todo # <<>> /\ Head(todo).op # "save"
  BY DEF Do
<1>2. Calls(Tail(todo))
  BY <1>1, CallsTail DEF QueueInv
<1> QED
  BY <1>1, <1>2, CallsConcat DEF Call, QueueInv

\* local_flush and the refresh loop of do_flush, complete or cut off.
LEMMA FlushChildrenGrows ==
  ASSUME FilesInv, NEW p, NEW stop, FlushChildren(p, stop), saved' = saved
  PROVE  Grows
<1> DEFINE old  == cache_[p].kids
           hit  == HitBy(p)
           new  == NewKids(p)
           made == MadeKids(p)
           done == {i \in DOMAIN old : i < stop}
           fresh == {new[i] : i \in hit}
           written == {new[i] : i \in hit \cup {j \in done : made[j].kids # <<>>}}
           gone == {old[i] : i \in hit}
           m1 == register(manifest_, fresh)
           m2 == invalidate(m1, gone)
           m3 == register(m2, written)
           m4 == take_ids(m3, Cardinality(hit))
<1>1. manifest_' = m4
  BY Zenon DEF FlushChildren
<1>2. DOMAIN files' = DOMAIN files \cup written
  BY DEF FlushChildren
<1>3. fresh \subseteq written
  OBVIOUS
<1> HIDE DEF fresh, written, gone, hit
<1>4. Shaped(m1) /\ ValidIds(m1) = ValidIds(manifest_) \cup fresh
  BY RegisterFacts DEF FilesInv
<1> HIDE DEF m1
<1>5. Shaped(m2) /\ ValidIds(m2) = ValidIds(m1) \ gone
  BY <1>4, InvalidateFacts
<1> HIDE DEF m2
<1>6. Shaped(m3) /\ ValidIds(m3) = ValidIds(m2) \cup written
  BY <1>5, RegisterFacts
<1> HIDE DEF m3
<1>7. Shaped(m4) /\ ValidIds(m4) = ValidIds(m3)
  BY <1>6, TakeIdsFacts
<1> HIDE DEF m4
<1> QED
  BY <1>1, <1>2, <1>3, <1>4, <1>5, <1>6, <1>7 DEF FilesInv, Grows

\* split_leaf and the split of a full parent.
LEMMA ReplaceGrows ==
  ASSUME FilesInv, NEW gone, NEW a, NEW b, NEW isRoot, NEW loaded,
         Replace(gone, a, b, isRoot, loaded), saved' = saved
  PROVE  Grows
<1> DEFINE l == manifest_.next
           made == IF isRoot THEN {l, l + 1, l + 2} ELSE {l, l + 1}
           m1 == register(manifest_, made)
           m2 == invalidate(m1, {gone})
           m3 == take_ids(m2, Cardinality(made))
           m4 == set_root(m3, IF isRoot THEN l + 2 ELSE Root)
<1>1. manifest_' = m4
  BY Zenon DEF Replace
<1>2. DOMAIN files' = DOMAIN files \cup made
  BY DEF Replace
<1> HIDE DEF made
<1>3. Shaped(m1) /\ ValidIds(m1) = ValidIds(manifest_) \cup made
  BY RegisterFacts DEF FilesInv
<1> HIDE DEF m1
<1>4. Shaped(m2) /\ ValidIds(m2) = ValidIds(m1) \ {gone}
  BY <1>3, InvalidateFacts
<1> HIDE DEF m2
<1>5. Shaped(m3) /\ ValidIds(m3) = ValidIds(m2)
  BY <1>4, TakeIdsFacts
<1> HIDE DEF m3
<1>6. Shaped(m4) /\ ValidIds(m4) = ValidIds(m3)
  BY <1>5, SetRootFacts
<1> HIDE DEF m4
<1> QED
  BY <1>1, <1>2, <1>3, <1>4, <1>5, <1>6 DEF FilesInv, Grows

\* Nodes that were written and then given up.
LEMMA AbandonedGrows ==
  ASSUME FilesInv, NEW nodes, NEW n, Abandoned(nodes, n), saved' = saved
  PROVE  Grows
<1>1. manifest_' = take_ids(manifest_, 2)
  BY DEF Abandoned
<1>2. DOMAIN files \subseteq DOMAIN files'
  BY DEF Abandoned
<1>3. /\ Shaped(take_ids(manifest_, 2))
      /\ ValidIds(take_ids(manifest_, 2)) = ValidIds(manifest_)
  BY TakeIdsFacts DEF FilesInv
<1> QED
  BY <1>1, <1>2, <1>3 DEF FilesInv, Grows

LEMMA NewRootFailsGrows ==
  ASSUME FilesInv, NEW gone, NEW a, NEW b, NEW loaded, NEW n,
         NewRootFails(gone, a, b, loaded, n), saved' = saved
  PROVE  Grows
<1> DEFINE l == manifest_.next
           made == {l, l + 1} \cup (IF n = 0 THEN {} ELSE {l + 2})
           m1 == register(manifest_, {l, l + 1})
           m2 == invalidate(m1, {gone})
           m3 == take_ids(m2, 3)
<1>1. manifest_' = m3
  BY Zenon DEF NewRootFails
<1>2. DOMAIN files' = DOMAIN files \cup made
  BY DEF NewRootFails
<1>3. Shaped(m1) /\ ValidIds(m1) = ValidIds(manifest_) \cup {l, l + 1}
  BY RegisterFacts DEF FilesInv
<1> HIDE DEF m1
<1>4. Shaped(m2) /\ ValidIds(m2) = ValidIds(m1) \ {gone}
  BY <1>3, InvalidateFacts
<1> HIDE DEF m2
<1>5. Shaped(m3) /\ ValidIds(m3) = ValidIds(m2)
  BY <1>4, TakeIdsFacts
<1> HIDE DEF m3
<1> QED
  BY <1>1, <1>2, <1>3, <1>4, <1>5 DEF FilesInv, Grows

\* local_flush, cut off by a failing write.
LEMMA LocalFlushFailsGrows ==
  ASSUME FilesInv, LocalFlushFails
  PROVE  Grows
<1> DEFINE p == Head(todo).id
           old == cache_[p].kids
           new == NewKids(p)
<1>1. saved' = saved
  BY DEF LocalFlushFails, Swallowed
<1>2. PICK at \in HitBy(p) :
        LET before == {i \in HitBy(p) : i < at}
            ids == {new[i] : i \in before}
        IN  /\ DOMAIN files' = DOMAIN files \cup ids
            /\ manifest_' = take_ids(invalidate(register(manifest_, ids),
                                                {old[i] : i \in before}),
                                     Cardinality(before) + 1)
  BY DEF LocalFlushFails
<1> DEFINE before == {i \in HitBy(p) : i < at}
           ids == {new[i] : i \in before}
           gone == {old[i] : i \in before}
           m1 == register(manifest_, ids)
           m2 == invalidate(m1, gone)
           m3 == take_ids(m2, Cardinality(before) + 1)
<1>3. DOMAIN files' = DOMAIN files \cup ids /\ manifest_' = m3
  BY <1>2, Zenon
<1> HIDE DEF ids, gone
<1>4. Shaped(m1) /\ ValidIds(m1) = ValidIds(manifest_) \cup ids
  BY RegisterFacts DEF FilesInv
<1> HIDE DEF m1
<1>5. Shaped(m2) /\ ValidIds(m2) = ValidIds(m1) \ gone
  BY <1>4, InvalidateFacts
<1> HIDE DEF m2
<1>6. Shaped(m3) /\ ValidIds(m3) = ValidIds(m2)
  BY <1>5, TakeIdsFacts
<1> HIDE DEF m3
<1> QED
  BY <1>1, <1>3, <1>4, <1>5, <1>6 DEF FilesInv, Grows

\* An exception ends the calls: nothing is pending any more.
LEMMA ThrownKeeps ==
  ASSUME FilesInv, Grows, todo' = <<>>
  PROVE  QueueInv' /\ FilesInv'
BY GrowsKeeps, CallsNone

\* Steps that touch neither the manifest nor the disk nor the pending calls.
LEMMA UntouchedKeeps ==
  ASSUME QueueInv, FilesInv, UNCHANGED <<manifest_, files, saved, todo>>, status' = status
  PROVE  QueueInv' /\ FilesInv'
BY DEF QueueInv, FilesInv, SavedFilesExist, Do

\* The client's steps and the beginnings of flushes.
LEMMA ClientFiles ==
  ASSUME QueueInv, FilesInv,
         \/ \E k \in Keys : Get(k) \/ remove(k) \/ \E sz \in Sizes : insert(k, sz)
         \/ BackgroundFlush \/ RequestFlush \/ Flush \/ Close
  PROVE  QueueInv' /\ FilesInv'
<1>1. ASSUME NEW k \in Keys, Get(k) PROVE QueueInv' /\ FilesInv'
  BY <1>1, UntouchedKeeps DEF Get, disk, life
<1>2. ASSUME NEW k, NEW del, NEW sz, Write(k, del, sz) PROVE QueueInv' /\ FilesInv'
  BY <1>2, UntouchedKeeps DEF Write, memory, disk, life
<1>3. CASE RequestFlush
  BY <1>3, UntouchedKeeps DEF RequestFlush, memory, disk, life
<1>4. ASSUME NEW calls, NEW last, Drain(calls, last), Calls(calls), Calls(<<last>>)
      PROVE  Calls(todo') /\ todo' # <<>>
  <2> DEFINE th == <<[op |-> "throw"]>>
  <2>1. Calls(th)
    BY CallsOne
  <2>2. todo' = (IF Readable(Root) THEN calls ELSE th) \o <<last>>
    BY <1>4 DEF Drain
  <2>3. Calls(todo')
    BY <1>4, <2>1, <2>2, CallsConcat
  <2> DEFINE c == IF Readable(Root) THEN calls ELSE th
  <2>4. IsSeq(c) /\ todo' = c \o <<last>>
    BY <1>4, <2>1, <2>2 DEF Calls
  <2> HIDE DEF c
  <2>5. Len(todo') = Len(c) + 1 /\ Len(c) \in Nat
    BY <2>4 DEF IsSeq
  <2> QED
    BY <2>3, <2>5
<1>5. CASE BackgroundFlush
  <2> DEFINE calls == IF buffer_full(Merged) THEN OnOverflow(Root, Node(Root), <<Root>>) ELSE <<>>
             last == [op |-> "done"]
  <2>1. Drain(calls, last) /\ UNCHANGED <<manifest_, files, saved, status>> /\ status = "open"
    BY <1>5 DEF BackgroundFlush, disk, life
  <2>2. Calls(OnOverflow(Root, Node(Root), <<Root>>))
    BY CallsOne, CallsNone DEF OnOverflow
  <2>3. Calls(calls) /\ Calls(<<last>>)
    BY <2>2, CallsOne, CallsNone
  <2> HIDE DEF calls, last
  <2>4. Calls(todo')
    BY <1>4, <2>1, <2>3
  <2> QED
    BY <2>1, <2>4, SameGrows, GrowsKeeps
<1>6. ASSUME NEW last, last # "gc", PersistRoot(last), status' # "down"
      PROVE QueueInv' /\ FilesInv'
  <2> DEFINE x == [op |-> last, covers |-> [k \in Keys |-> latest[k].val]]
  <2>1. Drain(RootWrites, x) /\ UNCHANGED <<manifest_, files, saved>>
    BY <1>6 DEF PersistRoot, disk
  <2>2. Calls(<<Persist(Root), Save>>)
    <3>1. Calls(<<Persist(Root)>>) /\ Calls(<<Save>>)
      BY CallsOne DEF Persist, Save
    <3>2. <<Persist(Root), Save>> = <<Persist(Root)>> \o <<Save>>
      OBVIOUS
    <3> QED
      BY <3>1, <3>2, CallsConcat
  <2>3. Calls(RootWrites) /\ Calls(<<x>>)
    BY <1>6, <2>2, CallsOne, CallsNone DEF RootWrites
  <2> HIDE DEF x
  <2>4. Calls(todo')
    BY <1>4, <2>1, <2>3
  <2> QED
    BY <1>6, <2>1, <2>4, SameGrows, GrowsKeeps
<1>7. CASE Flush
  <2>1. PersistRoot("return") /\ status' # "down"
    BY <1>7 DEF Flush, PersistRoot
  <2> QED
    BY <1>6, <2>1
<1>8. CASE Close
  <2>1. PersistRoot("closed") /\ status' # "down"
    BY <1>8 DEF Close
  <2> QED
    BY <1>6, <2>1
<1> QED
  BY <1>1, <1>2, <1>3, <1>5, <1>7, <1>8 DEF remove, insert

\* Crashes, the end of the destructor and opening.
LEMMA LifeFiles ==
  ASSUME QueueInv, FilesInv, Crash \/ Closed \/ Open \/ EnsureRoot
  PROVE  QueueInv' /\ FilesInv'
<1>1. CASE Lost
  <2>1. UNCHANGED <<manifest_, files, saved>> /\ todo' = <<>>
    BY <1>1 DEF Lost, disk
  <2> QED
    BY <2>1, SameGrows, ThrownKeeps
<1>2. CASE Open
  <2>1. /\ manifest_' = load(saved) /\ UNCHANGED <<files, saved, todo>> /\ todo = <<>>
        /\ status' = "open"
    BY <1>2 DEF Open, Load, QueueInv
  <2>2. Grows
    BY <2>1, LoadFacts DEF Grows, FilesInv, SavedFilesExist
  <2> QED
    BY <2>1, <2>2, ThrownKeeps
<1>3. CASE EnsureRoot
  <2> DEFINE m == load(saved)
             m1 == take_ids(m, 1)
             m2 == register(m1, {m.next})
             m3 == set_root(m2, m.next)
             id == m.next
  <2>1. manifest_' = m3 /\ saved' = saved /\ status' = "opening"
    BY <1>3 DEF EnsureRoot, Load
  <2>2. DOMAIN files' = DOMAIN files \cup {id}
    BY <1>3 DEF EnsureRoot
  <2>3. todo' = <<Save, [op |-> "opened"]>>
    BY <1>3 DEF EnsureRoot
  <2>4. Shaped(m) /\ ValidIds(m) \subseteq DOMAIN files
    BY LoadFacts DEF FilesInv, SavedFilesExist
  <2> HIDE DEF m
  <2>5. Shaped(m1) /\ ValidIds(m1) = ValidIds(m)
    BY <2>4, TakeIdsFacts
  <2> HIDE DEF m1
  <2>6. Shaped(m2) /\ ValidIds(m2) = ValidIds(m1) \cup {id}
    BY <2>5, RegisterFacts
  <2> HIDE DEF m2
  <2>7. Shaped(m3) /\ ValidIds(m3) = ValidIds(m2)
    BY <2>6, SetRootFacts
  <2> HIDE DEF m3
  <2>8. Grows
    BY <2>1, <2>2, <2>4, <2>5, <2>6, <2>7 DEF Grows
  <2>9. Calls(todo')
    <3>1. Calls(<<Save>>) /\ Calls(<<[op |-> "opened"]>>)
      BY CallsOne DEF Save
    <3>2. todo' = <<Save>> \o <<[op |-> "opened"]>>
      BY <2>3
    <3> QED
      BY <3>1, <3>2, CallsConcat
  <2> QED
    BY <2>1, <2>8, <2>9, GrowsKeeps
<1> QED
  BY <1>1, <1>2, <1>3 DEF Crash, Closed

\* The steps under cache_mu_ that change the tree.
LEMMA UpdateFiles ==
  ASSUME QueueInv, FilesInv, DoFlush \/ CheckChild \/ SplitLeaf \/ InsertChild \/ SplitParent
  PROVE  QueueInv' /\ FilesInv'
<1>1. CASE DoFlush
  <2> DEFINE p == Head(todo).id
             c == <<Check(p, cache_'[p].kids)>>
             q == <<Persist(p)>>
  <2>1. /\ Do("do_flush") /\ FlushChildren(p, Len(cache_[p].kids) + 1)
        /\ Call(q \o Commit \o c) /\ saved' = saved /\ status' = status
    BY <1>1 DEF DoFlush, life
  <2>2. Calls(q) /\ Calls(c)
    BY CallsOne DEF Persist, Check
  <2> HIDE DEF p, q, c
  <2>3. Calls(q \o Commit)
    BY <2>2, CallsCommit, CallsConcat
  <2>4. Calls(q \o Commit \o c)
    BY <2>2, <2>3, CallsConcat
  <2>5. Calls(todo') /\ status # "down"
    BY <2>1, <2>4, CallKeeps
  <2> QED
    BY <2>1, <2>5, FlushChildrenGrows, GrowsKeeps
<1>2. CASE CheckChild
  <2> DEFINE op == Head(todo)
             c == Head(op.kids)
             rest == <<Unchecked(op)>>
             over == OnOverflow(c, cache_[c], <<op.id, c>>)
  <2>1. Do("check") /\ UNCHANGED <<manifest_, files, saved, status>>
    BY <1>2 DEF CheckChild, memory, disk, life
  <2>2. Calls(rest)
    BY CallsOne DEF Unchecked, Check
  <2>3. Calls(over)
    BY CallsOne, CallsNone DEF OnOverflow
  <2>4. Call(<<>>) \/ Call(rest) \/ Call(over \o rest)
    BY <1>2 DEF CheckChild
  <2> HIDE DEF rest, over
  <2>5. Calls(<<>>) /\ Calls(over \o rest)
    BY <2>2, <2>3, CallsNone, CallsConcat
  <2>6. Calls(todo') /\ status # "down"
    BY <2>1, <2>2, <2>4, <2>5, CallKeeps
  <2> QED
    BY <2>1, <2>6, SameGrows, GrowsKeeps
<1>3. CASE SplitLeaf
  <2> DEFINE op == Head(todo)
             buf == StableSort(cache_[op.id].buf)
             isRoot == Len(op.path) = 1
             up == IF isRoot THEN <<>>
                   ELSE <<[op |-> "insert_child", id |-> Head(op.path),
                           old |-> op.id, left |-> manifest_.next,
                           right |-> manifest_.next + 1]>>
  <2>1. /\ Do("split_leaf") /\ saved' = saved /\ status' = status
        /\ Replace(op.id, create(0, LeftHalf(buf), <<>>),
                   create(0, RightHalf(buf), <<>>), isRoot, {})
        /\ Call(up \o Commit)
    BY <1>3 DEF SplitLeaf, life
  <2>2. Calls(up)
    BY CallsOne, CallsNone
  <2> HIDE DEF up, op, buf, isRoot
  <2>3. Calls(up \o Commit)
    BY <2>2, CallsCommit, CallsConcat
  <2>4. Calls(todo') /\ status # "down"
    BY <2>1, <2>3, CallKeeps
  <2> QED
    BY <2>1, <2>4, ReplaceGrows, GrowsKeeps
<1>4. CASE InsertChild
  <2> DEFINE q == <<Persist(Head(todo).id)>>
  <2>1. Do("insert_child") /\ Call(q) /\ UNCHANGED <<manifest_, files, saved, status>>
    BY <1>4 DEF InsertChild, disk, life
  <2>2. Calls(q)
    BY CallsOne DEF Persist
  <2> HIDE DEF q
  <2>3. Calls(todo') /\ status # "down"
    BY <2>1, <2>2, CallKeeps
  <2> QED
    BY <2>1, <2>3, SameGrows, GrowsKeeps
<1>5. CASE SplitParent
  <2> DEFINE op == Head(todo)
             half == Halves(op)
             up == IF op.id = Root THEN <<>>
                   ELSE <<[op |-> "insert_child", id |-> ParentOf(op.id),
                           old |-> op.id, left |-> manifest_.next,
                           right |-> manifest_.next + 1]>>
  <2>1. /\ Do("insert_child") /\ saved' = saved /\ status' = status
        /\ Replace(op.id, half[1], half[2], op.id = Root, Searched(op.id))
        /\ Call(up \o Commit)
    BY <1>5 DEF SplitParent, life
  <2>2. Calls(up)
    BY CallsOne, CallsNone
  <2> HIDE DEF up, op, half
  <2>3. Calls(up \o Commit)
    BY <2>2, CallsCommit, CallsConcat
  <2>4. Calls(todo') /\ status # "down"
    BY <2>1, <2>3, CallKeeps
  <2> QED
    BY <2>1, <2>4, ReplaceGrows, GrowsKeeps
<1> QED
  BY <1>1, <1>2, <1>3, <1>4, <1>5

\* The steps that write files or end a call.
LEMMA DiskFiles ==
  ASSUME QueueInv, FilesInv,
         PersistNode \/ SaveManifest \/ CollectGarbage \/ Done \/ Return \/ Opened
  PROVE  QueueInv' /\ FilesInv'
<1>1. CASE PersistNode
  <2> DEFINE id == Head(todo).id
  <2>1. /\ Do("persist") /\ Call(<<>>) /\ saved' = saved /\ status' = status
        /\ manifest_' = register(manifest_, {id}) /\ DOMAIN files' = DOMAIN files \cup {id}
    BY <1>1 DEF PersistNode, life
  <2>2. /\ Shaped(register(manifest_, {id}))
        /\ ValidIds(register(manifest_, {id})) = ValidIds(manifest_) \cup {id}
    BY RegisterFacts DEF FilesInv
  <2>3. Grows
    BY <2>1, <2>2 DEF Grows, FilesInv
  <2>4. Calls(todo') /\ status # "down"
    BY <2>1, CallsNone, CallKeeps
  <2> QED
    BY <2>1, <2>3, <2>4, GrowsKeeps
<1>2. CASE SaveManifest
  <2>1. /\ Do("save") /\ saved' = save(manifest_) /\ todo' = <<>> \o Tail(todo)
        /\ UNCHANGED <<manifest_, files, status>>
    BY <1>2 DEF SaveManifest, memory, life, Call
  <2>2. ValidIds(load(saved')) = ValidIds(manifest_')
    BY <2>1, SaveLoad DEF FilesInv
  <2>3. ValidIds(load(saved')) \cap InvalidIds(manifest_') = {}
    BY <2>2 DEF InvalidIds
  <2>4. FilesInv'
    BY <2>1, <2>2, <2>3 DEF FilesInv, SavedFilesExist
  <2> DEFINE t == Tail(todo)
             E == ToSet(todo)
  <2>5. todo # <<>> /\ todo \in Seq(E)
    BY <2>1 DEF Do, QueueInv, IsSeq
  <2>6. /\ t \in Seq(E) /\ Len(todo) \in Nat /\ Len(t) = Len(todo) - 1
        /\ \A i \in 1..Len(t) : t[i] = todo[i + 1]
    BY <2>5, HeadTailProperties
  <2> HIDE DEF t, E
  <2>7. IsSeq(t) /\ todo' = t
    <3>1. IsSeq(t)
      BY <2>6, ToSetFacts DEF IsSeq
    <3>2. <<>> \o t = t
      BY <2>6, ConcatEmptySeq
    <3> QED
      BY <2>1, <3>1, <3>2 DEF t
  <2>8. GcOrdered(t)
    <3> SUFFICES ASSUME NEW i \in 2..Len(t), t[i].op = "gc" PROVE t[i - 1].op = "save"
      BY DEF GcOrdered
    <3>1. /\ i + 1 \in 2..Len(todo) /\ i \in 1..Len(t) /\ i - 1 \in 1..Len(t)
          /\ (i + 1) - 1 = i /\ (i - 1) + 1 = i
      BY <2>6
    <3>2. todo[i].op = "save"
      BY <2>6, <3>1 DEF QueueInv, GcOrdered
    <3> QED
      BY <2>6, <3>1, <3>2
  <2>9. QueueInv'
    BY <2>1, <2>5, <2>7, <2>8 DEF QueueInv
  <2> QED
    BY <2>4, <2>9
<1>3. CASE CollectGarbage
  <2>1. Do("gc") /\ UNCHANGED <<saved, status>>
    BY <1>3 DEF CollectGarbage, life
  <2>2. CASE Call(<<>>) /\ UNCHANGED <<files, manifest_>>
    <3>1. Calls(todo') /\ status # "down"
      BY <2>1, <2>2, CallsNone, CallKeeps
    <3> QED
      BY <2>1, <2>2, <3>1, SameGrows, GrowsKeeps
  <2>3. ASSUME NEW id \in InvalidIds(manifest_),
               files' = Restrict(files, DOMAIN files \ {id}),
               manifest_' = forget(manifest_, id), UNCHANGED todo
        PROVE  QueueInv' /\ FilesInv'
    <3>1. DOMAIN files' = DOMAIN files \ {id}
      BY <2>3 DEF Restrict
    <3>2. /\ Shaped(manifest_') /\ ValidIds(manifest_') = ValidIds(manifest_)
          /\ InvalidIds(manifest_') = InvalidIds(manifest_) \ {id}
      BY <2>3, ForgetFacts DEF FilesInv
    <3>3. id \notin ValidIds(manifest_) /\ id \notin ValidIds(load(saved))
      BY <2>1, <2>3 DEF FilesInv, InvalidIds
    <3>4. FilesInv'
      BY <2>1, <3>1, <3>2, <3>3 DEF FilesInv, SavedFilesExist
    <3> QED
      BY <2>1, <2>3, <3>4 DEF QueueInv
  <2> QED
    BY <1>3, <2>2, <2>3 DEF CollectGarbage
<1>4. CASE Done \/ Return \/ Opened
  <2>1. /\ Do("done") \/ Do("return") \/ Do("opened")
        /\ Call(<<>>) /\ UNCHANGED <<manifest_, files, saved>>
        /\ status' = status \/ status' = "open"
    BY <1>4 DEF Done, Return, Opened, memory, disk, life
  <2>2. Calls(todo') /\ status # "down"
    BY <2>1, CallsNone, CallKeeps
  <2> QED
    BY <2>1, <2>2, SameGrows, GrowsKeeps
<1> QED
  BY <1>1, <1>2, <1>3, <1>4

\* Exceptions and failing writes.
LEMMA ThrowFiles ==
  ASSUME QueueInv, FilesInv, DoFlushThrows \/ InsertChildThrows \/ Throw \/ WriteFails
  PROVE  QueueInv' /\ FilesInv'
<1>1. ASSUME Swallowed, Grows PROVE QueueInv' /\ FilesInv'
  BY <1>1, ThrownKeeps DEF Swallowed
<1>2. ASSUME NEW c, Unwind(c), files' = files PROVE QueueInv' /\ FilesInv'
  <2>1. todo' = <<>> /\ UNCHANGED <<manifest_, files, saved>>
    BY <1>2 DEF Unwind
  <2> QED
    BY <2>1, SameGrows, ThrownKeeps
<1>3. CASE DoFlushThrows
  <2>1. Swallowed /\ saved' = saved
    BY <1>3 DEF DoFlushThrows, Swallowed
  <2>2. UNCHANGED <<manifest_, files>> \/ \E p, n : FlushChildren(p, n)
    BY <1>3 DEF DoFlushThrows
  <2>3. Grows
    BY <2>1, <2>2, SameGrows, FlushChildrenGrows
  <2> QED
    BY <1>1, <2>1, <2>3
<1>4. CASE InsertChildThrows
  <2>1. Swallowed /\ saved' = saved
    BY <1>4 DEF InsertChildThrows, Swallowed
  <2>2. UNCHANGED <<manifest_, files>> \/ \E h : Abandoned(h, 2)
    BY <1>4 DEF InsertChildThrows, memory
  <2>3. Grows
    BY <2>1, <2>2, SameGrows, AbandonedGrows
  <2> QED
    BY <1>1, <2>1, <2>3
<1>5. CASE Throw \/ PersistFails \/ SaveFails
  <2>1. \E c : Unwind(c) /\ files' = files
    BY <1>5 DEF Throw, PersistFails, SaveFails
  <2> QED
    BY <1>2, <2>1
<1>6. CASE LocalFlushFails
  BY <1>1, <1>6, LocalFlushFailsGrows DEF LocalFlushFails
<1>7. CASE RefreshFails
  <2>1. Swallowed /\ saved' = saved /\ \E p, n : FlushChildren(p, n)
    BY <1>7 DEF RefreshFails, Swallowed
  <2> QED
    BY <1>1, <2>1, FlushChildrenGrows
<1>8. CASE SplitLeafFails
  <2>1. Swallowed /\ saved' = saved
    BY <1>8 DEF SplitLeafFails, Swallowed
  <2>2. (\E h, n : Abandoned(h, n)) \/ \E g, a, b, l, n : NewRootFails(g, a, b, l, n)
    BY <1>8, Zenon DEF SplitLeafFails
  <2>3. Grows
    BY <2>1, <2>2, AbandonedGrows, NewRootFailsGrows
  <2> QED
    BY <1>1, <2>1, <2>3
<1>9. CASE SplitParentFails
  <2>1. Swallowed /\ saved' = saved
    BY <1>9 DEF SplitParentFails, Swallowed
  <2>2. (\E h, n : Abandoned(h, n)) \/ \E g, a, b, l, n : NewRootFails(g, a, b, l, n)
    BY <1>9, Zenon DEF SplitParentFails
  <2>3. Grows
    BY <2>1, <2>2, AbandonedGrows, NewRootFailsGrows
  <2> QED
    BY <1>1, <2>1, <2>3
<1> QED
  BY <1>3, <1>4, <1>5, <1>6, <1>7, <1>8, <1>9 DEF WriteFails

\* The inductive invariant.
LEMMA FilesInvariant == FaultSpec => [](QueueInv /\ FilesInv)
<1>1. Init => QueueInv /\ FilesInv
  <2> SUFFICES ASSUME Init PROVE QueueInv /\ FilesInv
    OBVIOUS
  <2>1. todo = <<>> /\ manifest_ = NewManifest /\ saved = {} /\ files = << >>
    BY DEF Init
  <2>2. QueueInv
    BY <2>1, CallsNone DEF QueueInv, Calls
  <2>3. Shaped(NewManifest) /\ ValidIds(NewManifest) = {}
    BY DEF NewManifest, Shaped, ValidIds
  <2>4. ValidIds(load({})) = {}
    BY LoadFacts DEF NodesOf, IdsOf, ValidIds
  <2> QED
    BY <2>1, <2>2, <2>3, <2>4 DEF FilesInv, SavedFilesExist, Do
<1>2. QueueInv /\ FilesInv /\ [FaultNext]_vars => (QueueInv /\ FilesInv)'
  <2> SUFFICES ASSUME QueueInv, FilesInv, [FaultNext]_vars PROVE QueueInv' /\ FilesInv'
    OBVIOUS
  <2>1. CASE UNCHANGED vars
    BY <2>1, UntouchedKeeps DEF vars, memory, disk, life
  <2>2. CASE FaultNext
    BY <2>2, ClientFiles, LifeFiles, UpdateFiles, DiskFiles, ThrowFiles
       DEF FaultNext, Next, TreeStep
  <2> QED
    BY <2>1, <2>2
<1> QED
  BY <1>1, <1>2, PTL DEF FaultSpec

\* No manifest file ever names a node whose file is gone (manifest.cpp:112, tree.cpp:381):
\* in every behaviour with any number of sessions, crashes between any two steps,
\* exceptions and failing writes, for every fanout, buffer size and set of keys.
THEOREM SavedFilesAlwaysExist == FaultSpec => []SavedFilesExist
<1>1. QueueInv /\ FilesInv => SavedFilesExist
  BY DEF FilesInv
<1> QED
  BY <1>1, FilesInvariant, PTL

-----------------------------------------------------------------------------
(* Entries that are kept *)

LEMMA CoversSelf ==
  ASSUME NEW E, IsEntries(E), NEW S, NEW T, S \subseteq E, T \subseteq S
  PROVE  Covers(S, T)
<1>1. \A g \in T : g \in S /\ g.seq <= g.seq
  BY DEF IsEntries
<1> QED
  BY <1>1 DEF Covers

LEMMA CoversThrough ==
  ASSUME NEW E, IsEntries(E), NEW S, NEW T, NEW U,
         S \subseteq E, T \subseteq E, U \subseteq E, Covers(S, T), Covers(T, U)
  PROVE  Covers(S, U)
<1> SUFFICES ASSUME NEW g \in U PROVE \E e \in S : e.key = g.key /\ g.seq <= e.seq
  BY DEF Covers
<1>1. PICK f \in T : f.key = g.key /\ g.seq <= f.seq
  BY DEF Covers
<1>2. PICK e \in S : e.key = f.key /\ f.seq <= e.seq
  BY DEF Covers
<1>3. g.seq \in Nat /\ f.seq \in Nat /\ e.seq \in Nat
  BY DEF IsEntries
<1>4. e.key = g.key /\ g.seq <= e.seq
  BY <1>1, <1>2, <1>3
<1> QED
  BY <1>4

\* sort_buffer keeps the newest version of every key.
LEMMA SortCovers ==
  ASSUME NEW E, IsEntries(E), NEW s \in Seq(E)
  PROVE  /\ sort_buffer(s) \in Seq(E) /\ ToSet(sort_buffer(s)) \subseteq ToSet(s)
         /\ Covers(ToSet(sort_buffer(s)), ToSet(s))
<1> DEFINE t == sort_buffer(s)
<1>1. t \in Seq(E) /\ KeepsNewest(t, ToSet(s))
  BY SortBufferKeepsNewest
<1> HIDE DEF t
<1>2. \A e \in ToSet(t) : e \in ToSet(s) /\ \A g \in ToSet(s) : g.key = e.key => g.seq <= e.seq
  BY <1>1 DEF KeepsNewest
<1>3. \A g \in ToSet(s) : \E e \in ToSet(t) : e.key = g.key
  BY <1>1 DEF KeepsNewest
<1>4. Covers(ToSet(t), ToSet(s))
  BY <1>2, <1>3 DEF Covers
<1> QED
  BY <1>1, <1>2, <1>4 DEF t

-----------------------------------------------------------------------------
(* Nodes *)

\* A node whose children are among K and whose entries are among G.
NodeIn(n, K, G) ==
  n \in [level : {n.level}, kids : Seq(K), min : {n.min}, max : {n.max}, buf : Seq(G)]

LEMMA NodeInWider ==
  ASSUME NEW K, NEW G, NEW L, NEW H, K \subseteq L, G \subseteq H, NEW n, NodeIn(n, K, G)
  PROVE  NodeIn(n, L, H)
<1>1. n.kids \in Seq(L) /\ n.buf \in Seq(H)
  BY DEF NodeIn
<1> QED
  BY <1>1 DEF NodeIn

LEMMA KidsReplaced ==
  ASSUME NEW K, NEW G, NEW n, NodeIn(n, K, G), NEW L, NEW new \in Seq(L)
  PROVE  /\ NodeIn([n EXCEPT !.kids = new], L, G)
         /\ [n EXCEPT !.kids = new].kids = new /\ [n EXCEPT !.kids = new].buf = n.buf
         /\ [n EXCEPT !.kids = new].level = n.level
<1> DEFINE m == [n EXCEPT !.kids = new]
<1>1. m.kids = new /\ m.buf = n.buf /\ m.level = n.level /\ m.min = n.min /\ m.max = n.max
  BY DEF NodeIn
<1>2. m \in [level : {n.level}, kids : Seq(L), min : {n.min}, max : {n.max}, buf : Seq(G)]
  BY DEF NodeIn
<1> HIDE DEF m
<1>3. NodeIn(m, L, G)
  BY <1>1, <1>2 DEF NodeIn
<1> QED
  BY <1>1, <1>3 DEF m

LEMMA BufReplaced ==
  ASSUME NEW K, NEW G, NEW n, NodeIn(n, K, G), NEW H, NEW new \in Seq(H)
  PROVE  /\ NodeIn([n EXCEPT !.buf = new], K, H)
         /\ [n EXCEPT !.buf = new].kids = n.kids /\ [n EXCEPT !.buf = new].buf = new
         /\ [n EXCEPT !.buf = new].level = n.level
<1> DEFINE m == [n EXCEPT !.buf = new]
<1>1. m.kids = n.kids /\ m.buf = new /\ m.level = n.level /\ m.min = n.min /\ m.max = n.max
  BY DEF NodeIn
<1>2. m \in [level : {n.level}, kids : Seq(K), min : {n.min}, max : {n.max}, buf : Seq(H)]
  BY DEF NodeIn
<1> HIDE DEF m
<1>3. NodeIn(m, K, H)
  BY <1>1, <1>2 DEF NodeIn
<1> QED
  BY <1>1, <1>3 DEF m

\* A node with another range.
Ranged(n, lo, hi) == [n EXCEPT !.min = lo, !.max = hi]

LEMMA RangeReplaced ==
  ASSUME NEW K, NEW G, NEW n, NodeIn(n, K, G), NEW lo, NEW hi
  PROVE  /\ NodeIn(Ranged(n, lo, hi), K, G)
         /\ Ranged(n, lo, hi).kids = n.kids /\ Ranged(n, lo, hi).buf = n.buf
<1> DEFINE m == Ranged(n, lo, hi)
<1>1. m.kids = n.kids /\ m.buf = n.buf /\ m.level = n.level /\ m.min = lo /\ m.max = hi
  BY DEF NodeIn, Ranged
<1>2. m \in [level : {n.level}, kids : Seq(K), min : {lo}, max : {hi}, buf : Seq(G)]
  BY DEF NodeIn, Ranged
<1> HIDE DEF m
<1>3. NodeIn(m, K, G)
  BY <1>1, <1>2 DEF NodeIn
<1> QED
  BY <1>1, <1>3 DEF m

LEMMA SpanningFacts ==
  ASSUME NEW K, NEW G, NEW n, NodeIn(n, K, G), NEW a, NEW b
  PROVE  /\ NodeIn(Spanning(n, a, b), K, G)
         /\ Spanning(n, a, b).kids = n.kids /\ Spanning(n, a, b).buf = n.buf
<1>1. Spanning(n, a, b) = Ranged(n, a.min, b.max)
  BY DEF Spanning, Ranged
<1> QED
  BY <1>1, RangeReplaced

\* What m holds comes from n, in children and in entries, and nothing newest is lost.
Inherits(m, n) ==
  /\ ToSet(m.kids) \subseteq ToSet(n.kids)
  /\ ToSet(m.buf) \subseteq ToSet(n.buf) /\ Covers(ToSet(m.buf), ToSet(n.buf))

\* SSTNode::flush_to_disk.
LEMMA FlushToDiskFacts ==
  ASSUME NEW K, NEW G, IsEntries(G), NEW n, NodeIn(n, K, G)
  PROVE  /\ NodeIn(flush_to_disk(n), K, G) /\ flush_to_disk(n).kids = n.kids
         /\ flush_to_disk(n).buf = sort_buffer(n.buf) /\ Inherits(flush_to_disk(n), n)
<1> DEFINE buf == sort_buffer(n.buf)
           lo  == IF buf # <<>> /\ (n.min = NoKey \/ Head(buf).key < n.min)
                  THEN Head(buf).key ELSE n.min
           hi  == IF buf # <<>> /\ (n.max = NoKey \/ Last(buf).key > n.max)
                  THEN Last(buf).key ELSE n.max
           m == [n EXCEPT !.buf = buf]
           r == Ranged(m, lo, hi)
<1>1. flush_to_disk(n) = [n EXCEPT !.buf = buf, !.min = lo, !.max = hi]
  BY Zenon DEF flush_to_disk
<1>2. n.buf \in Seq(G)
  BY DEF NodeIn
<1>3. buf \in Seq(G) /\ ToSet(buf) \subseteq ToSet(n.buf) /\ Covers(ToSet(buf), ToSet(n.buf))
  BY <1>2, SortCovers
<1> HIDE DEF buf, lo, hi
<1>4. flush_to_disk(n) = r
  BY <1>1 DEF NodeIn, Ranged
<1>5. NodeIn(m, K, G) /\ m.kids = n.kids /\ m.buf = buf
  BY <1>3, BufReplaced
<1> HIDE DEF m
<1>6. NodeIn(r, K, G) /\ r.kids = m.kids /\ r.buf = m.buf
  BY <1>5, RangeReplaced
<1> HIDE DEF r
<1> QED
  BY <1>3, <1>4, <1>5, <1>6 DEF Inherits, buf

\* SSTNode::create.
LEMMA CreateFacts ==
  ASSUME NEW K, NEW G, IsEntries(G), NEW level, NEW entries \in Seq(G), NEW kids \in Seq(K)
  PROVE  /\ NodeIn(create(level, entries, kids), K, G)
         /\ ToSet(create(level, entries, kids).kids) \subseteq ToSet(kids)
         /\ ToSet(create(level, entries, kids).buf) \subseteq ToSet(entries)
         /\ Covers(ToSet(create(level, entries, kids).buf), ToSet(entries))
<1> DEFINE buf == sort_buffer(entries)
           n == Min({Len(kids), MAX_FANOUT})
           c == SubSeq(kids, 1, n)
           lo == IF buf = <<>> THEN NoKey ELSE Head(buf).key
           hi == IF buf = <<>> THEN NoKey ELSE Last(buf).key
           m == [level |-> level, kids |-> c, min |-> lo, max |-> hi, buf |-> buf]
<1>1. create(level, entries, kids) = m
  BY Zenon DEF create
<1>2. buf \in Seq(G) /\ ToSet(buf) \subseteq ToSet(entries) /\ Covers(ToSet(buf), ToSet(entries))
  BY SortCovers
<1>3. n \in Nat /\ n <= Len(kids)
  <2>1. Len(kids) \in Nat /\ MAX_FANOUT \in Nat
    BY TreeAssumption
  <2>2. \E x \in {Len(kids), MAX_FANOUT} : \A y \in {Len(kids), MAX_FANOUT} : x <= y
    BY <2>1
  <2>3. n \in {Len(kids), MAX_FANOUT} /\ \A y \in {Len(kids), MAX_FANOUT} : n <= y
    BY <2>2 DEF Min
  <2> QED
    BY <2>1, <2>3
<1> HIDE DEF n
<1>4. c \in Seq(K) /\ ToSet(c) = {kids[i] : i \in 1..n}
  BY <1>3, ToSetSubSeq
<1>5. ToSet(c) \subseteq ToSet(kids)
  BY <1>3, <1>4, ToSetFacts
<1> HIDE DEF buf, c, lo, hi
<1>6. m.kids = c /\ m.buf = buf /\ NodeIn(m, K, G)
  BY <1>2, <1>4 DEF NodeIn
<1> QED
  BY <1>1, <1>2, <1>5, <1>6

-----------------------------------------------------------------------------
(* The invariant *)

\* The session that built the tree, before anything was thrown in it.
Alive == session = 1 /\ status # "down" /\ ~threw

\* The entries clients may have written: of a key, none is newer than the newest,
\* and that one is a tombstone or not as the newest write was.
Genuine ==
  {e \in [key : Keys, val : Nat, seq : Nat, del : BOOLEAN, sz : Sizes \cup {1}] :
     /\ e.val = e.seq /\ e.seq <= latest[e.key].seq
     /\ e.seq = latest[e.key].seq => e.del = latest[e.key].del}

\* The ids given out so far.
Known == {i \in Nat : i < manifest_.next}

\* All entries in memory.
Pool == UNION ({ToSet(write_buf)} \cup {ToSet(cache_[i].buf) : i \in DOMAIN cache_})

\* Those of them that a node holds.
Held == UNION {ToSet(cache_[i].buf) : i \in DOMAIN cache_}

WritesInv ==
  /\ writes \in Nat /\ seq_ = writes + 1 /\ write_buf \in Seq(Genuine)
  /\ latest = [k \in Keys |-> latest[k]]
  /\ \A k \in Keys : /\ latest[k].seq \in 0..writes /\ latest[k].val = latest[k].seq
                     /\ latest[k].val = NoValue => latest[k].del

\* The cache holds every valid node, under an id that was given out, and no node
\* is its own child.
CacheInv ==
  /\ manifest_.next \in Nat /\ ValidIds(manifest_) \subseteq DOMAIN cache_
  /\ cache_ = [i \in DOMAIN cache_ |-> cache_[i]] /\ DOMAIN cache_ \subseteq Known
  /\ \A i \in DOMAIN cache_ : NodeIn(cache_[i], Known, Genuine) /\ i \notin ToSet(cache_[i].kids)

\* The newest version of every key that was written is in memory, unless the
\* batch it was in is about to be lost to an exception.
NewestKept ==
  Do("throw") \/
  \A k \in Keys : latest[k].val # NoValue => \E e \in Pool : e.key = k /\ e.seq = latest[k].seq

\* A pending call that works on a node finds it in the cache c; K are the known ids.
CallReady(x, K, c) ==
  /\ x.op = "check" => x.id \in K
  /\ x.op = "persist" => x.id \in DOMAIN c
  /\ x.op = "do_flush" => x.id \in DOMAIN c /\ c[x.id].kids # <<>>
  /\ x.op = "split_leaf" => x.id \in DOMAIN c /\ Head(x.path) \in K
  /\ x.op = "insert_child" =>
       /\ x.left \in K /\ x.right \in K
       /\ x.id \in {x.left, x.right} \cap DOMAIN c => x.old \notin ToSet(c[x.id].kids)

\* Such a call is the first; the others find out what there is to do.
AllPassive(s, K) ==
  \A x \in ToSet(s) : /\ x.op \in {"save", "gc", "check", "done", "return", "closed", "opened"}
                      /\ x.op = "check" => x.id \in K

CallsInv == todo # <<>> => CallReady(Head(todo), Known, cache_) /\ AllPassive(Tail(todo), Known)

LiveInv == WritesInv /\ CacheInv /\ NewestKept /\ CallsInv

\* Before the first open there is nothing.
Unborn ==
  /\ status = "down" /\ saved = {} /\ write_buf = <<>> /\ writes = 0
  /\ latest = [k \in Keys |-> [val |-> NoValue, del |-> TRUE, seq |-> 0, outranked |-> FALSE]]

ScanInv ==
  /\ session \in Nat
  /\ session = 0 => Unborn
  /\ Alive => LiveInv

-----------------------------------------------------------------------------
(* Facts about the parts of the invariant *)

LEMMA GenuineEntries == IsEntries(Genuine)
BY TreeAssumption DEF IsEntries, Genuine

LEMMA PoolFacts ==
  ASSUME WritesInv, CacheInv
  PROVE  /\ Pool \subseteq Genuine
         /\ \A e : e \in Pool <=> \/ e \in ToSet(write_buf)
                                 \/ \E i \in DOMAIN cache_ : e \in ToSet(cache_[i].buf)
<1>1. \A e : e \in Pool <=> \/ e \in ToSet(write_buf)
                            \/ \E i \in DOMAIN cache_ : e \in ToSet(cache_[i].buf)
  BY DEF Pool
<1>2. ToSet(write_buf) \subseteq Genuine
  BY ToSetFacts DEF WritesInv
<1>3. ASSUME NEW i \in DOMAIN cache_ PROVE ToSet(cache_[i].buf) \subseteq Genuine
  <2>1. cache_[i].buf \in Seq(Genuine)
    BY DEF CacheInv, NodeIn
  <2> QED
    BY <2>1, ToSetFacts
<1> QED
  BY <1>1, <1>2, <1>3

\* What keeps the entries of the nodes keeps those in memory.
LEMMA HeldFacts ==
  ASSUME WritesInv, CacheInv
  PROVE  /\ Held \subseteq Genuine /\ Held \subseteq Pool
         /\ \A g \in Held : \E i \in DOMAIN cache_ : g \in ToSet(cache_[i].buf)
         /\ Covers(Held', Held) /\ write_buf' = write_buf => Covers(Pool', Pool)
<1>1. \A g \in Held : \E i \in DOMAIN cache_ : g \in ToSet(cache_[i].buf)
  BY DEF Held
<1>2. Held \subseteq Pool /\ Pool \subseteq Genuine
  BY <1>1, PoolFacts
<1>3. ASSUME Covers(Held', Held), write_buf' = write_buf, NEW g \in Pool
      PROVE  \E e \in Pool' : e.key = g.key /\ g.seq <= e.seq
  <2>1. CASE g \in ToSet(write_buf)
    <3>1. g \in Pool' /\ g.seq <= g.seq
      BY <1>2, <1>3, <2>1, GenuineEntries DEF Pool, IsEntries
    <3> QED
      BY <3>1
  <2>2. ASSUME NEW i \in DOMAIN cache_, g \in ToSet(cache_[i].buf)
        PROVE  \E e \in Pool' : e.key = g.key /\ g.seq <= e.seq
    <3>1. g \in Held
      BY <2>2 DEF Held
    <3>2. PICK e \in Held' : e.key = g.key /\ g.seq <= e.seq
      BY <1>3, <3>1 DEF Covers
    <3>3. e \in Pool'
      BY <3>2 DEF Held, Pool
    <3> QED
      BY <3>2, <3>3
  <2> QED
    BY <2>1, <2>2, PoolFacts
<1> QED
  BY <1>1, <1>2, <1>3 DEF Covers

\* get_node never reads a file: the cache has every valid node.
LEMMA ReadableCached ==
  ASSUME CacheInv
  PROVE  /\ \A id : Readable(id) <=> id \in DOMAIN cache_
         /\ \A id \in DOMAIN cache_ : Node(id) = cache_[id]
         /\ \A ids : ids \subseteq DOMAIN cache_ => Cached(ids) = cache_
<1>1. \A id : Readable(id) <=> id \in DOMAIN cache_
  BY DEF Readable, CacheInv
<1>2. \A id \in DOMAIN cache_ : Node(id) = cache_[id]
  BY DEF Node
<1>3. ASSUME NEW ids, ids \subseteq DOMAIN cache_ PROVE Cached(ids) = cache_
  <2>1. DOMAIN cache_ \cup ids = DOMAIN cache_
    BY <1>3
  <2>2. Cached(ids) = [i \in DOMAIN cache_ |-> Node(i)]
    BY <2>1 DEF Cached
  <2>3. [i \in DOMAIN cache_ |-> Node(i)] = [i \in DOMAIN cache_ |-> cache_[i]]
    BY <1>2
  <2> QED
    BY <2>2, <2>3 DEF CacheInv
<1> QED
  BY <1>1, <1>2, <1>3

\* A step that covers what was in memory keeps the newest versions.
LEMMA NewestKeeps ==
  ASSUME WritesInv, CacheInv, NewestKept, WritesInv', CacheInv', latest' = latest,
         ~Do("throw"), Covers(Pool', Pool)
  PROVE  NewestKept'
<1>1. Pool' \subseteq Genuine'
  <2> DEFINE P == Pool'  G == Genuine'
  <2>1. ToSet(write_buf)' \subseteq G
    BY ToSetFacts DEF WritesInv
  <2>2. ASSUME NEW i \in DOMAIN cache_' PROVE ToSet(cache_'[i].buf) \subseteq G
    <3>1. cache_'[i].buf \in Seq(G)
      BY DEF CacheInv, NodeIn
    <3> QED
      BY <3>1, ToSetFacts
  <2> QED
    BY <2>1, <2>2 DEF Pool
<1>2. SUFFICES ASSUME NEW k \in Keys, latest[k].val # NoValue
               PROVE  \E e \in Pool' : e.key = k /\ e.seq = latest[k].seq
  BY DEF NewestKept
<1>3. PICK g \in Pool : g.key = k /\ g.seq = latest[k].seq
  BY <1>2 DEF NewestKept
<1>4. PICK e \in Pool' : e.key = k /\ latest[k].seq <= e.seq
  BY <1>3 DEF Covers
<1>5. e.seq \in Nat /\ e.seq <= latest[k].seq /\ latest[k].seq \in Nat
  BY <1>1, <1>4 DEF Genuine, WritesInv
<1> QED
  BY <1>4, <1>5

LEMMA PassiveConcat ==
  ASSUME NEW s, NEW t, IsSeq(s), IsSeq(t), NEW K, AllPassive(s, K), AllPassive(t, K)
  PROVE  AllPassive(s \o t, K)
<1> DEFINE E == ToSet(s) \cup ToSet(t)
<1>1. s \in Seq(E) /\ t \in Seq(E)
  BY DEF IsSeq
<1>2. ToSet(s \o t) = E
  BY <1>1, ToSetConcat
<1> QED
  BY <1>2 DEF AllPassive

LEMMA PassiveOne ==
  ASSUME NEW x, NEW K, x.op \in {"save", "gc", "check", "done", "return", "closed", "opened"},
         x.op = "check" => x.id \in K
  PROVE  AllPassive(<<x>>, K) /\ IsSeq(<<x>>)
<1>1. ToSet(<<x>>) = {x}
  BY DEF ToSet
<1> QED
  BY <1>1 DEF AllPassive, IsSeq

LEMMA PassiveCommit ==
  ASSUME NEW K
  PROVE  AllPassive(Commit, K) /\ IsSeq(Commit)
<1>1. ToSet(Commit) = {Save, Gc}
  BY DEF ToSet, Commit
<1> QED
  BY <1>1, CallsCommit DEF AllPassive, Save, Gc, Calls

\* The pending calls after the first has made the calls ops.
LEMMA CallsStep ==
  ASSUME QueueInv, CallsInv, todo # <<>>, Known \subseteq Known', NEW ops, IsSeq(ops), Call(ops),
         ops # <<>> => CallReady(Head(ops), Known', cache_') /\ AllPassive(Tail(ops), Known')
  PROVE  CallsInv'
<1> DEFINE t == Tail(todo)
           E == ToSet(todo)
<1>1. t \in Seq(E) /\ todo \in Seq(E)
  BY DEF QueueInv, IsSeq
<1>2. IsSeq(t) /\ todo' = ops \o t
  BY <1>1, ToSetFacts DEF IsSeq, Call
<1>3. AllPassive(t, Known')
  BY DEF CallsInv, AllPassive
<1> HIDE DEF t
<1>4. CASE ops = <<>>
  <2>1. todo' = t
    BY <1>1, <1>2, <1>4, ConcatEmptySeq
  <2>2. ASSUME t # <<>> PROVE CallReady(Head(t), Known', cache_') /\ AllPassive(Tail(t), Known')
    <3> DEFINE u == Tail(t)
    <3>1. /\ u \in Seq(E) /\ Len(t) \in Nat /\ Len(u) = Len(t) - 1 /\ Head(t) = t[1]
          /\ 1 \in 1..Len(t) /\ \A i \in 1..Len(u) : u[i] = t[i + 1]
      BY <1>1, <2>2, HeadTailProperties
    <3> HIDE DEF u
    <3>2. ToSet(t) = {t[i] : i \in 1..Len(t)} /\ ToSet(u) = {u[i] : i \in 1..Len(u)}
      BY <1>1, <3>1, ToSetFacts
    <3>3. Head(t) \in ToSet(t) /\ ToSet(u) \subseteq ToSet(t)
      <4>1. \A i \in 1..Len(u) : i + 1 \in 1..Len(t)
        BY <3>1
      <4> QED
        BY <3>1, <3>2, <4>1
    <3> QED
      BY <1>3, <3>3 DEF AllPassive, CallReady, u
  <2> QED
    BY <2>1, <2>2 DEF CallsInv
<1>5. CASE ops # <<>>
  <2> DEFINE S == ToSet(ops) \cup E
  <2>1. ops \in Seq(S) /\ t \in Seq(S)
    BY <1>1 DEF IsSeq
  <2> HIDE DEF S
  <2>2. todo' # <<>> /\ Head(todo') = Head(ops) /\ Tail(todo') = Tail(ops) \o t
    BY <1>2, <1>5, <2>1
  <2>3. IsSeq(Tail(ops))
    <3>1. Tail(ops) \in Seq(S)
      BY <1>5, <2>1
    <3> QED
      BY <3>1, ToSetFacts DEF IsSeq
  <2>4. AllPassive(Tail(ops) \o t, Known')
    BY <1>2, <1>3, <1>5, <2>3, PassiveConcat
  <2> QED
    BY <1>5, <2>2, <2>4 DEF CallsInv
<1> QED
  BY <1>4, <1>5

-----------------------------------------------------------------------------
(* Steps of the clients *)

\* SkipList::insert adds the entry and nothing else changes.
LEMMA SkiplistInsertFacts ==
  ASSUME NEW E, NEW s \in Seq(E), NEW x \in E
  PROVE  /\ skiplist_insert(s, x) \in Seq(E)
         /\ ToSet(skiplist_insert(s, x)) = ToSet(s) \cup {x}
<1> DEFINE before == {i \in DOMAIN s : Less(s[i], x)}
           n == Cardinality(before)
           a == SubSeq(s, 1, n)
           b == SubSeq(s, n + 1, Len(s))
<1>1. n \in Nat /\ n <= Len(s)
  <2>1. DOMAIN s = 1..Len(s) /\ Len(s) \in Nat
    OBVIOUS
  <2>2. IsFiniteSet(1..Len(s)) /\ Cardinality(1..Len(s)) = Len(s)
    BY <2>1, FS_Interval
  <2>3. before \in SUBSET (1..Len(s))
    BY <2>1
  <2> HIDE DEF before
  <2> QED
    BY <2>2, <2>3, FS_Subset, FS_CardinalityType
<1> DEFINE c == <<x>>
           d == a \o c
<1>2. skiplist_insert(s, x) = d \o b
  BY DEF skiplist_insert
<1> HIDE DEF n
<1>3. a \in Seq(E) /\ ToSet(a) = {s[i] : i \in 1..n}
  BY <1>1, ToSetSubSeq
<1>4. b \in Seq(E) /\ ToSet(b) = {s[i] : i \in n + 1..Len(s)}
  BY <1>1, ToSetSubSeq
<1>5. ToSet(s) = {s[i] : i \in 1..Len(s)}
  BY ToSetFacts
<1>6. c \in Seq(E) /\ ToSet(c) = {x}
  BY DEF ToSet
<1> HIDE DEF a, b, c
<1>7. d \in Seq(E) /\ ToSet(d) = ToSet(a) \cup {x}
  BY <1>3, <1>6, ToSetConcat
<1> HIDE DEF d
<1>8. d \o b \in Seq(E) /\ ToSet(d \o b) = ToSet(a) \cup {x} \cup ToSet(b)
  BY <1>4, <1>7, ToSetConcat
<1>9. 1..Len(s) = (1..n) \cup (n + 1..Len(s))
  BY <1>1
<1>10. ToSet(s) = ToSet(a) \cup ToSet(b)
  BY <1>3, <1>4, <1>5, <1>9
<1> QED
  BY <1>2, <1>8, <1>10

LEMMA WriteLive ==
  ASSUME LiveInv, NEW k \in Keys, NEW del \in BOOLEAN, NEW sz \in Sizes \cup {1}, Write(k, del, sz)
  PROVE  LiveInv'
<1> DEFINE x == Entry(k, writes + 1, seq_, del, sz)
           l == [val |-> writes + 1, del |-> del, seq |-> seq_, outranked |-> seq_ <= rank[k]]
           G == Genuine'
<1> USE DEF LiveInv
<1>1. /\ write_buf' = skiplist_insert(write_buf, x) /\ seq_' = seq_ + 1 /\ writes' = writes + 1
      /\ latest' = [latest EXCEPT ![k] = l] /\ UNCHANGED <<cache_, manifest_, todo>>
  BY DEF Write, memory
<1>2. /\ writes \in Nat /\ seq_ = writes + 1 /\ write_buf \in Seq(Genuine)
      /\ latest = [i \in Keys |-> latest[i]]
      /\ \A i \in Keys : latest[i].seq \in 0..writes /\ latest[i].val = latest[i].seq
      /\ \A i \in Keys : latest[i].val = NoValue => latest[i].del
  BY DEF WritesInv
<1>3. latest'[k] = l /\ \A i \in Keys \ {k} : latest'[i] = latest[i]
  BY <1>1, <1>2
<1>4. l.val = writes + 1 /\ l.seq = writes + 1 /\ l.del = del
  BY <1>2
<1>5. /\ x.key = k /\ x.val = writes + 1 /\ x.seq = writes + 1 /\ x.del = del
      /\ x \in [key : Keys, val : Nat, seq : Nat, del : BOOLEAN, sz : Sizes \cup {1}]
  BY <1>2 DEF Entry
<1> HIDE DEF x, l
<1>6. x \in G
  BY <1>3, <1>4, <1>5 DEF Genuine
<1>7. Genuine \subseteq G
  <2> SUFFICES ASSUME NEW e \in Genuine PROVE e \in G
    OBVIOUS
  <2>1. /\ e \in [key : Keys, val : Nat, seq : Nat, del : BOOLEAN, sz : Sizes \cup {1}]
        /\ e.val = e.seq /\ e.seq <= latest[e.key].seq
        /\ e.seq = latest[e.key].seq => e.del = latest[e.key].del
    BY DEF Genuine
  <2>2. e.key \in Keys /\ e.seq \in Nat
    BY <2>1
  <2>3. CASE e.key = k
    <3>1. e.seq < l.seq
      BY <1>2, <1>4, <2>1, <2>2, <2>3
    <3>2. e.seq <= latest'[e.key].seq /\ e.seq # latest'[e.key].seq
      BY <1>2, <1>3, <1>4, <2>2, <2>3, <3>1
    <3> QED
      BY <2>1, <3>2 DEF Genuine
  <2>4. CASE e.key # k
    <3>1. latest'[e.key] = latest[e.key]
      BY <1>3, <2>2, <2>4
    <3> QED
      BY <2>1, <3>1 DEF Genuine
  <2> QED
    BY <2>3, <2>4
<1> HIDE DEF G
<1>8. write_buf' \in Seq(G) /\ ToSet(write_buf') = ToSet(write_buf) \cup {x}
  <2>1. write_buf \in Seq(G)
    BY <1>2, <1>7
  <2> QED
    BY <1>1, <1>6, <2>1, SkiplistInsertFacts
<1>9. WritesInv'
  <2>1. DOMAIN latest = Keys
    BY <1>2
  <2>2. latest' = [i \in Keys |-> latest'[i]]
    BY <1>1, <2>1
  <2>3. ASSUME NEW i \in Keys
        PROVE  /\ latest'[i].seq \in 0..writes' /\ latest'[i].val = latest'[i].seq
               /\ latest'[i].val = NoValue => latest'[i].del
    BY <1>1, <1>2, <1>3, <1>4 DEF NoValue
  <2> QED
    BY <1>1, <1>2, <1>8, <2>2, <2>3 DEF WritesInv, G
<1>10. CacheInv'
  <2>1. ASSUME NEW i \in DOMAIN cache_ PROVE NodeIn(cache_[i], Known, G)
    BY <1>7, NodeInWider DEF CacheInv
  <2>2. Known' = Known
    BY <1>1 DEF Known
  <2> QED
    BY <1>1, <2>1, <2>2 DEF CacheInv, G
<1>11. NewestKept'
  <2>1. CASE Do("throw")
    BY <1>1, <2>1 DEF NewestKept, Do
  <2>2. CASE ~Do("throw")
    <3>1. Pool' = Pool \cup {x}
      BY <1>1, <1>8 DEF Pool
    <3>2. ASSUME NEW i \in Keys, latest'[i].val # NoValue
          PROVE  \E e \in Pool' : e.key = i /\ e.seq = latest'[i].seq
      <4>1. CASE i = k
        <5>1. x \in Pool' /\ x.key = i /\ x.seq = latest'[i].seq
          BY <1>3, <1>4, <1>5, <3>1, <4>1
        <5> QED
          BY <5>1
      <4>2. CASE i # k
        <5>1. latest'[i] = latest[i]
          BY <1>3, <4>2
        <5>2. \E e \in Pool : e.key = i /\ e.seq = latest[i].seq
          BY <2>2, <3>2, <5>1 DEF NewestKept
        <5> QED
          BY <3>1, <5>1, <5>2
      <4> QED
        BY <4>1, <4>2
    <3> QED
      BY <3>2 DEF NewestKept
  <2> QED
    BY <2>1, <2>2
<1>12. CallsInv'
  BY <1>1 DEF CallsInv, Known
<1> QED
  BY <1>9, <1>10, <1>11, <1>12

\* A step that touches neither the entries nor the nodes in memory.
LEMMA MemoryKept ==
  ASSUME LiveInv, UNCHANGED <<write_buf, seq_, writes, latest, cache_>>,
         manifest_'.next = manifest_.next, ValidIds(manifest_') = ValidIds(manifest_)
  PROVE  WritesInv' /\ CacheInv' /\ Known' = Known /\ (Do("throw")' \/ ~Do("throw") => NewestKept')
<1>1. Known' = Known /\ Genuine' = Genuine /\ Pool' = Pool
  BY DEF Known, Genuine, Pool
<1> QED
  BY <1>1 DEF LiveInv, WritesInv, CacheInv, NewestKept

\* A step that replaces one node in memory.
LEMMA NodeReplaced ==
  ASSUME WritesInv, CacheInv, latest' = latest, manifest_'.next = manifest_.next,
         ValidIds(manifest_') \subseteq DOMAIN cache_, NEW id \in DOMAIN cache_, NEW n,
         cache_' = [cache_ EXCEPT ![id] = n], NodeIn(n, Known, Genuine), id \notin ToSet(n.kids)
  PROVE  /\ CacheInv' /\ Known' = Known /\ Genuine' = Genuine
         /\ DOMAIN cache_' = DOMAIN cache_ /\ cache_'[id] = n
         /\ \A i \in DOMAIN cache_ \ {id} : cache_'[i] = cache_[i]
         /\ Covers(ToSet(write_buf') \cup ToSet(n.buf),
                   ToSet(write_buf) \cup ToSet(cache_[id].buf)) => Covers(Pool', Pool)
         /\ Covers(ToSet(n.buf), ToSet(cache_[id].buf)) => Covers(Held', Held)
<1>1. Known' = Known /\ Genuine' = Genuine
  BY DEF Known, Genuine
<1>2. /\ cache_' = [i \in DOMAIN cache_ |-> cache_'[i]] /\ DOMAIN cache_' = DOMAIN cache_
      /\ cache_'[id] = n /\ \A i \in DOMAIN cache_ \ {id} : cache_'[i] = cache_[i]
  BY DEF CacheInv
<1>3. \A i \in DOMAIN cache_' :
        NodeIn(cache_'[i], Known, Genuine) /\ i \notin ToSet(cache_'[i].kids)
  BY <1>2 DEF CacheInv
<1>4. CacheInv'
  BY <1>1, <1>2, <1>3 DEF CacheInv
<1>5. ASSUME Covers(ToSet(write_buf') \cup ToSet(n.buf),
                    ToSet(write_buf) \cup ToSet(cache_[id].buf)), NEW g \in Pool
      PROVE  \E e \in Pool' : e.key = g.key /\ g.seq <= e.seq
  <2>1. ToSet(write_buf') \cup ToSet(n.buf) \subseteq Pool'
    BY <1>2 DEF Pool
  <2>2. CASE g \in ToSet(write_buf) \cup ToSet(cache_[id].buf)
    BY <1>5, <2>1, <2>2 DEF Covers
  <2>3. ASSUME NEW i \in DOMAIN cache_ \ {id}, g \in ToSet(cache_[i].buf)
        PROVE  \E e \in Pool' : e.key = g.key /\ g.seq <= e.seq
    <3>1. g \in Pool'
      BY <1>2, <2>3 DEF Pool
    <3>2. g.seq <= g.seq
      BY <1>5, PoolFacts, GenuineEntries DEF IsEntries
    <3> QED
      BY <3>1, <3>2
  <2> QED
    BY <1>5, <2>2, <2>3, PoolFacts
<1>6. ASSUME Covers(ToSet(n.buf), ToSet(cache_[id].buf)), NEW g \in Held
      PROVE  \E e \in Held' : e.key = g.key /\ g.seq <= e.seq
  <2>1. PICK i \in DOMAIN cache_ : g \in ToSet(cache_[i].buf)
    BY <1>6, HeldFacts
  <2>2. CASE i = id
    <3>1. PICK e \in ToSet(n.buf) : e.key = g.key /\ g.seq <= e.seq
      BY <1>6, <2>1, <2>2 DEF Covers
    <3>2. e \in Held'
      BY <1>2, <3>1 DEF Held
    <3> QED
      BY <3>1, <3>2
  <2>3. CASE i # id
    <3>1. g \in Held'
      BY <1>2, <2>1, <2>3 DEF Held
    <3>2. g.seq <= g.seq
      BY <1>6, HeldFacts, GenuineEntries DEF IsEntries
    <3> QED
      BY <3>1, <3>2
  <2> QED
    BY <2>2, <2>3
<1> QED
  BY <1>1, <1>2, <1>4, <1>5, <1>6 DEF Covers

\* A drain moves the write buffer into the root, or loses it to an exception.
LEMMA DrainMemory ==
  ASSUME LiveInv, todo = <<>>, NEW calls, NEW last, Drain(calls, last),
         UNCHANGED <<seq_, writes, latest, manifest_>>
  PROVE  /\ WritesInv' /\ CacheInv' /\ NewestKept' /\ Known' = Known
         /\ DOMAIN cache_' = DOMAIN cache_
         /\ \A i \in DOMAIN cache_ : cache_'[i].kids = cache_[i].kids
<1> USE DEF LiveInv
<1>1. Genuine' = Genuine /\ Known' = Known
  BY DEF Genuine, Known
<1>2. WritesInv'
  <2>1. write_buf' \in Seq(Genuine)
    BY DEF Drain
  <2> QED
    BY <1>1, <2>1 DEF WritesInv
<1>3. CASE ~Readable(Root)
  <2>1. cache_' = cache_ /\ todo' = <<[op |-> "throw"]>> \o <<last>>
    BY <1>3 DEF Drain
  <2>2. Do("throw")'
    BY <2>1 DEF Do
  <2> QED
    BY <1>1, <1>2, <2>1, <2>2 DEF CacheInv, NewestKept
<1>4. CASE Readable(Root)
  <2> DEFINE r == cache_[Root]
             n == [r EXCEPT !.buf = Merged]
             s == r.buf \o write_buf
  <2>1. Root \in DOMAIN cache_ /\ Cached({Root}) = cache_ /\ Node(Root) = r
    BY <1>4, ReadableCached
  <2>2. cache_' = [cache_ EXCEPT ![Root] = n] /\ write_buf' = <<>>
    BY <1>4, <2>1 DEF Drain
  <2>3. NodeIn(r, Known, Genuine) /\ Root \notin ToSet(r.kids)
    BY <2>1 DEF CacheInv
  <2>4. s \in Seq(Genuine) /\ ToSet(s) = ToSet(r.buf) \cup ToSet(write_buf)
    <3>1. r.buf \in Seq(Genuine) /\ write_buf \in Seq(Genuine)
      BY <2>3 DEF NodeIn, WritesInv
    <3> HIDE DEF r
    <3> QED
      BY <3>1, ToSetConcat
  <2>5. Merged = StableSort(s)
    BY <2>1 DEF Merged
  <2> HIDE DEF s
  <2>6. Merged \in Seq(Genuine) /\ ToSet(Merged) = ToSet(r.buf) \cup ToSet(write_buf)
    BY <2>4, <2>5, SortFacts, GenuineEntries
  <2> HIDE DEF r
  <2>7. NodeIn(n, Known, Genuine) /\ n.kids = r.kids /\ n.buf = Merged
    BY <2>3, <2>6, BufReplaced
  <2> HIDE DEF n
  <2>8. Covers(ToSet(write_buf') \cup ToSet(n.buf), ToSet(write_buf) \cup ToSet(r.buf))
    <3>1. ToSet(write_buf) \subseteq Genuine /\ ToSet(r.buf) \subseteq Genuine
      BY <2>3, ToSetFacts DEF NodeIn, WritesInv
    <3>2. \A g \in ToSet(write_buf) \cup ToSet(r.buf) : g \in ToSet(n.buf) /\ g.seq <= g.seq
      BY <2>6, <2>7, <3>1, GenuineEntries DEF IsEntries
    <3> QED
      BY <3>2 DEF Covers
  <2>9. manifest_'.next = manifest_.next /\ ValidIds(manifest_') \subseteq DOMAIN cache_
    BY DEF CacheInv
  <2>10. /\ CacheInv' /\ Known' = Known
         /\ DOMAIN cache_' = DOMAIN cache_ /\ cache_'[Root] = n
         /\ \A i \in DOMAIN cache_ \ {Root} : cache_'[i] = cache_[i]
         /\ Covers(Pool', Pool)
    BY <2>1, <2>2, <2>3, <2>7, <2>8, <2>9, NodeReplaced DEF r
  <2>11. NewestKept'
    BY <1>2, <2>10, NewestKeeps DEF Do
  <2>12. \A i \in DOMAIN cache_ : cache_'[i].kids = cache_[i].kids
    BY <2>7, <2>10 DEF r
  <2> QED
    BY <1>2, <2>10, <2>11, <2>12
<1> QED
  BY <1>3, <1>4

LEMMA DrainCalls ==
  ASSUME NEW K, NEW c, NEW calls, NEW last, IsSeq(calls), last.op \in {"done", "return", "closed"},
         calls # <<>> => CallReady(Head(calls), K, c) /\ AllPassive(Tail(calls), K),
         todo' = calls \o <<last>>
  PROVE  CallReady(Head(todo'), K, c) /\ AllPassive(Tail(todo'), K)
<1> DEFINE b == <<last>>
           S == ToSet(calls) \cup {last}
<1>1. b \in Seq(S) /\ calls \in Seq(S) /\ todo' = calls \o b
  BY DEF IsSeq
<1>2. AllPassive(b, K) /\ IsSeq(b)
  BY PassiveOne
<1>3. CASE calls = <<>>
  <2>1. todo' = b
    BY <1>1, <1>3
  <2>2. Head(b) = last /\ Tail(b) = <<>>
    OBVIOUS
  <2>3. ToSet(<<>>) = {}
    BY DEF ToSet
  <2> QED
    BY <2>1, <2>2, <2>3 DEF CallReady, AllPassive
<1> HIDE DEF S
<1>4. CASE calls # <<>>
  <2>1. Head(todo') = Head(calls) /\ Tail(todo') = Tail(calls) \o b
    BY <1>1, <1>4
  <2>2. Tail(calls) \in Seq(S)
    BY <1>1, <1>4
  <2>3. IsSeq(Tail(calls))
    BY <2>2, ToSetFacts DEF IsSeq
  <2> HIDE DEF b
  <2> QED
    BY <1>2, <1>4, <2>1, <2>3, PassiveConcat
<1> QED
  BY <1>3, <1>4

\* BackgroundFlush, Flush and Close.
LEMMA DrainLive ==
  ASSUME LiveInv, BackgroundFlush \/ Flush \/ Close
  PROVE  LiveInv'
<1> DEFINE th == <<[op |-> "throw"]>>
<1>1. ASSUME NEW K, NEW c
      PROVE  CallReady(Head(th), K, c) /\ AllPassive(Tail(th), K) /\ IsSeq(th)
  <2>1. Head(th) = [op |-> "throw"] /\ Tail(th) = <<>> /\ ToSet(<<>>) = {}
    BY DEF ToSet
  <2>2. IsSeq(th)
    BY CallsOne DEF Calls
  <2> QED
    BY <2>1, <2>2 DEF CallReady, AllPassive
<1> HIDE DEF th
<1>2. ASSUME NEW calls, NEW last, Drain(calls, last), todo = <<>>,
             UNCHANGED <<seq_, writes, latest, manifest_>>,
             last.op \in {"done", "return", "closed"}, IsSeq(calls),
             Root \in DOMAIN cache_ /\ calls # <<>> /\ DOMAIN cache_' = DOMAIN cache_
             /\ (\A i \in DOMAIN cache_ : cache_'[i].kids = cache_[i].kids) =>
               CallReady(Head(calls), Known, cache_') /\ AllPassive(Tail(calls), Known)
      PROVE  LiveInv'
  <2> DEFINE c == IF Readable(Root) THEN calls ELSE th
  <2>1. todo' = c \o <<last>>
    BY <1>2 DEF Drain, th
  <2>2. /\ WritesInv' /\ CacheInv' /\ NewestKept' /\ Known' = Known
        /\ DOMAIN cache_' = DOMAIN cache_
        /\ \A i \in DOMAIN cache_ : cache_'[i].kids = cache_[i].kids
    BY <1>2, DrainMemory
  <2>3. /\ IsSeq(c)
        /\ c # <<>> => CallReady(Head(c), Known, cache_') /\ AllPassive(Tail(c), Known)
    BY <1>1, <1>2, <2>2, ReadableCached DEF LiveInv
  <2> HIDE DEF c
  <2>4. CallReady(Head(todo'), Known, cache_') /\ AllPassive(Tail(todo'), Known)
    BY <1>2, <2>1, <2>3, DrainCalls
  <2> QED
    BY <2>2, <2>4 DEF LiveInv, CallsInv
<1>3. CASE BackgroundFlush
  <2> DEFINE over == OnOverflow(Root, Node(Root), <<Root>>)
             calls == IF buffer_full(Merged) THEN over ELSE <<>>
             last == [op |-> "done"]
  <2>1. Drain(calls, last) /\ todo = <<>> /\ UNCHANGED <<seq_, writes, latest, manifest_>>
    BY <1>3 DEF BackgroundFlush, history
  <2>2. IsSeq(calls)
    BY CallsOne, CallsNone DEF OnOverflow, Calls
  <2>3. ASSUME Root \in DOMAIN cache_, over # <<>>, DOMAIN cache_' = DOMAIN cache_,
               \A i \in DOMAIN cache_ : cache_'[i].kids = cache_[i].kids
        PROVE  CallReady(Head(over), Known, cache_') /\ AllPassive(Tail(over), Known)
    <3> DEFINE f == [op |-> "do_flush", id |-> Root]
               l == [op |-> "split_leaf", id |-> Root, path |-> <<Root>>]
    <3>1. (over = <<f>> /\ cache_[Root].kids # <<>>) \/ over = <<l>>
      BY <2>3 DEF OnOverflow, Node
    <3>2. /\ f.op = "do_flush" /\ f.id = Root
          /\ l.op = "split_leaf" /\ l.id = Root /\ Head(l.path) = Root
      OBVIOUS
    <3>3. Root \in Known
      BY <2>3 DEF LiveInv, CacheInv
    <3> HIDE DEF f, l
    <3>4. Tail(<<f>>) = <<>> /\ Tail(<<l>>) = <<>>
      OBVIOUS
    <3>5. AllPassive(<<>>, Known)
      BY DEF AllPassive, ToSet
    <3>6. over = <<f>> => Head(over) = f
      OBVIOUS
    <3>7. over = <<l>> => Head(over) = l
      OBVIOUS
    <3> HIDE DEF over
    <3> QED
      BY <2>3, <3>1, <3>2, <3>3, <3>4, <3>5, <3>6, <3>7 DEF CallReady
  <2> HIDE DEF over
  <2>4. last.op = "done"
    OBVIOUS
  <2> HIDE DEF last
  <2> QED
    BY <1>2, <2>1, <2>2, <2>3, <2>4
<1>4. ASSUME NEW end \in {"return", "closed"}, PersistRoot(end) PROVE LiveInv'
  <2> DEFINE last == [op |-> end, covers |-> [k \in Keys |-> latest[k].val]]
  <2>1. Drain(RootWrites, last) /\ todo = <<>> /\ UNCHANGED <<seq_, writes, latest, manifest_>>
    BY <1>4 DEF PersistRoot, history
  <2> DEFINE s == <<Persist(Root), Save>>
  <2>2. Head(s) = Persist(Root) /\ Tail(s) = <<Save>> /\ s \in Seq({Persist(Root), Save})
    OBVIOUS
  <2>3. IsSeq(s)
    BY <2>2, ToSetFacts DEF IsSeq
  <2>4. ASSUME Root \in DOMAIN cache_, DOMAIN cache_' = DOMAIN cache_
        PROVE  CallReady(Head(s), Known, cache_') /\ AllPassive(Tail(s), Known)
    <3>1. AllPassive(<<Save>>, Known)
      BY PassiveOne DEF Save
    <3>2. CallReady(Persist(Root), Known, cache_')
      BY <2>4 DEF CallReady, Persist
    <3> QED
      BY <2>2, <3>1, <3>2
  <2>5. RootWrites = <<>> \/ RootWrites = s
    BY DEF RootWrites
  <2>6. IsSeq(<<>>)
    BY CallsNone DEF Calls
  <2>7. last.op \in {"done", "return", "closed"}
    BY <1>4
  <2> HIDE DEF s, last
  <2> QED
    BY <1>2, <2>1, <2>3, <2>4, <2>5, <2>6, <2>7
<1> QED
  BY <1>3, <1>4 DEF Flush, Close

LEMMA PairFacts ==
  ASSUME NEW x, NEW y
  PROVE  /\ <<x>> \o <<y>> = <<x, y>> /\ Head(<<x, y>>) = x /\ Tail(<<x, y>>) = <<y>>
         /\ IsSeq(<<x, y>>)
<1>1. <<x>> \o <<y>> = <<x, y>>
  <2>1. <<x>> \in Seq({x, y}) /\ <<y>> \in Seq({x, y}) /\ Len(<<x>>) = 1 /\ Len(<<y>>) = 1
    OBVIOUS
  <2>2. /\ Len(<<x>> \o <<y>>) = 2 /\ (<<x>> \o <<y>>)[1] = x /\ (<<x>> \o <<y>>)[2] = y
        /\ <<x>> \o <<y>> \in Seq({x, y})
    BY <2>1
  <2>3. <<x, y>> \in Seq({x, y}) /\ Len(<<x, y>>) = 2 /\ <<x, y>>[1] = x /\ <<x, y>>[2] = y
    OBVIOUS
  <2>4. \A i \in 1..2 : i = 1 \/ i = 2
    OBVIOUS
  <2> QED
    BY <2>2, <2>3, <2>4, SeqEqual
<1>2. Head(<<x, y>>) = x /\ Tail(<<x, y>>) = <<y>>
  OBVIOUS
<1>3. <<x, y>> \in Seq({x, y})
  OBVIOUS
<1>4. IsSeq(<<x, y>>)
  BY <1>3, ToSetFacts DEF IsSeq
<1> QED
  BY <1>1, <1>2, <1>4

\* Steps that leave the entries and the nodes in memory alone.
LEMMA QuietLive ==
  ASSUME QueueInv, LiveInv,
         \/ \E k \in Keys : Get(k)
         \/ RequestFlush \/ Done \/ Return \/ Opened \/ SaveManifest \/ CheckChild
  PROVE  LiveInv'
<1>1. ASSUME UNCHANGED <<write_buf, seq_, writes, latest, memory, todo>> PROVE LiveInv'
  <2>1. WritesInv' /\ CacheInv' /\ Known' = Known /\ (Do("throw")' \/ ~Do("throw") => NewestKept')
    BY <1>1, MemoryKept DEF memory
  <2>2. Do("throw")' \/ ~Do("throw")
    BY <1>1 DEF Do
  <2>3. CallsInv'
    BY <1>1, <2>1 DEF LiveInv, CallsInv, memory
  <2> QED
    BY <2>1, <2>2, <2>3 DEF LiveInv
<1>2. ASSUME NEW k \in Keys, Get(k) PROVE LiveInv'
  <2> DEFINE ids == {id \in Visited(k) : Readable(id)}
  <2>1. ids \subseteq DOMAIN cache_
    BY ReadableCached DEF LiveInv
  <2>2. Cached(ids) = cache_
    BY <2>1, ReadableCached DEF LiveInv
  <2>3. cache_' = cache_ \/ cache_' = Cached(ids)
    BY <1>2 DEF Get
  <2>4. UNCHANGED <<write_buf, seq_, writes, latest, memory, todo>>
    BY <1>2, <2>2, <2>3 DEF Get, memory, history
  <2> QED
    BY <1>1, <2>4
<1>3. CASE RequestFlush
  BY <1>1, <1>3 DEF RequestFlush, history
<1>4. ASSUME UNCHANGED <<write_buf, seq_, writes, latest, memory>>, NEW op, Do(op), op # "throw",
             NEW ops, IsSeq(ops), Call(ops),
             ops # <<>> => CallReady(Head(ops), Known, cache_) /\ AllPassive(Tail(ops), Known)
      PROVE  LiveInv'
  <2>1. todo # <<>> /\ ~Do("throw")
    BY <1>4 DEF Do
  <2>2. WritesInv' /\ CacheInv' /\ Known' = Known /\ (Do("throw")' \/ ~Do("throw") => NewestKept')
    BY <1>4, MemoryKept DEF memory
  <2>3. cache_' = cache_
    BY <1>4 DEF memory
  <2>4. CallsInv'
    BY <1>4, <2>1, <2>2, <2>3, CallsStep DEF LiveInv
  <2> QED
    BY <2>1, <2>2, <2>4 DEF LiveInv
<1>5. IsSeq(<<>>)
  BY CallsNone DEF Calls
<1>6. CASE Done \/ Return \/ Opened \/ SaveManifest
  <2>1. /\ Do("done") \/ Do("return") \/ Do("opened") \/ Do("save")
        /\ Call(<<>>) /\ UNCHANGED <<write_buf, seq_, writes, latest, memory>>
    BY <1>6 DEF Done, Return, Opened, SaveManifest, history
  <2> QED
    BY <1>4, <1>5, <2>1
<1>7. CASE CheckChild
  <2> DEFINE op == Head(todo)
             c == Head(op.kids)
             n == Unchecked(op)
             rest == <<n>>
             over == OnOverflow(c, cache_[c], <<op.id, c>>)
             f == [op |-> "do_flush", id |-> c]
             l == [op |-> "split_leaf", id |-> c, path |-> <<op.id, c>>]
  <2>1. Do("check") /\ UNCHANGED <<write_buf, seq_, writes, latest, memory>> /\ todo # <<>>
    BY <1>7 DEF CheckChild, history, Do
  <2>2. Call(<<>>) \/ Call(rest) \/ (Call(over \o rest) /\ c \in DOMAIN cache_)
    BY <1>7 DEF CheckChild
  <2>3. op.id \in Known
    BY <2>1 DEF LiveInv, CallsInv, CallReady, Do
  <2>4. n.op = "check" /\ n.id = op.id
    BY DEF Unchecked, Check
  <2>5. (over = <<f>> /\ cache_[c].kids # <<>>) \/ over = <<l>> \/ over = <<>>
    BY DEF OnOverflow
  <2>6. /\ f.op = "do_flush" /\ f.id = c
        /\ l.op = "split_leaf" /\ l.id = c /\ Head(l.path) = op.id
    OBVIOUS
  <2> HIDE DEF n, f, l, c, op, over
  <2>7. AllPassive(rest, Known) /\ IsSeq(rest)
    BY <2>3, <2>4, PassiveOne
  <2>8. /\ <<f>> \o rest = <<f, n>> /\ Head(<<f, n>>) = f /\ Tail(<<f, n>>) = rest
        /\ IsSeq(<<f, n>>)
    BY PairFacts
  <2>9. /\ <<l>> \o rest = <<l, n>> /\ Head(<<l, n>>) = l /\ Tail(<<l, n>>) = rest
        /\ IsSeq(<<l, n>>)
    BY PairFacts
  <2>10. <<>> \o rest = rest /\ Head(rest) = n /\ Tail(rest) = <<>> /\ AllPassive(<<>>, Known)
    BY DEF AllPassive, ToSet
  <2>11. CallReady(n, Known, cache_)
    BY <2>3, <2>4 DEF CallReady
  <2>12. CASE Call(<<>>)
    BY <1>4, <1>5, <2>1, <2>12
  <2>13. CASE Call(rest) \/ (Call(over \o rest) /\ over = <<>>)
    <3>1. Call(rest)
      BY <2>10, <2>13
    <3> QED
      BY <1>4, <2>1, <2>7, <2>10, <2>11, <3>1
  <2>14. CASE Call(over \o rest) /\ c \in DOMAIN cache_ /\ over = <<f>> /\ cache_[c].kids # <<>>
    <3>1. CallReady(f, Known, cache_)
      BY <2>6, <2>14 DEF CallReady
    <3>2. IsSeq(<<f, n>>) /\ Call(<<f, n>>)
      BY <2>8, <2>14
    <3> QED
      BY <1>4, <2>1, <2>7, <2>8, <3>1, <3>2
  <2>15. CASE Call(over \o rest) /\ c \in DOMAIN cache_ /\ over = <<l>>
    <3>1. CallReady(l, Known, cache_)
      BY <2>3, <2>6, <2>15 DEF CallReady
    <3>2. IsSeq(<<l, n>>) /\ Call(<<l, n>>)
      BY <2>9, <2>15
    <3> QED
      BY <1>4, <2>1, <2>7, <2>9, <3>1, <3>2
  <2> QED
    BY <2>2, <2>5, <2>12, <2>13, <2>14, <2>15
<1> QED
  BY <1>2, <1>3, <1>6, <1>7

\* gc forgets nodes that are not valid; flush_to_disk sorts the buffer of one.
LEMMA DiskLive ==
  ASSUME QueueInv, FilesInv, LiveInv, PersistNode \/ CollectGarbage
  PROVE  LiveInv' /\ Covers(Held', Held)
<1>1. IsSeq(<<>>)
  BY CallsNone DEF Calls
<1>2. CASE CollectGarbage
  <2>1. /\ Do("gc") /\ UNCHANGED <<write_buf, seq_, writes, latest, cache_>>
        /\ \/ Call(<<>>) /\ manifest_' = manifest_
           \/ \E id \in InvalidIds(manifest_) : manifest_' = forget(manifest_, id) /\ todo' = todo
    BY <1>2 DEF CollectGarbage, history
  <2>2. ValidIds(manifest_') = ValidIds(manifest_) /\ manifest_'.next = manifest_.next
    BY <2>1, ForgetFacts DEF FilesInv
  <2>3. todo # <<>> /\ ~Do("throw")
    BY <2>1 DEF Do
  <2>4. WritesInv' /\ CacheInv' /\ Known' = Known /\ NewestKept'
    BY <2>1, <2>2, <2>3, MemoryKept
  <2>7. Covers(Held', Held)
    <3>1. Held' = Held /\ Held \subseteq Genuine
      BY <2>1, HeldFacts DEF Held, LiveInv
    <3> QED
      BY <3>1, CoversSelf, GenuineEntries
  <2>5. CASE Call(<<>>)
    BY <1>1, <2>3, <2>4, <2>5, <2>7, CallsStep DEF LiveInv
  <2>6. CASE todo' = todo
    BY <2>1, <2>4, <2>6, <2>7 DEF LiveInv, CallsInv
  <2> QED
    BY <2>1, <2>5, <2>6
<1>3. CASE PersistNode
  <2> DEFINE id == Head(todo).id
             r == cache_[id]
             n == flush_to_disk(r)
  <2>1. /\ Do("persist") /\ Call(<<>>) /\ UNCHANGED <<write_buf, seq_, writes, latest>>
        /\ manifest_' = register(manifest_, {id}) /\ cache_' = [cache_ EXCEPT ![id] = n]
    BY <1>3 DEF PersistNode, history
  <2>2. todo # <<>> /\ ~Do("throw") /\ id \in DOMAIN cache_
    BY <2>1 DEF Do, LiveInv, CallsInv, CallReady
  <2>3. manifest_'.next = manifest_.next /\ ValidIds(manifest_') = ValidIds(manifest_) \cup {id}
    BY <2>1, RegisterFacts DEF FilesInv
  <2>4. NodeIn(r, Known, Genuine) /\ id \notin ToSet(r.kids)
    BY <2>2 DEF LiveInv, CacheInv
  <2> HIDE DEF r
  <2>5. NodeIn(n, Known, Genuine) /\ n.kids = r.kids /\ Covers(ToSet(n.buf), ToSet(r.buf))
    BY <2>4, FlushToDiskFacts, GenuineEntries DEF Inherits
  <2> HIDE DEF n, id
  <2>6. ValidIds(manifest_') \subseteq DOMAIN cache_
    BY <2>2, <2>3 DEF LiveInv, CacheInv
  <2>7. Covers(ToSet(write_buf') \cup ToSet(n.buf), ToSet(write_buf) \cup ToSet(r.buf))
    <3>1. \A g \in ToSet(write_buf) : g.seq <= g.seq
      BY PoolFacts, GenuineEntries DEF IsEntries, LiveInv
    <3> QED
      BY <2>1, <2>5, <3>1 DEF Covers
  <2>8. /\ CacheInv' /\ Known' = Known /\ Genuine' = Genuine /\ Covers(Pool', Pool)
        /\ Covers(Held', Held)
    BY <2>1, <2>2, <2>3, <2>4, <2>5, <2>6, <2>7, NodeReplaced DEF LiveInv, r
  <2>9. WritesInv'
    BY <2>1, <2>8 DEF LiveInv, WritesInv
  <2>10. NewestKept'
    BY <2>1, <2>2, <2>8, <2>9, NewestKeeps DEF LiveInv
  <2>11. CallsInv'
    BY <1>1, <2>1, <2>2, <2>8, CallsStep DEF LiveInv
  <2> QED
    BY <2>8, <2>9, <2>10, <2>11 DEF LiveInv
<1> QED
  BY <1>2, <1>3

-----------------------------------------------------------------------------
(* Splits *)

LEMMA WithSplitFacts ==
  ASSUME NEW K, NEW kids \in Seq(K), NEW old \in ToSet(kids), NEW left \in K, NEW right \in K
  PROVE  /\ WithSplit(kids, old, left, right) \in Seq(K)
         /\ ToSet(WithSplit(kids, old, left, right)) \subseteq ToSet(kids) \cup {left, right}
<1> DEFINE i == CHOOSE j \in DOMAIN kids : kids[j] = old
           a == SubSeq(kids, 1, i - 1)
           c == <<left, right>>
           b == SubSeq(kids, i + 1, Len(kids))
           d == a \o c
<1>1. WithSplit(kids, old, left, right) = d \o b
  BY DEF WithSplit
<1>2. \E j \in DOMAIN kids : kids[j] = old
  BY ToSetFacts
<1>3. i \in 1..Len(kids) /\ Len(kids) \in Nat
  BY <1>2
<1> HIDE DEF i
<1>4. /\ i - 1 \in Nat /\ i - 1 <= Len(kids) /\ i + 1 \in Nat \ {0}
      /\ 1..i - 1 \subseteq 1..Len(kids) /\ i + 1..Len(kids) \subseteq 1..Len(kids)
  BY <1>3
<1>5. ToSet(kids) = {kids[j] : j \in 1..Len(kids)}
  BY ToSetFacts
<1>6. a \in Seq(K) /\ ToSet(a) \subseteq ToSet(kids)
  <2>1. a \in Seq(K) /\ ToSet(a) = {kids[j] : j \in 1..i - 1}
    BY <1>4, ToSetSubSeq
  <2> QED
    BY <1>4, <1>5, <2>1
<1>7. b \in Seq(K) /\ ToSet(b) \subseteq ToSet(kids)
  <2>1. b \in Seq(K) /\ ToSet(b) = {kids[j] : j \in i + 1..Len(kids)}
    BY <1>3, <1>4, ToSetSubSeq
  <2> QED
    BY <1>4, <1>5, <2>1
<1>8. c \in Seq(K) /\ ToSet(c) = {left, right}
  BY DEF ToSet
<1> HIDE DEF a, b, c
<1>9. d \in Seq(K) /\ ToSet(d) = ToSet(a) \cup ToSet(c)
  BY <1>6, <1>8, ToSetConcat
<1> HIDE DEF d
<1>10. d \o b \in Seq(K) /\ ToSet(d \o b) = ToSet(d) \cup ToSet(b)
  BY <1>7, <1>9, ToSetConcat
<1> QED
  BY <1>1, <1>6, <1>7, <1>8, <1>9, <1>10

\* The two halves of a sequence have all of it.
LEMMA HalvesFacts ==
  ASSUME NEW E, NEW s \in Seq(E)
  PROVE  /\ LeftHalf(s) \in Seq(E) /\ RightHalf(s) \in Seq(E)
         /\ ToSet(s) = ToSet(LeftHalf(s)) \cup ToSet(RightHalf(s))
<1> DEFINE n == Len(s) \div 2
<1>1. n \in Nat /\ n <= Len(s) /\ Len(s) \in Nat
  OBVIOUS
<1>2. LeftHalf(s) = SubSeq(s, 1, n) /\ RightHalf(s) = SubSeq(s, n + 1, Len(s))
  BY DEF LeftHalf, RightHalf
<1> HIDE DEF n
<1>3. SubSeq(s, 1, n) \in Seq(E) /\ ToSet(SubSeq(s, 1, n)) = {s[i] : i \in 1..n}
  BY <1>1, ToSetSubSeq
<1>4. n + 1 \in Nat \ {0}
  BY <1>1
<1>5. /\ SubSeq(s, n + 1, Len(s)) \in Seq(E)
      /\ ToSet(SubSeq(s, n + 1, Len(s))) = {s[i] : i \in n + 1..Len(s)}
  BY <1>1, <1>4, ToSetSubSeq
<1>6. ToSet(s) = {s[i] : i \in 1..Len(s)} /\ 1..Len(s) = (1..n) \cup (n + 1..Len(s))
  BY <1>1, ToSetFacts
<1> QED
  BY <1>2, <1>3, <1>5, <1>6, SMTT(30)

\* insert_child into a parent with a free slot.
LEMMA InsertChildLive ==
  ASSUME QueueInv, FilesInv, LiveInv, InsertChild
  PROVE  LiveInv' /\ Covers(Held', Held)
<1> DEFINE op == Head(todo)
           id == op.id
           parent == cache_[id]
           kids == IF op.old \notin ToSet(parent.kids) THEN parent.kids
                   ELSE WithSplit(parent.kids, op.old, op.left, op.right)
           m == [parent EXCEPT !.kids = kids]
           n == Spanning(m, Node(Head(kids)), Node(Last(kids)))
<1> USE DEF LiveInv
<1>1. Do("insert_child") /\ todo # <<>> /\ ~Do("throw")
  BY DEF InsertChild, Do
<1>2. Missing(op) = {}
  BY DEF InsertChild
<1>3. Readable(id)
  BY <1>2 DEF Missing
<1>4. id \in DOMAIN cache_ /\ Node(id) = parent /\ Cached({id}) = cache_
  BY <1>3, ReadableCached
<1>5. /\ cache_' = [cache_ EXCEPT ![id] = n] /\ Call(<<Persist(id)>>)
      /\ UNCHANGED <<write_buf, seq_, writes, latest, manifest_>>
  <2>1. /\ cache_' = [Cached({op.id}) EXCEPT
                         ![op.id] =
                           LET p == Node(op.id)
                               k == IF op.old \notin ToSet(p.kids) THEN p.kids
                                    ELSE WithSplit(p.kids, op.old, op.left, op.right)
                           IN  Spanning([p EXCEPT !.kids = k], Node(Head(k)), Node(Last(k)))]
        /\ Call(<<Persist(op.id)>>) /\ UNCHANGED <<write_buf, seq_, manifest_, history>>
    BY Zenon DEF InsertChild
  <2> QED
    BY <1>4, <2>1 DEF history
<1>6. NodeIn(parent, Known, Genuine) /\ id \notin ToSet(parent.kids)
  BY <1>4 DEF CacheInv
<1>7. /\ op.left \in Known /\ op.right \in Known
      /\ id \in {op.left, op.right} => op.old \notin ToSet(parent.kids)
  BY <1>1, <1>4 DEF CallsInv, CallReady, Do
<1> HIDE DEF parent
<1>8. kids \in Seq(Known) /\ id \notin ToSet(kids)
  <2>1. parent.kids \in Seq(Known)
    BY <1>6 DEF NodeIn
  <2>2. CASE op.old \notin ToSet(parent.kids)
    BY <1>6, <2>1, <2>2
  <2>3. CASE op.old \in ToSet(parent.kids)
    <3> DEFINE w == WithSplit(parent.kids, op.old, op.left, op.right)
    <3>1. w \in Seq(Known) /\ ToSet(w) \subseteq ToSet(parent.kids) \cup {op.left, op.right}
      BY <1>7, <2>1, <2>3, WithSplitFacts
    <3> HIDE DEF w
    <3>2. id \notin ToSet(w)
      BY <1>6, <1>7, <2>3, <3>1
    <3>3. kids = w
      BY <2>3 DEF w
    <3> QED
      BY <3>1, <3>2, <3>3
  <2> QED
    BY <2>2, <2>3
<1> HIDE DEF kids
<1>9. NodeIn(m, Known, Genuine) /\ m.kids = kids /\ m.buf = parent.buf
  BY <1>6, <1>8, KidsReplaced
<1> HIDE DEF m
<1>10. NodeIn(n, Known, Genuine) /\ n.kids = kids /\ n.buf = parent.buf
  BY <1>9, SpanningFacts
<1> HIDE DEF n
<1>11. Covers(ToSet(write_buf') \cup ToSet(n.buf), ToSet(write_buf) \cup ToSet(parent.buf))
  <2>1. ToSet(write_buf) \subseteq Genuine /\ ToSet(parent.buf) \subseteq Genuine
    BY <1>6, ToSetFacts DEF NodeIn, WritesInv
  <2>2. \A g \in ToSet(write_buf) \cup ToSet(parent.buf) :
          g \in ToSet(write_buf') \cup ToSet(n.buf) /\ g.seq <= g.seq
    BY <1>5, <1>10, <2>1, GenuineEntries DEF IsEntries
  <2> QED
    BY <2>2 DEF Covers
<1>17. Covers(ToSet(n.buf), ToSet(parent.buf))
  <2>1. ToSet(parent.buf) \subseteq Genuine
    BY <1>6, ToSetFacts DEF NodeIn
  <2>2. \A g \in ToSet(parent.buf) : g \in ToSet(n.buf) /\ g.seq <= g.seq
    BY <1>10, <2>1, GenuineEntries DEF IsEntries
  <2> QED
    BY <2>2 DEF Covers
<1>12. manifest_'.next = manifest_.next /\ ValidIds(manifest_') \subseteq DOMAIN cache_
  BY <1>5 DEF CacheInv
<1> HIDE DEF id
<1>13. /\ CacheInv' /\ Known' = Known /\ Genuine' = Genuine /\ Covers(Pool', Pool)
       /\ DOMAIN cache_' = DOMAIN cache_ /\ Covers(Held', Held)
  BY <1>4, <1>5, <1>8, <1>10, <1>11, <1>12, <1>17, NodeReplaced DEF parent
<1>14. WritesInv'
  BY <1>5, <1>13 DEF WritesInv
<1>15. NewestKept'
  BY <1>1, <1>5, <1>13, <1>14, NewestKeeps
<1>16. CallsInv'
  <2> DEFINE s == <<Persist(id)>>
  <2>1. Head(s) = Persist(id) /\ Tail(s) = <<>> /\ AllPassive(<<>>, Known')
    BY DEF AllPassive, ToSet
  <2>2. IsSeq(s)
    BY CallsOne DEF Calls, Persist
  <2>3. CallReady(Persist(id), Known', cache_')
    BY <1>4, <1>13 DEF CallReady, Persist
  <2> HIDE DEF s
  <2>4. s # <<>> => CallReady(Head(s), Known', cache_') /\ AllPassive(Tail(s), Known')
    BY <2>1, <2>3
  <2>5. Call(s)
    BY <1>5 DEF s
  <2> QED
    BY <1>1, <1>13, <2>2, <2>4, <2>5, CallsStep
<1> QED
  BY <1>13, <1>14, <1>15, <1>16

LEMMA IntervalFacts ==
  ASSUME NEW l \in Nat
  PROVE  /\ {l, l + 1} = l..l + 1 /\ Cardinality(l..l + 1) = 2
         /\ {l, l + 1, l + 2} = l..l + 2 /\ Cardinality(l..l + 2) = 3
<1>1. Cardinality(l..l + 1) = 2
  <2>1. l \in Int /\ l + 1 \in Int /\ ~(l > l + 1) /\ (l + 1) - l + 1 = 2
    OBVIOUS
  <2> QED
    BY <2>1, FS_Interval
<1>2. Cardinality(l..l + 2) = 3
  <2>1. l \in Int /\ l + 2 \in Int /\ ~(l > l + 2) /\ (l + 2) - l + 1 = 3
    OBVIOUS
  <2> QED
    BY <2>1, FS_Interval
<1> QED
  BY <1>1, <1>2

\* A node in memory gives way to two that have its children and its entries, under
\* a new root when it was the root.
LEMMA ReplaceMemory ==
  ASSUME FilesInv, LiveInv, ~Do("throw"), UNCHANGED <<write_buf, seq_, writes, latest>>,
         NEW gone \in DOMAIN cache_, NEW a, NEW b, NEW isRoot \in BOOLEAN, NEW loaded,
         loaded \subseteq DOMAIN cache_, Replace(gone, a, b, isRoot, loaded),
         NodeIn(a, Known, Genuine), NodeIn(b, Known, Genuine),
         Covers(ToSet(a.buf) \cup ToSet(b.buf), ToSet(cache_[gone].buf))
  PROVE  /\ WritesInv' /\ CacheInv' /\ NewestKept'
         /\ Known \subseteq Known' /\ manifest_.next \in Known' /\ manifest_.next + 1 \in Known'
         /\ cache_'[manifest_.next] = a /\ cache_'[manifest_.next + 1] = b
         /\ Covers(Held', Held)
<1> DEFINE l == manifest_.next
           r == l + 1
           fresh == create(a.level + 1, <<>>, <<l, r>>)
           top == Spanning(fresh, a, b)
           made == IF isRoot THEN {l, r, l + 2} ELSE {l, r}
           New(id) == IF id = l THEN a ELSE IF id = r THEN b ELSE top
           m1 == register(manifest_, made)
           m2 == invalidate(m1, {gone})
           m3 == take_ids(m2, Cardinality(made))
           m4 == set_root(m3, IF isRoot THEN l + 2 ELSE Root)
<1> USE DEF LiveInv
<1>1. /\ cache_' = [id \in (DOMAIN cache_ \cup made \cup loaded) \ {gone} |->
                       IF id \in made THEN New(id) ELSE Node(id)]
      /\ manifest_' = m4
  BY Zenon DEF Replace
<1>2. l \in Nat /\ DOMAIN cache_ \subseteq Known /\ \A i \in Known : i \in Nat /\ i < l
  BY DEF CacheInv, Known
<1>3. /\ \A i \in made : i \in Nat /\ i >= l /\ i \notin Known
      /\ l \in made /\ r \in made /\ Cardinality(made) \in Nat
      /\ \A i \in made : i < l + Cardinality(made)
  <2>1. made = l..l + 1 \/ made = l..l + 2
    BY <1>2, IntervalFacts
  <2>2. Cardinality(l..l + 1) = 2 /\ Cardinality(l..l + 2) = 3
    BY <1>2, IntervalFacts
  <2>3. \A i \in Known : i \in Nat /\ i < l
    BY <1>2
  <2> HIDE DEF made
  <2> QED
    BY <1>2, <2>1, <2>2, <2>3
<1>4. /\ ValidIds(manifest_') = (ValidIds(manifest_) \cup made) \ {gone}
      /\ manifest_'.next = l + Cardinality(made)
  <2> HIDE DEF made
  <2>1. Shaped(m1) /\ ValidIds(m1) = ValidIds(manifest_) \cup made /\ m1.next = l
    BY RegisterFacts DEF FilesInv
  <2> HIDE DEF m1
  <2>2. Shaped(m2) /\ ValidIds(m2) = ValidIds(m1) \ {gone} /\ m2.next = l
    BY <2>1, InvalidateFacts
  <2> HIDE DEF m2
  <2>3. Shaped(m3) /\ ValidIds(m3) = ValidIds(m2) /\ m3.next = l + Cardinality(made)
    BY <2>2, TakeIdsFacts
  <2> HIDE DEF m3
  <2>4. ValidIds(m4) = ValidIds(m3) /\ m4.next = l + Cardinality(made)
    BY <2>3, SetRootFacts
  <2> HIDE DEF m4
  <2> QED
    BY <1>1, <2>1, <2>2, <2>3, <2>4
<1>5. Known' = {i \in Nat : i < l + Cardinality(made)}
  BY <1>4 DEF Known
<1> DEFINE K == Known'
<1>6. Known \subseteq K /\ made \subseteq K /\ manifest_'.next \in Nat
  <2> HIDE DEF made
  <2> QED
    BY <1>2, <1>3, <1>4, <1>5 DEF Known
<1>7. /\ DOMAIN cache_' = (DOMAIN cache_ \cup made) \ {gone} /\ made \subseteq DOMAIN cache_'
      /\ \A i \in made : cache_'[i] = New(i)
      /\ \A i \in DOMAIN cache_ \ {gone} : i \in DOMAIN cache_' /\ cache_'[i] = cache_[i]
      /\ cache_' = [i \in DOMAIN cache_' |-> cache_'[i]]
  <2>1. gone \notin made /\ \A i \in DOMAIN cache_ : i \notin made
    BY <1>2, <1>3
  <2>2. \A i \in DOMAIN cache_ : Node(i) = cache_[i]
    BY DEF Node
  <2> HIDE DEF made, New
  <2>3. (DOMAIN cache_ \cup made \cup loaded) \ {gone} = (DOMAIN cache_ \cup made) \ {gone}
    OBVIOUS
  <2>4. DOMAIN cache_' = (DOMAIN cache_ \cup made) \ {gone}
    BY <1>1, <2>3
  <2>5. \A i \in DOMAIN cache_' : cache_'[i] = IF i \in made THEN New(i) ELSE Node(i)
    BY <1>1, <2>3
  <2>6. cache_' = [i \in DOMAIN cache_' |-> cache_'[i]]
    BY <1>1
  <2> QED
    BY <2>1, <2>2, <2>4, <2>5, <2>6
<1>8. cache_'[l] = a /\ cache_'[r] = b /\ l # r
  BY <1>2, <1>3, <1>7
<1>9. Genuine' = Genuine
  BY DEF Genuine
<1>10. WritesInv'
  BY <1>9 DEF WritesInv
<1>11. isRoot => NodeIn(top, K, Genuine) /\ l + 2 \notin ToSet(top.kids)
  <2> SUFFICES ASSUME isRoot PROVE NodeIn(top, K, Genuine) /\ l + 2 \notin ToSet(top.kids)
    OBVIOUS
  <2> DEFINE e == << >>
             c == <<l, r>>
  <2>1. e \in Seq(Genuine) /\ c \in Seq(K) /\ ToSet(c) = {l, r}
    BY <1>3, <1>6 DEF ToSet
  <2> HIDE DEF e, c, K
  <2>2. /\ NodeIn(create(a.level + 1, e, c), K, Genuine)
        /\ ToSet(create(a.level + 1, e, c).kids) \subseteq ToSet(c)
    BY <2>1, CreateFacts, GenuineEntries
  <2>3. fresh = create(a.level + 1, e, c)
    BY DEF e, c
  <2> HIDE DEF fresh
  <2>4. NodeIn(top, K, Genuine) /\ top.kids = fresh.kids
    BY <2>2, <2>3, SpanningFacts
  <2>5. l + 2 # l /\ l + 2 # r
    BY <1>2
  <2> QED
    BY <2>1, <2>2, <2>3, <2>4, <2>5
<1>12. \A i \in made : NodeIn(New(i), K, Genuine) /\ i \notin ToSet(New(i).kids)
  <2>1. NodeIn(a, K, Genuine) /\ NodeIn(b, K, Genuine)
    BY <1>6, NodeInWider
  <2>2. a.kids \in Seq(Known) /\ b.kids \in Seq(Known)
    BY DEF NodeIn
  <2>3. ToSet(a.kids) \subseteq Known /\ ToSet(b.kids) \subseteq Known
    BY <2>2, ToSetFacts
  <2>4. l \notin ToSet(a.kids) /\ r \notin ToSet(b.kids)
    BY <1>3, <2>3
  <2> HIDE DEF top, K
  <2> QED
    BY <1>8, <1>11, <2>1, <2>4
<1>13. CacheInv'
  <2>1. ASSUME NEW i \in DOMAIN cache_ \ {gone}
        PROVE  NodeIn(cache_[i], K, Genuine) /\ i \notin ToSet(cache_[i].kids)
    BY <1>6, NodeInWider DEF CacheInv
  <2>2. ValidIds(manifest_') \subseteq DOMAIN cache_'
    BY <1>4, <1>7 DEF CacheInv
  <2>3. DOMAIN cache_' \subseteq K
    BY <1>2, <1>6, <1>7
  <2>4. \A i \in DOMAIN cache_' :
          NodeIn(cache_'[i], K, Genuine) /\ i \notin ToSet(cache_'[i].kids)
    <3> HIDE DEF New, made, K
    <3> QED
      BY <1>7, <1>12, <2>1
  <2> QED
    BY <1>6, <1>7, <1>9, <2>2, <2>3, <2>4 DEF CacheInv
<1>14. Covers(Held', Held)
  <2> SUFFICES ASSUME NEW g \in Held PROVE \E e \in Held' : e.key = g.key /\ g.seq <= e.seq
    BY DEF Covers
  <2>1. g.seq <= g.seq
    BY HeldFacts, GenuineEntries DEF IsEntries
  <2>2. ASSUME NEW i \in DOMAIN cache_ \ {gone}, g \in ToSet(cache_[i].buf) PROVE g \in Held'
    BY <1>7, <2>2 DEF Held
  <2>3. CASE g \in ToSet(cache_[gone].buf)
    <3>1. ToSet(a.buf) \cup ToSet(b.buf) \subseteq Held'
      BY <1>3, <1>7, <1>8 DEF Held
    <3> QED
      BY <2>3, <3>1 DEF Covers
  <2> QED
    BY <2>1, <2>2, <2>3, HeldFacts
<1>15. NewestKept'
  <2>1. Covers(Pool', Pool)
    BY <1>14, HeldFacts
  <2> QED
    BY <1>10, <1>13, <2>1, NewestKeeps
<1> QED
  BY <1>3, <1>6, <1>8, <1>10, <1>13, <1>14, <1>15

LEMMA CommitCalls ==
  ASSUME NEW K, NEW c, NEW up, up = <<>> \/ \E x : up = <<x>> /\ CallReady(x, K, c)
  PROVE  /\ IsSeq(up \o Commit) /\ up \o Commit # <<>>
         /\ CallReady(Head(up \o Commit), K, c) /\ AllPassive(Tail(up \o Commit), K)
<1>1. AllPassive(Commit, K) /\ IsSeq(Commit)
  BY PassiveCommit
<1>2. CASE up = <<>>
  <2>1. up \o Commit = Commit /\ Commit = <<Save, Gc>>
    BY <1>1, <1>2, ConcatEmptySeq DEF IsSeq, Commit
  <2>2. Head(<<Save, Gc>>) = Save /\ Tail(<<Save, Gc>>) = <<Gc>> /\ <<Save, Gc>> # <<>>
    OBVIOUS
  <2>3. AllPassive(<<Gc>>, K)
    BY PassiveOne DEF Gc
  <2>4. CallReady(Save, K, c)
    BY DEF CallReady, Save
  <2> QED
    BY <1>1, <2>1, <2>2, <2>3, <2>4
<1>3. ASSUME NEW x, up = <<x>>, CallReady(x, K, c)
      PROVE  /\ IsSeq(up \o Commit) /\ up \o Commit # <<>>
             /\ CallReady(Head(up \o Commit), K, c) /\ AllPassive(Tail(up \o Commit), K)
  <2> DEFINE S == {x} \cup ToSet(Commit)
             s == <<x>>
             t == Commit
             u == s \o t
  <2>1. s \in Seq(S) /\ t \in Seq(S) /\ Len(s) = 1 /\ s[1] = x /\ s # <<>>
    BY <1>1 DEF IsSeq
  <2>2. Head(s) = x /\ Tail(s) = <<>>
    OBVIOUS
  <2> HIDE DEF S, s, t
  <2>3. Head(u) = Head(s) /\ Tail(u) = Tail(s) \o t /\ u # <<>> /\ u \in Seq(S)
    BY <2>1
  <2>4. Tail(u) = t
    BY <2>1, <2>2, <2>3, ConcatEmptySeq
  <2>5. IsSeq(u)
    BY <2>3, ToSetFacts DEF IsSeq
  <2> QED
    BY <1>1, <1>3, <2>2, <2>3, <2>4, <2>5 DEF s, t
<1> QED
  BY <1>2, <1>3

LEMMA SplitLeafLive ==
  ASSUME QueueInv, FilesInv, LiveInv, SplitLeaf
  PROVE  LiveInv' /\ Covers(Held', Held)
<1> DEFINE op == Head(todo)
           n == cache_[op.id]
           buf == StableSort(n.buf)
           none == << >>
           a == create(0, LeftHalf(buf), none)
           b == create(0, RightHalf(buf), none)
           isRoot == Len(op.path) = 1
           l == manifest_.next
           ins == [op |-> "insert_child", id |-> Head(op.path), old |-> op.id,
                   left |-> l, right |-> l + 1]
           up == IF isRoot THEN <<>> ELSE <<ins>>
           none2 == {}
<1> USE DEF LiveInv
<1>1. /\ Do("split_leaf") /\ Replace(op.id, a, b, isRoot, none2) /\ Call(up \o Commit)
      /\ UNCHANGED <<write_buf, seq_, writes, latest>>
  BY DEF SplitLeaf, history
<1>2. todo # <<>> /\ ~Do("throw") /\ op.id \in DOMAIN cache_ /\ Head(op.path) \in Known
  BY <1>1 DEF Do, CallsInv, CallReady
<1>3. n.buf \in Seq(Genuine)
  BY <1>2 DEF CacheInv, NodeIn
<1> HIDE DEF n
<1>4. buf \in Seq(Genuine) /\ ToSet(buf) = ToSet(n.buf)
  BY <1>3, SortFacts, GenuineEntries
<1> HIDE DEF buf
<1>5. /\ LeftHalf(buf) \in Seq(Genuine) /\ RightHalf(buf) \in Seq(Genuine)
      /\ ToSet(buf) = ToSet(LeftHalf(buf)) \cup ToSet(RightHalf(buf))
  BY <1>4, HalvesFacts
<1>6. none \in Seq(Known)
  OBVIOUS
<1> HIDE DEF none
<1>7. NodeIn(a, Known, Genuine) /\ Covers(ToSet(a.buf), ToSet(LeftHalf(buf)))
  BY <1>5, <1>6, CreateFacts, GenuineEntries
<1>8. NodeIn(b, Known, Genuine) /\ Covers(ToSet(b.buf), ToSet(RightHalf(buf)))
  BY <1>5, <1>6, CreateFacts, GenuineEntries
<1> HIDE DEF a, b
<1>9. Covers(ToSet(a.buf) \cup ToSet(b.buf), ToSet(n.buf))
  BY <1>4, <1>5, <1>7, <1>8 DEF Covers
<1>10. isRoot \in BOOLEAN /\ none2 \subseteq DOMAIN cache_
  OBVIOUS
<1> HIDE DEF isRoot, none2
<1>11. /\ WritesInv' /\ CacheInv' /\ NewestKept'
       /\ Known \subseteq Known' /\ l \in Known' /\ l + 1 \in Known'
       /\ Covers(Held', Held)
  BY <1>1, <1>2, <1>7, <1>8, <1>9, <1>10, ReplaceMemory DEF n
<1>12. CallReady(ins, Known', cache_')
  <2>1. /\ ins.op = "insert_child" /\ ins.id = Head(op.path) /\ ins.left = l /\ ins.right = l + 1
        /\ ins.old = op.id
    OBVIOUS
  <2>2. Head(op.path) # l /\ Head(op.path) # l + 1
    BY <1>2 DEF Known, CacheInv
  <2> HIDE DEF ins
  <2> QED
    BY <1>11, <2>1, <2>2 DEF CallReady
<1> HIDE DEF ins
<1>13. up = <<>> \/ \E x : up = <<x>> /\ CallReady(x, Known', cache_')
  BY <1>12
<1> HIDE DEF up
<1>14. /\ IsSeq(up \o Commit) /\ up \o Commit # <<>>
       /\ CallReady(Head(up \o Commit), Known', cache_') /\ AllPassive(Tail(up \o Commit), Known')
  BY <1>13, CommitCalls
<1>15. CallsInv'
  BY <1>1, <1>2, <1>11, <1>14, CallsStep
<1> QED
  BY <1>11, <1>15

\* One half of a parent that is split.
HalfNode(level, buf, mine, ids, x, y) ==
  flush_to_disk(Spanning(create(level, Subsequence(buf, mine), ids), x, y))

ElementsAt(s, at) == {s[i] : i \in at}

LEMMA HalfFacts ==
  ASSUME NEW K, NEW G, IsEntries(G), NEW level, NEW buf \in Seq(G), NEW mine,
         mine \subseteq DOMAIN buf, NEW ids \in Seq(K), NEW x, NEW y
  PROVE  /\ NodeIn(HalfNode(level, buf, mine, ids, x, y), K, G)
         /\ ToSet(HalfNode(level, buf, mine, ids, x, y).kids) \subseteq ToSet(ids)
         /\ Covers(ToSet(HalfNode(level, buf, mine, ids, x, y).buf), ElementsAt(buf, mine))
<1> DEFINE s == Subsequence(buf, mine)
           c == create(level, s, ids)
           d == Spanning(c, x, y)
           h == flush_to_disk(d)
<1>1. s \in Seq(G) /\ ToSet(s) = ElementsAt(buf, mine)
  BY ToSetSubsequence DEF ElementsAt
<1> HIDE DEF s
<1>2. /\ NodeIn(c, K, G) /\ ToSet(c.kids) \subseteq ToSet(ids)
      /\ Covers(ToSet(c.buf), ToSet(s))
  BY <1>1, CreateFacts
<1> HIDE DEF c
<1>3. NodeIn(d, K, G) /\ d.kids = c.kids /\ d.buf = c.buf
  BY <1>2, SpanningFacts
<1> HIDE DEF d
<1>4. NodeIn(h, K, G) /\ h.kids = d.kids /\ Covers(ToSet(h.buf), ToSet(d.buf))
  BY <1>3, FlushToDiskFacts DEF Inherits
<1> HIDE DEF h
<1>5. ToSet(h.buf) \subseteq G /\ ToSet(d.buf) \subseteq G /\ ToSet(s) \subseteq G
  BY <1>1, <1>3, <1>4, ToSetFacts DEF NodeIn
<1>6. Covers(ToSet(h.buf), ToSet(s))
  BY <1>2, <1>3, <1>4, <1>5, CoversThrough
<1> QED
  BY <1>1, <1>2, <1>3, <1>4, <1>6 DEF HalfNode, h, d, c, s

LEMMA SplitParentLive ==
  ASSUME QueueInv, FilesInv, LiveInv, SplitParent
  PROVE  LiveInv' /\ Covers(Held', Held)
<1> DEFINE op == Head(todo)
           id == op.id
           parent == cache_[id]
           kids == WithSplit(parent.kids, op.old, op.left, op.right)
           rightMin == Node(Head(RightHalf(kids))).min
           left == {i \in DOMAIN parent.buf : parent.buf[i].key < rightMin}
           right == DOMAIN parent.buf \ left
           Half(ids, mine) == HalfNode(parent.level, parent.buf, mine, ids,
                                       Node(Head(ids)), Node(Last(ids)))
           a == Half(LeftHalf(kids), left)
           b == Half(RightHalf(kids), right)
           isRoot == id = Root
           loaded == Searched(id)
           l == manifest_.next
           ins == [op |-> "insert_child", id |-> ParentOf(id), old |-> id,
                   left |-> l, right |-> l + 1]
           up == IF isRoot THEN <<>> ELSE <<ins>>
<1> USE DEF LiveInv
<1>1. /\ Do("insert_child") /\ Missing(op) = {} /\ MustSplit(op)
      /\ Replace(id, Halves(op)[1], Halves(op)[2], isRoot, loaded) /\ Call(up \o Commit)
      /\ UNCHANGED <<write_buf, seq_, writes, latest>>
  BY Zenon DEF SplitParent, history
<1>2. todo # <<>> /\ ~Do("throw")
  BY <1>1 DEF Do
<1>3. Readable(id) /\ \A q \in loaded : Readable(q)
  BY <1>1 DEF Missing
<1>4. id \in DOMAIN cache_ /\ Node(id) = parent /\ loaded \subseteq DOMAIN cache_
  BY <1>3, ReadableCached
<1>5. op.old \in ToSet(parent.kids)
  BY <1>1, <1>4 DEF MustSplit
<1>6. op.left \in Known /\ op.right \in Known /\ id # op.left /\ id # op.right
  BY <1>1, <1>4, <1>5 DEF CallsInv, CallReady, Do
<1>7. /\ NodeIn(parent, Known, Genuine) /\ id \notin ToSet(parent.kids)
      /\ parent.buf \in Seq(Genuine) /\ parent.kids \in Seq(Known)
  BY <1>4 DEF CacheInv, NodeIn
<1>8. Halves(op) = <<a, b>>
  <2>1. Halves(op) =
          LET p == Node(id)
              k == WithSplit(p.kids, op.old, op.left, op.right)
              m == Node(Head(RightHalf(k))).min
              lt == {i \in DOMAIN p.buf : p.buf[i].key < m}
              H(ids, mine) ==
                flush_to_disk(Spanning(create(p.level, Subsequence(p.buf, mine), ids),
                                       Node(Head(ids)), Node(Last(ids))))
          IN  <<H(LeftHalf(k), lt), H(RightHalf(k), DOMAIN p.buf \ lt)>>
    BY Zenon DEF Halves
  <2> HIDE DEF parent
  <2> QED
    BY <1>4, <2>1, Zenon DEF HalfNode
<1> HIDE DEF parent
<1>9. kids \in Seq(Known) /\ ToSet(kids) \subseteq ToSet(parent.kids) \cup {op.left, op.right}
  BY <1>5, <1>6, <1>7, WithSplitFacts
<1>10. id \notin ToSet(kids)
  BY <1>6, <1>7, <1>9
<1> HIDE DEF kids
<1>11. /\ LeftHalf(kids) \in Seq(Known) /\ RightHalf(kids) \in Seq(Known)
       /\ ToSet(kids) = ToSet(LeftHalf(kids)) \cup ToSet(RightHalf(kids))
  BY <1>9, HalvesFacts
<1>12. /\ left \subseteq DOMAIN parent.buf /\ right \subseteq DOMAIN parent.buf
       /\ left \cup right = DOMAIN parent.buf
  OBVIOUS
<1> HIDE DEF left, right
<1>13. /\ NodeIn(a, Known, Genuine) /\ ToSet(a.kids) \subseteq ToSet(LeftHalf(kids))
       /\ Covers(ToSet(a.buf), ElementsAt(parent.buf, left))
  BY <1>7, <1>11, <1>12, HalfFacts, GenuineEntries
<1>14. /\ NodeIn(b, Known, Genuine) /\ ToSet(b.kids) \subseteq ToSet(RightHalf(kids))
       /\ Covers(ToSet(b.buf), ElementsAt(parent.buf, right))
  BY <1>7, <1>11, <1>12, HalfFacts, GenuineEntries
<1> HIDE DEF a, b
<1>15. Covers(ToSet(a.buf) \cup ToSet(b.buf), ToSet(parent.buf))
  <2>1. ToSet(parent.buf) = ElementsAt(parent.buf, left) \cup ElementsAt(parent.buf, right)
    BY <1>12 DEF ToSet, ElementsAt
  <2> QED
    BY <1>13, <1>14, <2>1 DEF Covers
<1>16. isRoot \in BOOLEAN /\ Replace(id, a, b, isRoot, loaded)
  <2>1. <<a, b>>[1] = a /\ <<a, b>>[2] = b
    OBVIOUS
  <2> QED
    BY <1>1, <1>8, <2>1
<1> HIDE DEF isRoot, loaded, id
<1>17. /\ WritesInv' /\ CacheInv' /\ NewestKept'
       /\ Known \subseteq Known' /\ l \in Known' /\ l + 1 \in Known'
       /\ Covers(Held', Held)
       /\ cache_'[l] = a /\ cache_'[l + 1] = b
  BY <1>1, <1>2, <1>4, <1>13, <1>14, <1>15, <1>16, ReplaceMemory DEF parent
<1>18. CallReady(ins, Known', cache_')
  <2>1. /\ ins.op = "insert_child" /\ ins.left = l /\ ins.right = l + 1 /\ ins.old = id
    OBVIOUS
  <2> HIDE DEF ins
  <2>2. id \notin ToSet(a.kids) /\ id \notin ToSet(b.kids)
    BY <1>10, <1>11, <1>13, <1>14
  <2> QED
    BY <1>17, <2>1, <2>2 DEF CallReady
<1> HIDE DEF ins
<1>19. up = <<>> \/ \E x : up = <<x>> /\ CallReady(x, Known', cache_')
  BY <1>18
<1> HIDE DEF up
<1>20. /\ IsSeq(up \o Commit) /\ up \o Commit # <<>>
       /\ CallReady(Head(up \o Commit), Known', cache_') /\ AllPassive(Tail(up \o Commit), Known')
  BY <1>19, CommitCalls
<1>21. CallsInv'
  BY <1>1, <1>2, <1>17, <1>20, CallsStep
<1> QED
  BY <1>17, <1>21

-----------------------------------------------------------------------------
(* do_flush *)

\* The child that receives entries has them and its own.
LEMMA RewrittenFacts ==
  ASSUME NEW K, NEW G, IsEntries(G), NEW kid, NodeIn(kid, K, G), NEW entries \in Seq(G)
  PROVE  /\ NodeIn(Rewritten(kid, entries), K, G)
         /\ ToSet(Rewritten(kid, entries).kids) \subseteq ToSet(kid.kids)
         /\ Covers(ToSet(Rewritten(kid, entries).buf), ToSet(kid.buf) \cup ToSet(entries))
<1> DEFINE own == kid.buf
           s == merge_sorted_entries(entries, own)
           r == Rewritten(kid, entries)
<1>1. own \in Seq(G) /\ kid.kids \in Seq(K)
  BY DEF NodeIn
<1>2. r = create(kid.level, s, kid.kids)
  BY DEF Rewritten
<1> HIDE DEF own
<1>3. s \in Seq(G) /\ Covers(ToSet(s), ToSet(entries) \cup ToSet(own))
  BY <1>1, MergeCovers
<1> HIDE DEF s, r
<1>4. /\ NodeIn(r, K, G) /\ ToSet(r.kids) \subseteq ToSet(kid.kids)
      /\ Covers(ToSet(r.buf), ToSet(s))
  BY <1>1, <1>2, <1>3, CreateFacts
<1>5. /\ ToSet(s) \subseteq G /\ ToSet(entries) \subseteq G /\ ToSet(own) \subseteq G
      /\ ToSet(r.buf) \subseteq G
  BY <1>1, <1>3, <1>4, ToSetFacts DEF NodeIn
<1>6. Covers(ToSet(r.buf), ToSet(entries) \cup ToSet(own))
  <2>1. ToSet(entries) \cup ToSet(own) \subseteq G
    BY <1>5
  <2> QED
    BY <1>3, <1>4, <1>5, <2>1, CoversThrough
<1>7. Covers(ToSet(r.buf), ToSet(own) \cup ToSet(entries))
  BY <1>6 DEF Covers
<1> QED
  BY <1>4, <1>7 DEF r, own

\* The refresh loop keeps a child's children and its newest entries.
LEMMA RefreshedFacts ==
  ASSUME NEW K, NEW G, IsEntries(G), NEW kid, NodeIn(kid, K, G)
  PROVE  /\ NodeIn(Refreshed(kid), K, G) /\ Refreshed(kid).kids = kid.kids
         /\ Covers(ToSet(Refreshed(kid).buf), ToSet(kid.buf))
<1>1. CASE kid.kids = <<>>
  <2>1. Refreshed(kid) = kid
    BY <1>1 DEF Refreshed
  <2>2. ToSet(kid.buf) \subseteq G
    BY ToSetFacts DEF NodeIn
  <2> QED
    BY <2>1, <2>2, CoversSelf
<1>2. CASE kid.kids # <<>>
  <2> DEFINE span == Spanning(kid, Node(Head(kid.kids)), Node(Last(kid.kids)))
             lo == IF kid.min = NoKey \/ span.min < kid.min THEN span.min ELSE kid.min
             hi == IF kid.max = NoKey \/ span.max > kid.max THEN span.max ELSE kid.max
             m == Ranged(kid, lo, hi)
  <2>1. Refreshed(kid) = flush_to_disk([kid EXCEPT
             !.min = IF @ = NoKey \/ span.min < @ THEN span.min ELSE @,
             !.max = IF @ = NoKey \/ span.max > @ THEN span.max ELSE @])
    BY <1>2, Zenon DEF Refreshed
  <2> HIDE DEF span
  <2>2. m = [kid EXCEPT !.min = IF @ = NoKey \/ span.min < @ THEN span.min ELSE @,
                        !.max = IF @ = NoKey \/ span.max > @ THEN span.max ELSE @]
    BY DEF NodeIn, Ranged
  <2> HIDE DEF lo, hi
  <2>3. NodeIn(m, K, G) /\ m.kids = kid.kids /\ m.buf = kid.buf
    BY RangeReplaced
  <2> HIDE DEF m
  <2>4. /\ NodeIn(flush_to_disk(m), K, G) /\ flush_to_disk(m).kids = m.kids
        /\ Covers(ToSet(flush_to_disk(m).buf), ToSet(m.buf))
    BY <2>3, FlushToDiskFacts DEF Inherits
  <2>5. Refreshed(kid) = flush_to_disk(m)
    BY <2>1, <2>2, Zenon
  <2> QED
    BY <2>3, <2>4, <2>5
<1> QED
  BY <1>1, <1>2

\* The children that received entries get fresh, distinct ids.
LEMMA RenamedFacts ==
  ASSUME NEW K, NEW old \in Seq(K), NEW hit, hit \subseteq DOMAIN old, manifest_.next \in Nat
  PROVE  /\ DOMAIN Renamed(old, hit) = DOMAIN old /\ Cardinality(hit) \in Nat
         /\ \A i \in DOMAIN old \ hit : Renamed(old, hit)[i] = old[i]
         /\ \A i \in hit : /\ Renamed(old, hit)[i] \in Nat
                           /\ Renamed(old, hit)[i] >= manifest_.next
                           /\ Renamed(old, hit)[i] < manifest_.next + Cardinality(hit)
         /\ \A i, j \in hit : Renamed(old, hit)[i] = Renamed(old, hit)[j] => i = j
<1> DEFINE next == manifest_.next
           new == Renamed(old, hit)
           R == {x \in (1..Len(old)) \X (1..Len(old)) : x[1] < x[2]}
           n == Cardinality(hit)
<1>1. DOMAIN old = 1..Len(old) /\ Len(old) \in Nat
  OBVIOUS
<1>2. IsFiniteSet(hit) /\ n \in Nat
  <2>1. IsFiniteSet(1..Len(old))
    BY <1>1, FS_Interval
  <2>2. IsFiniteSet(hit)
    BY <1>1, <2>1, FS_Subset
  <2> QED
    BY <2>2, FS_CardinalityType
<1>3. \A i, j \in hit : <<i, j>> \in R <=> i < j
  BY <1>1
<1>4. \A i \in hit : i \in Nat
  BY <1>1
<1> HIDE DEF R
<1>5. StrictOrder(R, hit)
  BY <1>3, <1>4 DEF StrictOrder
<1> DEFINE place == Rank(R, hit)
<1>6. /\ place \in [hit -> 1..n]
      /\ \A i, j \in hit : <<i, j>> \in R <=> place[i] < place[j]
  BY <1>2, <1>5, Ranking
<1>7. /\ DOMAIN new = DOMAIN old
      /\ \A i \in DOMAIN old \ hit : new[i] = old[i]
      /\ \A i \in hit : new[i] = next + Cardinality({j \in hit : j < i})
  BY DEF Renamed
<1>8. ASSUME NEW i \in hit PROVE place[i] = 1 + Cardinality({j \in hit : j < i})
  <2>1. place[i] = 1 + Cardinality({j \in hit : <<j, i>> \in R})
    BY DEF Rank
  <2>2. {j \in hit : <<j, i>> \in R} = {j \in hit : j < i}
    BY <1>3
  <2> QED
    BY <2>1, <2>2
<1> HIDE DEF place, new, n
<1>9. ASSUME NEW i \in hit PROVE new[i] = next + place[i] - 1 /\ place[i] \in 1..n
  <2> DEFINE c == Cardinality({j \in hit : j < i})
  <2>1. new[i] = next + c /\ place[i] = 1 + c /\ place[i] \in 1..n
    BY <1>6, <1>7, <1>8
  <2>2. c \in Nat
    <3>1. {j \in hit : j < i} \in SUBSET hit
      OBVIOUS
    <3> QED
      BY <1>2, <3>1, FS_Subset, FS_CardinalityType
  <2> HIDE DEF c
  <2> QED
    BY <2>1, <2>2
<1>10. \A i, j \in hit : new[i] = new[j] => i = j
  <2> SUFFICES ASSUME NEW i \in hit, NEW j \in hit, new[i] = new[j] PROVE i = j
    OBVIOUS
  <2>1. place[i] = place[j]
    BY <1>2, <1>9
  <2>2. ~(place[i] < place[j]) /\ ~(place[j] < place[i])
    BY <1>2, <1>9, <2>1
  <2>3. ~(i < j) /\ ~(j < i)
    BY <1>3, <1>6, <2>2
  <2> QED
    BY <1>4, <2>3
<1>11. \A i \in hit : new[i] \in Nat /\ new[i] >= next /\ new[i] < next + n
  BY <1>2, <1>9
<1> QED
  BY <1>2, <1>7, <1>10, <1>11 DEF new, n

\* What a child and the entries it receives become.
LEMMA MadeKidsFacts ==
  ASSUME CacheInv, NEW p \in DOMAIN cache_, cache_[p].kids # <<>>, UnreadKids(p) = {},
         NEW n, n = Len(cache_[p].kids)
  PROVE  /\ n \in Nat \ {0} /\ cache_[p].kids \in Seq(Known) /\ DOMAIN cache_[p].kids = 1..n
         /\ \A i \in 1..n : /\ cache_[p].kids[i] \in DOMAIN cache_ /\ cache_[p].kids[i] # p
                            /\ NodeIn(MadeKids(p)[i], Known, Genuine)
                            /\ ToSet(MadeKids(p)[i].kids) \subseteq ToSet(cache_[cache_[p].kids[i]].kids)
                            /\ Covers(ToSet(MadeKids(p)[i].buf),
                                      ToSet(cache_[cache_[p].kids[i]].buf) \cup ToSet(PartsOf(p)[i]))
         /\ HitBy(p) \subseteq 1..n
         /\ \A i \in 1..n : ToSet(PartsOf(p)[i]) \subseteq Genuine
         /\ \A i \in 1..n \ HitBy(p) : ToSet(PartsOf(p)[i]) = {}
         /\ \A e \in ToSet(cache_[p].buf) : \E i \in HitBy(p) : e \in ToSet(PartsOf(p)[i])
<1> DEFINE parent == cache_[p]
           old == parent.kids
           parts == PartsOf(p)
           buf == StableSort(parent.buf)
           mins == Mins(old)
           hit == HitBy(p)
           made == MadeKids(p)
<1>1. NodeIn(parent, Known, Genuine) /\ p \notin ToSet(old)
  BY DEF CacheInv
<1>2. old \in Seq(Known) /\ parent.buf \in Seq(Genuine)
  BY <1>1 DEF NodeIn
<1>3. n \in Nat \ {0} /\ DOMAIN old = 1..n
  BY <1>2, EmptySeq
<1>4. \A i \in 1..n : Readable(old[i])
  BY <1>3 DEF UnreadKids
<1>5. \A i \in 1..n : old[i] \in DOMAIN cache_ /\ Node(old[i]) = cache_[old[i]] /\ old[i] # p
  <2>1. \A i \in 1..n : old[i] \in ToSet(old)
    BY <1>3 DEF ToSet
  <2> QED
    BY <1>1, <1>4, <2>1, ReadableCached
<1>6. parts = partition_entries(buf, mins)
  BY DEF PartsOf
<1>7. hit = {i \in 1..n : parts[i] # <<>>}
  BY <1>3 DEF HitBy
<1>8. \A i \in 1..n : made[i] = IF parts[i] = <<>> THEN Node(old[i])
                                 ELSE Rewritten(Node(old[i]), parts[i])
  BY <1>3, Zenon DEF MadeKids
<1>9. DOMAIN mins = 1..n
  BY <1>3 DEF Mins
<1> HIDE DEF parent, old, parts, mins, hit, made
<1>10. buf \in Seq(Genuine) /\ ToSet(buf) = ToSet(parent.buf)
  BY <1>2, SortFacts, GenuineEntries
<1> HIDE DEF buf
<1>11. /\ \A i \in 1..n : /\ parts[i] \in Seq(Genuine)
                          /\ ToSet(parts[i]) = {e \in ToSet(buf) : Rightmost(e.key, mins) = i}
       /\ \A e \in ToSet(buf) : Rightmost(e.key, mins) \in 1..n
  BY <1>3, <1>6, <1>9, <1>10, PartitionComplete
<1>12. \A i \in 1..n : ToSet(parts[i]) \subseteq Genuine /\ (ToSet(parts[i]) = {} <=> parts[i] = <<>>)
  BY <1>11, ToSetFacts
<1>13. ASSUME NEW i \in 1..n
       PROVE  /\ NodeIn(made[i], Known, Genuine)
              /\ ToSet(made[i].kids) \subseteq ToSet(cache_[old[i]].kids)
              /\ Covers(ToSet(made[i].buf), ToSet(cache_[old[i]].buf) \cup ToSet(parts[i]))
  <2> DEFINE c == cache_[old[i]]
             d == parts[i]
  <2>1. NodeIn(c, Known, Genuine) /\ d \in Seq(Genuine)
    BY <1>5, <1>11 DEF CacheInv
  <2>2. ToSet(c.buf) \subseteq Genuine
    BY <2>1, ToSetFacts DEF NodeIn
  <2>3. CASE d = <<>>
    <3>1. made[i] = c
      BY <1>5, <1>8, <2>3
    <3>2. ToSet(d) = {}
      BY <1>12, <2>3
    <3> HIDE DEF c, d
    <3>3. Covers(ToSet(c.buf), ToSet(c.buf) \cup ToSet(d))
      BY <2>2, <3>2, CoversSelf, GenuineEntries
    <3> QED
      BY <2>1, <3>1, <3>3 DEF c, d
  <2>4. CASE d # <<>>
    <3>1. made[i] = Rewritten(c, d)
      BY <1>5, <1>8, <2>4
    <3> HIDE DEF c, d
    <3>2. /\ NodeIn(Rewritten(c, d), Known, Genuine)
          /\ ToSet(Rewritten(c, d).kids) \subseteq ToSet(c.kids)
          /\ Covers(ToSet(Rewritten(c, d).buf), ToSet(c.buf) \cup ToSet(d))
      BY <2>1, RewrittenFacts, GenuineEntries
    <3> QED
      BY <3>1, <3>2 DEF c, d
  <2> QED
    BY <2>3, <2>4
<1>14. ASSUME NEW e \in ToSet(parent.buf) PROVE \E i \in hit : e \in ToSet(parts[i])
  <2> DEFINE i == Rightmost(e.key, mins)
  <2>1. i \in 1..n /\ e \in ToSet(parts[i])
    BY <1>10, <1>11
  <2> HIDE DEF i
  <2>2. parts[i] # <<>>
    BY <1>12, <2>1
  <2>3. i \in hit
    BY <1>7, <2>1, <2>2
  <2> QED
    BY <2>1, <2>3
<1> QED
  BY <1>2, <1>3, <1>5, <1>7, <1>12, <1>13, <1>14 DEF parent, old, parts, hit, made

\* do_flush up to the rewrite of the parent, in memory: the entries of the parent are
\* with its children, which have kept their own.
LEMMA DoFlushMemory ==
  ASSUME FilesInv, LiveInv, ~Do("throw"), UNCHANGED <<write_buf, seq_, writes, latest>>,
         NEW p \in DOMAIN cache_, cache_[p].kids # <<>>, UnreadKids(p) = {},
         FlushChildren(p, Len(cache_[p].kids) + 1)
  PROVE  /\ WritesInv' /\ CacheInv' /\ NewestKept' /\ Known \subseteq Known'
         /\ p \in DOMAIN cache_' /\ Covers(Held', Held)
<1> DEFINE parent == cache_[p]
           old    == parent.kids
           stop   == Len(old) + 1
           hit    == HitBy(p)
           new    == NewKids(p)
           made   == MadeKids(p)
           parts  == PartsOf(p)
           done   == {i \in DOMAIN old : i < stop}
           kid    == [i \in done |-> Refreshed(made[i])]
           Pos(id) == CHOOSE i \in DOMAIN new : new[i] = id
           written == {new[i] : i \in hit \cup {j \in done : made[j].kids # <<>>}}
           cached  == {new[i] : i \in done}
           fresh   == {new[i] : i \in hit}
           ends   == UNION {ToSet(EndsOf(made[i])) : i \in {j \in DOMAIN old : j <= stop}}
           read   == {e \in ends : Readable(e)}
           gone   == {old[i] : i \in hit}
           erased == {old[i] : i \in {j \in hit : Cardinality({h \in hit : h <= j}) <= stop}}
           pushed == Pushed(parent, new)
           whole  == Spanning(pushed, Head(kid), Last(kid))
           top    == IF stop > Len(old) THEN whole
                     ELSE [parent EXCEPT !.kids = new, !.buf = StableSort(@)]
           n == Len(old)
           next == manifest_.next
           m1 == register(manifest_, fresh)
           m2 == invalidate(m1, gone)
           m3 == register(m2, written)
           m4 == take_ids(m3, Cardinality(hit))
           D == ((DOMAIN cache_ \cup ToSet(old) \cup read) \ erased) \cup cached
<1> USE DEF LiveInv
<1>1. /\ cache_' = [id \in D |->
                      IF id \in cached THEN kid[Pos(id)] ELSE IF id = p THEN top ELSE Node(id)]
      /\ manifest_' = m4
  BY Zenon DEF FlushChildren
<1>2. /\ n \in Nat \ {0} /\ old \in Seq(Known) /\ DOMAIN old = 1..n
      /\ \A i \in 1..n : /\ old[i] \in DOMAIN cache_ /\ old[i] # p
                         /\ NodeIn(made[i], Known, Genuine)
                         /\ ToSet(made[i].kids) \subseteq ToSet(cache_[old[i]].kids)
                         /\ Covers(ToSet(made[i].buf), ToSet(cache_[old[i]].buf) \cup ToSet(parts[i]))
      /\ hit \subseteq 1..n
      /\ \A i \in 1..n : ToSet(parts[i]) \subseteq Genuine
      /\ \A i \in 1..n \ hit : ToSet(parts[i]) = {}
      /\ \A e \in ToSet(parent.buf) : \E i \in hit : e \in ToSet(parts[i])
  BY MadeKidsFacts
<1>3. /\ next \in Nat /\ DOMAIN cache_ \subseteq Known
      /\ \A i \in Known : i \in Nat /\ i < next
  BY DEF CacheInv, Known
<1>4. /\ DOMAIN new = 1..n /\ Cardinality(hit) \in Nat
      /\ \A i \in 1..n \ hit : new[i] = old[i]
      /\ \A i \in hit : new[i] \in Nat /\ new[i] >= next /\ new[i] < next + Cardinality(hit)
      /\ \A i, j \in hit : new[i] = new[j] => i = j
  <2>1. new = Renamed(old, hit)
    BY DEF NewKids
  <2> HIDE DEF new, hit, old
  <2> DEFINE r == Renamed(old, hit)
  <2>2. hit \subseteq DOMAIN old
    BY <1>2
  <2>3. /\ DOMAIN r = DOMAIN old /\ Cardinality(hit) \in Nat
        /\ \A i \in DOMAIN old \ hit : r[i] = old[i]
        /\ \A i \in hit : r[i] \in Nat /\ r[i] >= next /\ r[i] < next + Cardinality(hit)
        /\ \A i, j \in hit : r[i] = r[j] => i = j
    BY <1>2, <1>3, <2>2, RenamedFacts
  <2> HIDE DEF r
  <2>4. new = r /\ DOMAIN old = 1..n
    BY <1>2, <2>1 DEF r
  <2> QED
    BY <2>3, <2>4
<1>5. done = 1..n
  BY <1>2
<1>6. new = [i \in 1..n |-> new[i]]
  BY <1>2 DEF NewKids, Renamed
<1>7. top = whole
  BY <1>2
<1> HIDE DEF parent, old, hit, new, made, parts, done, top
<1>8. /\ \A i \in 1..n : kid[i] = Refreshed(made[i])
      /\ cached = {new[i] : i \in 1..n} /\ fresh \subseteq cached /\ written \subseteq cached
      /\ erased \subseteq gone /\ gone \subseteq ToSet(old)
  BY <1>2, <1>5 DEF ToSet
<1>9. ASSUME NEW i \in 1..n
      PROVE  /\ Pos(new[i]) \in 1..n /\ new[Pos(new[i])] = new[i]
             /\ i \in hit => Pos(new[i]) = i
             /\ i \notin hit => Pos(new[i]) \notin hit /\ old[Pos(new[i])] = old[i]
  <2> DEFINE j == Pos(new[i])
  <2>1. \E k \in DOMAIN new : new[k] = new[i]
    BY <1>4
  <2>2. j \in 1..n /\ new[j] = new[i]
    BY <1>4, <2>1
  <2> HIDE DEF j
  <2>3. \A k \in 1..n \ hit : new[k] \in Nat /\ new[k] < next
    BY <1>2, <1>3, <1>4
  <2>4. i \in hit => j \in hit
    BY <1>3, <1>4, <2>2, <2>3
  <2>5. i \notin hit => j \notin hit
    BY <1>3, <1>4, <2>2, <2>3
  <2>6. i \in hit => j = i
    BY <1>4, <2>2, <2>4
  <2>7. i \notin hit => old[j] = old[i]
    BY <1>4, <2>2, <2>5
  <2> QED
    BY <2>2, <2>5, <2>6, <2>7 DEF j
<1>10. ASSUME NEW i \in 1..n
       PROVE  /\ NodeIn(kid[i], Known, Genuine)
              /\ ToSet(kid[i].kids) \subseteq ToSet(cache_[old[i]].kids)
              /\ Covers(ToSet(kid[i].buf), ToSet(cache_[old[i]].buf) \cup ToSet(parts[i]))
  <2> DEFINE m == made[i]
             k == kid[i]
  <2>1. k = Refreshed(m) /\ NodeIn(m, Known, Genuine)
    BY <1>2, <1>8
  <2> HIDE DEF m, k
  <2>2. NodeIn(k, Known, Genuine) /\ k.kids = m.kids /\ Covers(ToSet(k.buf), ToSet(m.buf))
    BY <2>1, RefreshedFacts, GenuineEntries
  <2> DEFINE T == ToSet(cache_[old[i]].buf) \cup ToSet(parts[i])
  <2>3. Covers(ToSet(m.buf), T)
    BY <1>2 DEF m
  <2>4. T \subseteq Genuine /\ ToSet(m.buf) \subseteq Genuine /\ ToSet(k.buf) \subseteq Genuine
    <3>1. NodeIn(cache_[old[i]], Known, Genuine)
      BY <1>2 DEF CacheInv
    <3>2. ToSet(parts[i]) \subseteq Genuine
      BY <1>2
    <3>3. ToSet(cache_[old[i]].buf) \subseteq Genuine
      BY <3>1, ToSetFacts DEF NodeIn
    <3> QED
      BY <2>1, <2>2, <3>2, <3>3, ToSetFacts DEF NodeIn
  <2> HIDE DEF T
  <2>5. Covers(ToSet(k.buf), T)
    BY <2>2, <2>3, <2>4, CoversThrough, GenuineEntries
  <2> QED
    BY <1>2, <2>2, <2>5 DEF m, k, T
<1>11. /\ ValidIds(manifest_') = ((ValidIds(manifest_) \cup fresh) \ gone) \cup written
       /\ manifest_'.next = next + Cardinality(hit)
  <2> HIDE DEF fresh, gone, written
  <2>1. Shaped(m1) /\ ValidIds(m1) = ValidIds(manifest_) \cup fresh /\ m1.next = next
    BY RegisterFacts DEF FilesInv
  <2> HIDE DEF m1
  <2>2. Shaped(m2) /\ ValidIds(m2) = ValidIds(m1) \ gone /\ m2.next = next
    BY <2>1, InvalidateFacts
  <2> HIDE DEF m2
  <2>3. Shaped(m3) /\ ValidIds(m3) = ValidIds(m2) \cup written /\ m3.next = next
    BY <2>2, RegisterFacts
  <2> HIDE DEF m3
  <2>4. ValidIds(m4) = ValidIds(m3) /\ m4.next = next + Cardinality(hit)
    BY <2>3, TakeIdsFacts
  <2> HIDE DEF m4
  <2> QED
    BY <1>1, <2>1, <2>2, <2>3, <2>4
<1> DEFINE K == Known'
<1>12. /\ Known \subseteq K /\ cached \subseteq K /\ manifest_'.next \in Nat
       /\ \A i \in 1..n : new[i] \in K
  <2>1. K = {i \in Nat : i < next + Cardinality(hit)}
    BY <1>11 DEF Known
  <2>2. Known \subseteq K
    BY <1>3, <1>4, <2>1
  <2>3. \A i \in 1..n : new[i] \in K
    BY <1>2, <1>3, <1>4, <2>1, <2>2
  <2>4. manifest_'.next \in Nat
    BY <1>3, <1>4, <1>11
  <2> HIDE DEF K
  <2>5. cached \subseteq K
    BY <1>8, <2>3
  <2> QED
    BY <2>2, <2>3, <2>4, <2>5
<1> HIDE DEF K
<1>13. /\ p \notin cached /\ p \notin ToSet(old)
       /\ \A id \in DOMAIN cache_ : id \in cached => id \in ToSet(old)
  <2>1. ToSet(old) = {old[i] : i \in 1..n}
    BY <1>2 DEF ToSet
  <2>2. ASSUME NEW id \in DOMAIN cache_, NEW i \in 1..n, id = new[i] PROVE id = old[i]
    BY <1>3, <1>4, <2>2
  <2>3. ASSUME NEW id \in DOMAIN cache_, id \in cached PROVE id \in ToSet(old)
    <3>1. PICK i \in 1..n : id = new[i]
      BY <1>8, <2>3, ZenonT(30)
    <3>2. id = old[i]
      BY <2>2, <3>1
    <3> QED
      BY <2>1, <3>2
  <2>4. p \notin ToSet(old)
    BY <1>2, <2>1
  <2> QED
    BY <2>3, <2>4
<1>14. /\ DOMAIN cache_' = (DOMAIN cache_ \ erased) \cup cached
       /\ cache_' = [id \in DOMAIN cache_' |-> cache_'[id]]
       /\ \A i \in 1..n : new[i] \in DOMAIN cache_' /\ cache_'[new[i]] = kid[Pos(new[i])]
       /\ p \in DOMAIN cache_' /\ cache_'[p] = whole
       /\ \A id \in DOMAIN cache_' \ (cached \cup {p}) : id \in DOMAIN cache_ /\ cache_'[id] = cache_[id]
  <2>1. ToSet(old) \subseteq DOMAIN cache_
    BY <1>2 DEF ToSet
  <2>2. read \subseteq DOMAIN cache_
    BY ReadableCached
  <2>3. \A id \in DOMAIN cache_ : Node(id) = cache_[id]
    BY DEF Node
  <2> HIDE DEF read, erased, cached, kid, Pos, whole
  <2>4. D = (DOMAIN cache_ \ erased) \cup cached
    BY <2>1, <2>2
  <2>5. p \in D
    BY <1>8, <1>13, <2>4
  <2> HIDE DEF D
  <2>6. DOMAIN cache_' = D /\ cache_' = [id \in D |-> cache_'[id]]
    BY <1>1
  <2>7. \A id \in D : cache_'[id] = IF id \in cached THEN kid[Pos(id)]
                                   ELSE IF id = p THEN top ELSE Node(id)
    BY <1>1
  <2>8. \A i \in 1..n : new[i] \in cached
    BY <1>8
  <2>9. \A id \in D \ (cached \cup {p}) : id \in DOMAIN cache_ /\ cache_'[id] = cache_[id]
    BY <2>3, <2>4, <2>7
  <2>10. \A i \in 1..n : new[i] \in D /\ cache_'[new[i]] = kid[Pos(new[i])]
    BY <2>4, <2>7, <2>8
  <2>11. cache_'[p] = whole
    BY <1>7, <1>13, <2>5, <2>7
  <2> QED
    BY <2>4, <2>5, <2>6, <2>9, <2>10, <2>11
<1>15. ASSUME NEW i \in 1..n
       PROVE  /\ NodeIn(cache_'[new[i]], Known, Genuine) /\ new[i] \notin ToSet(cache_'[new[i]].kids)
              /\ Covers(ToSet(cache_'[new[i]].buf), ToSet(cache_[old[i]].buf) \cup ToSet(parts[i]))
  <2> DEFINE j == Pos(new[i])
  <2>1. /\ j \in 1..n /\ cache_'[new[i]] = kid[j]
        /\ i \in hit => j = i
        /\ i \notin hit => j \notin hit /\ old[j] = old[i]
    BY <1>9, <1>14
  <2> HIDE DEF j, kid
  <2>2. /\ NodeIn(kid[j], Known, Genuine)
        /\ ToSet(kid[j].kids) \subseteq ToSet(cache_[old[j]].kids)
        /\ Covers(ToSet(kid[j].buf), ToSet(cache_[old[j]].buf) \cup ToSet(parts[j]))
    BY <1>10, <2>1
  <2>3. old[j] \in DOMAIN cache_ /\ old[j] = old[i]
    BY <1>2, <2>1
  <2>4. old[i] \notin ToSet(cache_[old[i]].kids) /\ ToSet(cache_[old[i]].kids) \subseteq Known
    <3>1. NodeIn(cache_[old[i]], Known, Genuine) /\ old[i] \notin ToSet(cache_[old[i]].kids)
      BY <2>3 DEF CacheInv
    <3> QED
      BY <3>1, ToSetFacts DEF NodeIn
  <2>5. new[i] \notin ToSet(kid[j].kids)
    BY <1>3, <1>4, <2>2, <2>3, <2>4
  <2>6. Covers(ToSet(kid[j].buf), ToSet(cache_[old[i]].buf) \cup ToSet(parts[i]))
    <3>1. i \notin hit => ToSet(parts[i]) = {} /\ ToSet(parts[j]) = {}
      BY <1>2, <2>1
    <3>2. i \in hit => parts[j] = parts[i]
      BY <2>1
    <3> QED
      BY <2>2, <2>3, <3>1, <3>2
  <2> QED
    BY <2>1, <2>2, <2>5, <2>6
<1>16. NodeIn(whole, K, Genuine) /\ p \notin ToSet(whole.kids)
  <2>1. new \in Seq(K) /\ ToSet(new) = {new[i] : i \in 1..n}
    BY <1>2, <1>4, <1>6, <1>12 DEF ToSet
  <2>2. NodeIn(parent, Known, Genuine)
    BY DEF CacheInv, parent
  <2> DEFINE q == [parent EXCEPT !.kids = new]
             e == << >>
  <2>3. NodeIn(q, K, Genuine) /\ q.kids = new
    BY <2>1, <2>2, KidsReplaced
  <2>4. pushed = [q EXCEPT !.buf = e]
    BY <2>2 DEF Pushed, NodeIn
  <2>5. e \in Seq(Genuine)
    OBVIOUS
  <2> HIDE DEF q, e
  <2>6. NodeIn(pushed, K, Genuine) /\ pushed.kids = new
    BY <2>3, <2>4, <2>5, BufReplaced
  <2> HIDE DEF pushed
  <2>7. NodeIn(whole, K, Genuine) /\ whole.kids = new
    BY <2>6, SpanningFacts
  <2> QED
    BY <1>8, <1>13, <2>1, <2>7
<1> HIDE DEF whole, Pos, kid
<1>17. Genuine' = Genuine
  BY DEF Genuine
<1>18. WritesInv'
  BY <1>17 DEF WritesInv
<1>19. CacheInv'
  <2>1. ASSUME NEW id \in DOMAIN cache_'
        PROVE  NodeIn(cache_'[id], K, Genuine) /\ id \notin ToSet(cache_'[id].kids)
    <3>1. CASE id \in cached
      <4>1. PICK i \in 1..n : id = new[i]
        BY <1>8, <3>1, ZenonT(30)
      <4> QED
        BY <1>12, <1>15, <4>1, NodeInWider
    <3>2. CASE id = p
      BY <1>14, <1>16, <3>2
    <3>3. CASE id \notin cached /\ id # p
      <4>1. id \in DOMAIN cache_ /\ cache_'[id] = cache_[id]
        BY <1>14, <3>3
      <4>2. NodeIn(cache_[id], Known, Genuine) /\ id \notin ToSet(cache_[id].kids)
        BY <4>1 DEF CacheInv
      <4> QED
        BY <1>12, <4>1, <4>2, NodeInWider
    <3> QED
      BY <3>1, <3>2, <3>3
  <2> HIDE DEF fresh, written, gone, erased, cached
  <2>2. ValidIds(manifest_') \subseteq DOMAIN cache_'
    BY <1>8, <1>11, <1>14 DEF CacheInv
  <2>3. DOMAIN cache_' \subseteq K
    BY <1>3, <1>12, <1>14
  <2> QED
    BY <1>12, <1>14, <1>17, <2>1, <2>2, <2>3 DEF CacheInv, K
<1>20. Covers(Held', Held)
  <2> SUFFICES ASSUME NEW g \in Held PROVE \E e \in Held' : e.key = g.key /\ g.seq <= e.seq
    BY DEF Covers
  <2>1. g.seq <= g.seq
    BY HeldFacts, GenuineEntries DEF IsEntries
  <2>2. ASSUME NEW i \in 1..n, g \in ToSet(cache_[old[i]].buf) \cup ToSet(parts[i])
        PROVE  \E e \in Held' : e.key = g.key /\ g.seq <= e.seq
    <3>1. PICK e \in ToSet(cache_'[new[i]].buf) : e.key = g.key /\ g.seq <= e.seq
      BY <1>15, <2>2 DEF Covers
    <3>2. new[i] \in DOMAIN cache_'
      BY <1>14
    <3>3. e \in Held'
      BY ONLY <3>1, <3>2 DEF Held
    <3> QED
      BY <3>1, <3>3
  <2>4. ASSUME NEW id \in DOMAIN cache_, g \in ToSet(cache_[id].buf)
        PROVE  \E e \in Held' : e.key = g.key /\ g.seq <= e.seq
    <3>1. CASE id = p
      <4>1. PICK i \in hit : g \in ToSet(parts[i])
        BY <1>2, <2>4, <3>1 DEF parent
      <4> QED
        BY <1>2, <2>2, <4>1
    <3>2. CASE id \in ToSet(old)
      <4>1. PICK i \in 1..n : id = old[i]
        BY <1>2, <3>2 DEF ToSet
      <4> QED
        BY <2>2, <2>4, <4>1
    <3>3. CASE id # p /\ id \notin ToSet(old)
      <4>1. id \in DOMAIN cache_' \ (cached \cup {p})
        BY <1>8, <1>13, <1>14, <3>3
      <4>2. cache_'[id] = cache_[id]
        BY <1>14, <4>1
      <4>3. g \in Held'
        BY <2>4, <4>1, <4>2 DEF Held
      <4> QED
        BY <2>1, <4>3
    <3> QED
      BY <3>1, <3>2, <3>3
  <2> QED
    BY <2>4, HeldFacts
<1>21. NewestKept'
  <2>1. Covers(Pool', Pool)
    BY <1>20, HeldFacts
  <2> QED
    BY <1>18, <1>19, <2>1, NewestKeeps
<1> QED
  BY <1>12, <1>14, <1>18, <1>19, <1>20, <1>21 DEF K

LEMMA DoFlushLive ==
  ASSUME QueueInv, FilesInv, LiveInv, DoFlush
  PROVE  LiveInv' /\ Covers(Held', Held)
<1> DEFINE p == Head(todo).id
           x == Persist(p)
           s == Commit
           c == Check(p, cache_'[p].kids)
           t == <<c>>
           u == (<<x>> \o s) \o t
<1> USE DEF LiveInv
<1>1. /\ Do("do_flush") /\ UnreadKids(p) = {} /\ FlushChildren(p, Len(cache_[p].kids) + 1)
      /\ Call(u) /\ UNCHANGED <<write_buf, seq_, writes, latest>>
  BY DEF DoFlush, history
<1>2. todo # <<>> /\ ~Do("throw") /\ p \in DOMAIN cache_ /\ cache_[p].kids # <<>>
  BY <1>1 DEF Do, CallsInv, CallReady
<1>3. x.op = "persist" /\ x.id = p /\ c.op = "check" /\ c.id = p
  BY DEF Persist, Check
<1> HIDE DEF p, x, c
<1>4. /\ WritesInv' /\ CacheInv' /\ NewestKept' /\ Known \subseteq Known' /\ p \in DOMAIN cache_'
      /\ Covers(Held', Held)
  BY <1>1, <1>2, DoFlushMemory
<1>5. p \in Known'
  BY <1>2, <1>4 DEF CacheInv
<1>6. AllPassive(s, Known') /\ IsSeq(s)
  BY PassiveCommit
<1>7. AllPassive(t, Known') /\ IsSeq(t)
  BY <1>3, <1>5, PassiveOne
<1>8. CallReady(x, Known', cache_')
  BY <1>3, <1>4 DEF CallReady
<1> DEFINE S == {x} \cup ToSet(s) \cup ToSet(t)
           w == <<x>>
           v == w \o s
<1>9. w \in Seq(S) /\ s \in Seq(S) /\ t \in Seq(S) /\ w # <<>>
  BY <1>6, <1>7 DEF IsSeq
<1>10. Head(w) = x /\ Tail(w) = <<>>
  OBVIOUS
<1> HIDE DEF S, w, s, t
<1>11. v \in Seq(S) /\ v # <<>> /\ Head(v) = Head(w) /\ Tail(v) = Tail(w) \o s
  BY <1>9
<1>12. Tail(v) = s
  BY <1>9, <1>10, <1>11, ConcatEmptySeq
<1>13. u = v \o t
  BY DEF w
<1> HIDE DEF u, v
<1>14. u \in Seq(S) /\ u # <<>> /\ Head(u) = Head(v) /\ Tail(u) = Tail(v) \o t
  BY <1>9, <1>11, <1>13
<1>15. AllPassive(Tail(u), Known') /\ Head(u) = x
  BY <1>6, <1>7, <1>10, <1>11, <1>12, <1>14, PassiveConcat
<1>16. IsSeq(u)
  BY <1>14, ToSetFacts DEF IsSeq
<1>17. CallsInv'
  BY <1>1, <1>2, <1>4, <1>8, <1>15, <1>16, CallsStep
<1> QED
  BY <1>4, <1>17

-----------------------------------------------------------------------------
(* The first open *)

LEMMA FirstOpen ==
  ASSUME Unborn, EnsureRoot
  PROVE  LiveInv'
<1> DEFINE m == load(saved)
           root == create(0, <<>>, <<>>)
           m1 == take_ids(m, 1)
           m2 == register(m1, {1})
           m3 == set_root(m2, 1)
<1>1. m.next = 1 /\ Shaped(m) /\ ValidIds(m) = {}
  <2>1. saved = {} /\ IdsOf({}, "NEXT_ID") = {} /\ IdsOf({}, "NODE") = {}
    BY DEF Unborn, IdsOf
  <2>2. m.next = Max({1})
    <3>1. {IdOr({}, "NEXT_ID", 1)} \cup {i + 1 : i \in IdsOf({}, "NODE")} = {1}
      BY <2>1 DEF IdOr
    <3> QED
      BY <2>1, <3>1 DEF load
  <2>3. Max({1}) = 1
    BY DEF Max
  <2>4. Shaped(m) /\ ValidIds(m) = ValidIds([nodes |-> NodesOf({})])
    BY <2>1, LoadFacts
  <2>5. ValidIds([nodes |-> NodesOf({})]) = {}
    BY <2>1 DEF ValidIds, NodesOf
  <2> QED
    BY <2>2, <2>3, <2>4, <2>5
<1>2. /\ manifest_' = set_root(register(take_ids(m, 1), {m.next}), m.next)
      /\ cache_' = [id \in {m.next} |-> root] /\ todo' = <<Save, [op |-> "opened"]>>
      /\ seq_' = 1 /\ UNCHANGED <<write_buf, writes, latest>>
  BY DEF EnsureRoot, Load
<1>3. manifest_' = m3 /\ cache_' = [id \in {1} |-> root]
  BY <1>1, <1>2
<1> HIDE DEF m
<1>4. Shaped(m1) /\ ValidIds(m1) = {} /\ m1.next = 2
  BY <1>1, TakeIdsFacts
<1> HIDE DEF m1
<1>5. Shaped(m2) /\ ValidIds(m2) = {1} /\ m2.next = 2
  BY <1>4, RegisterFacts
<1> HIDE DEF m2
<1>6. ValidIds(m3) = {1} /\ m3.next = 2
  BY <1>5, SetRootFacts
<1> HIDE DEF m3
<1>7. Known' = {i \in Nat : i < 2} /\ 1 \in Known'
  BY <1>3, <1>6 DEF Known
<1>8. /\ latest' = [k \in Keys |-> [val |-> NoValue, del |-> TRUE, seq |-> 0, outranked |-> FALSE]]
      /\ write_buf' = <<>> /\ writes' = 0
  BY <1>2 DEF Unborn
<1>9. WritesInv'
  <2>1. ASSUME NEW k \in Keys
        PROVE  latest'[k].val = 0 /\ latest'[k].seq = 0 /\ latest'[k].del
    BY <1>8 DEF NoValue
  <2>2. write_buf' \in Seq(Genuine')
    BY <1>8
  <2> QED
    BY <1>2, <1>8, <2>1, <2>2 DEF WritesInv
<1>10. NodeIn(root, Known', Genuine') /\ 1 \notin ToSet(root.kids)
  <2> DEFINE e == << >>
             G == Genuine'
             K == Known'
  <2>1. e \in Seq(G) /\ e \in Seq(K) /\ ToSet(e) = {}
    BY DEF ToSet
  <2>2. IsEntries(G)
    BY TreeAssumption DEF IsEntries, Genuine
  <2> HIDE DEF e, G, K
  <2>3. /\ NodeIn(create(0, e, e), K, G)
        /\ ToSet(create(0, e, e).kids) \subseteq ToSet(e)
    BY <2>1, <2>2, CreateFacts
  <2> QED
    BY <2>1, <2>3 DEF e, G, K
<1> HIDE DEF root
<1>11. CacheInv'
  <2>1. /\ DOMAIN cache_' = {1} /\ cache_'[1] = root
        /\ cache_' = [i \in DOMAIN cache_' |-> cache_'[i]]
    BY <1>3
  <2>2. \A i \in DOMAIN cache_' : cache_'[i] = root /\ i = 1
    BY <2>1
  <2> QED
    BY <1>3, <1>6, <1>7, <1>10, <2>1, <2>2 DEF CacheInv
<1>12. NewestKept'
  BY <1>8 DEF NewestKept
<1>13. CallsInv'
  <2> DEFINE o == [op |-> "opened"]
  <2>1. Head(todo') = Save /\ Tail(todo') = <<o>>
    BY <1>2, PairFacts
  <2>2. CallReady(Save, Known', cache_') /\ AllPassive(<<o>>, Known')
    BY PassiveOne DEF CallReady, Save
  <2> QED
    BY <2>1, <2>2 DEF CallsInv
<1> QED
  BY <1>9, <1>11, <1>12, <1>13 DEF LiveInv

-----------------------------------------------------------------------------
(* All steps *)

Client ==
  \/ \E k \in Keys : Get(k) \/ remove(k) \/ \E sz \in Sizes : insert(k, sz)
  \/ BackgroundFlush \/ RequestFlush \/ Flush \/ Close

\* The steps of a call that goes on or ends well.
Work ==
  \/ DoFlush \/ CheckChild \/ SplitLeaf \/ InsertChild \/ SplitParent
  \/ PersistNode \/ SaveManifest \/ CollectGarbage \/ Done \/ Return \/ Opened

\* The steps that end a session or throw in it.
Ending == Crash \/ Closed \/ Throw \/ DoFlushThrows \/ InsertChildThrows \/ WriteFails

LEMMA AllSteps == FaultNext <=> Client \/ Work \/ Ending \/ Open \/ EnsureRoot
BY Zenon DEF FaultNext, Next, TreeStep, Client, Work, Ending

LEMMA WorkGoesOn ==
  ASSUME QueueInv, Client \/ Work
  PROVE  session' = session /\ threw' = threw /\ status # "down"
<1>1. CASE Client
  <2>1. ASSUME NEW k \in Keys, Get(k) \/ remove(k) \/ \E sz \in Sizes : insert(k, sz)
        PROVE  session' = session /\ threw' = threw /\ status = "open"
    BY <2>1 DEF Get, remove, insert, Write, life
  <2>2. BackgroundFlush => session' = session /\ threw' = threw /\ status = "open"
    BY DEF BackgroundFlush, life
  <2>3. RequestFlush => session' = session /\ threw' = threw /\ status = "open"
    BY DEF RequestFlush, life
  <2>4. Flush \/ Close => session' = session /\ threw' = threw /\ status = "open"
    BY DEF Flush, Close, PersistRoot
  <2> QED
    BY <1>1, <2>1, <2>2, <2>3, <2>4 DEF Client
<1>2. CASE Work
  <2>1. todo # <<>>
    BY <1>2 DEF Work, DoFlush, CheckChild, SplitLeaf, InsertChild, SplitParent, PersistNode,
                SaveManifest, CollectGarbage, Done, Return, Opened, Do
  <2>2. DoFlush \/ CheckChild \/ SplitLeaf => session' = session /\ threw' = threw
    BY DEF DoFlush, CheckChild, SplitLeaf, life
  <2>3. InsertChild \/ SplitParent \/ PersistNode => session' = session /\ threw' = threw
    BY DEF InsertChild, SplitParent, PersistNode, life
  <2>4. /\ SaveManifest \/ CollectGarbage => session' = session /\ threw' = threw
        /\ Done \/ Return \/ Opened => session' = session /\ threw' = threw
    BY DEF SaveManifest, CollectGarbage, Done, Return, Opened, life
  <2> QED
    BY <1>2, <2>1, <2>2, <2>3, <2>4 DEF Work, QueueInv
<1> QED
  BY <1>1, <1>2

LEMMA EndingEnds ==
  ASSUME QueueInv, Ending
  PROVE  session' = session /\ (status' = "down" \/ threw') /\ status # "down"
<1>1. Swallowed => session' = session /\ threw'
  BY DEF Swallowed
<1>2. ASSUME NEW c, Unwind(c) PROVE session' = session /\ (status' = "down" \/ threw')
  BY <1>2 DEF Unwind
<1>3. Lost => session' = session /\ status' = "down"
  BY DEF Lost
<1>4. CASE Crash
  BY <1>3, <1>4 DEF Crash
<1>5. CASE Closed
  BY <1>3, <1>5 DEF Closed, Do, QueueInv
<1>6. CASE Throw
  BY <1>2, <1>6 DEF Throw, Do, QueueInv
<1>7. CASE DoFlushThrows \/ InsertChildThrows
  BY <1>1, <1>7 DEF DoFlushThrows, InsertChildThrows, Do, QueueInv
<1>8. CASE PersistFails \/ SaveFails
  BY <1>2, <1>8 DEF PersistFails, SaveFails, Do, QueueInv
<1>9. CASE LocalFlushFails \/ RefreshFails \/ SplitLeafFails \/ SplitParentFails
  BY <1>1, <1>9 DEF LocalFlushFails, RefreshFails, SplitLeafFails, SplitParentFails, Do, QueueInv
<1> QED
  BY <1>4, <1>5, <1>6, <1>7, <1>8, <1>9 DEF Ending, WriteFails

\* In a session that goes on, no step loses the newest version of a key.
LEMMA WorkLive ==
  ASSUME QueueInv, FilesInv, LiveInv, Client \/ Work
  PROVE  LiveInv'
<1>1. ASSUME NEW k \in Keys, remove(k) \/ \E sz \in Sizes : insert(k, sz) PROVE LiveInv'
  <2>1. \E del \in BOOLEAN, sz \in Sizes \cup {1} : Write(k, del, sz)
    BY <1>1, TreeAssumption DEF remove, insert
  <2> QED
    BY <2>1, WriteLive
<1>2. CASE Client
  BY <1>1, <1>2, QuietLive, DrainLive DEF Client
<1>3. CASE Work
  BY <1>3, QuietLive, DiskLive, DoFlushLive, SplitLeafLive, InsertChildLive, SplitParentLive DEF Work
<1> QED
  BY <1>2, <1>3

LEMMA ScanStep ==
  ASSUME QueueInv, FilesInv, ScanInv, [FaultNext]_vars
  PROVE  ScanInv'
<1>1. CASE UNCHANGED vars
  <2>1. /\ UNCHANGED <<write_buf, seq_, writes, latest, cache_, manifest_, todo>>
        /\ UNCHANGED <<session, status, threw, saved>>
    BY <1>1 DEF vars, memory, disk, life, history
  <2>2. Alive => LiveInv'
    <3> SUFFICES ASSUME Alive PROVE LiveInv'
      OBVIOUS
    <3>1. LiveInv
      BY DEF ScanInv
    <3>2. WritesInv' /\ CacheInv' /\ Known' = Known /\ (Do("throw")' \/ ~Do("throw") => NewestKept')
      BY <2>1, <3>1, MemoryKept
    <3>3. Do("throw")' \/ ~Do("throw")
      BY <2>1 DEF Do
    <3>4. CallsInv'
      BY <2>1, <3>1, <3>2 DEF LiveInv, CallsInv
    <3> QED
      BY <3>2, <3>3, <3>4 DEF LiveInv
  <2> QED
    BY <2>1, <2>2 DEF ScanInv, Unborn, Alive
<1>2. CASE Client \/ Work
  <2>1. session' = session /\ threw' = threw /\ status # "down"
    BY <1>2, WorkGoesOn
  <2>2. session # 0
    BY <2>1 DEF ScanInv, Unborn
  <2>3. Alive' => LiveInv
    BY <2>1 DEF ScanInv, Alive
  <2>4. Alive' => LiveInv'
    BY <1>2, <2>3, WorkLive
  <2> QED
    BY <2>1, <2>2, <2>4 DEF ScanInv
<1>3. CASE Ending
  <2>1. session' = session /\ (status' = "down" \/ threw') /\ status # "down"
    BY <1>3, EndingEnds
  <2>2. session # 0 /\ ~Alive'
    BY <2>1 DEF ScanInv, Unborn, Alive
  <2> QED
    BY <2>1, <2>2 DEF ScanInv
<1>4. CASE Open \/ EnsureRoot
  <2>1. session' = session + 1 /\ session' \in Nat /\ session' # 0
    BY <1>4 DEF Open, EnsureRoot, Load, ScanInv
  <2>2. Alive' => session = 0
    BY <2>1 DEF Alive, ScanInv
  <2>3. ASSUME Alive' PROVE LiveInv'
    <3>1. Unborn
      BY <2>2, <2>3 DEF ScanInv
    <3>2. ~Open
      <4>1. saved = {} /\ IdsOf({}, "NODE") = {}
        BY <3>1 DEF Unborn, IdsOf
      <4>2. ValidIds(load(saved)) = ValidIds([nodes |-> NodesOf({})])
        BY <4>1, LoadFacts
      <4>3. ValidIds([nodes |-> NodesOf({})]) = {}
        BY <4>1 DEF ValidIds, NodesOf
      <4>4. Open => manifest_'.root \in ValidIds(manifest_') /\ manifest_' = load(saved)
        BY DEF Open
      <4> QED
        BY <4>2, <4>3, <4>4
    <3> QED
      BY <1>4, <3>1, <3>2, FirstOpen
  <2> QED
    BY <2>1, <2>3 DEF ScanInv
<1> QED
  BY <1>1, <1>2, <1>3, <1>4, AllSteps

\* What the invariant says of a scan.
LEMMA ScanAnswers ==
  ASSUME ScanInv
  PROVE  ScanFindsLive
<1> SUFFICES ASSUME Idle, session = 1, NEW k \in Keys, ~latest[k].del
             PROVE  range_scan(k) = {latest[k].val}
  BY DEF ScanFindsLive
<1> DEFINE found == {e \in Pool : e.key = k /\ ~e.del}
           best == {f \in found : \A g \in found : f.seq >= g.seq}
<1>1. LiveInv /\ todo = <<>>
  BY DEF ScanInv, Alive, Idle
<1>2. latest[k].val = latest[k].seq /\ latest[k].seq \in Nat /\ latest[k].val # NoValue
  BY <1>1 DEF LiveInv, WritesInv
<1>3. PICK e \in Pool : e.key = k /\ e.seq = latest[k].seq
  BY <1>1, <1>2 DEF LiveInv, NewestKept, Do
<1>4. \A f \in Pool : f.key = k =>
        /\ f.seq \in Nat /\ f.val = f.seq /\ f.seq <= latest[k].seq
        /\ f.seq = latest[k].seq => f.del = latest[k].del
  BY <1>1, PoolFacts DEF LiveInv, Genuine
<1>5. range_scan(k) = IF found = {} THEN {NoValue} ELSE {f.val : f \in best}
  BY DEF range_scan, Pool
<1>6. e \in found
  BY <1>3, <1>4
<1>7. e \in best
  BY <1>3, <1>4, <1>6
<1>8. \A f \in best : f.val = latest[k].val
  <2> SUFFICES ASSUME NEW f \in best PROVE f.val = latest[k].val
    OBVIOUS
  <2>1. f \in Pool /\ f.key = k /\ f.seq >= e.seq
    BY <1>6
  <2>2. f.seq \in Nat /\ f.val = f.seq /\ f.seq <= latest[k].seq
    BY <1>4, <2>1
  <2> QED
    BY <1>2, <1>3, <2>1, <2>2
<1> HIDE DEF best, found
<1>9. {f.val : f \in best} = {latest[k].val}
  BY <1>7, <1>8
<1> QED
  BY <1>5, <1>6, <1>9

\* In the session that built the tree, a range scan between flushes returns the last
\* write of every key that is not removed (tree.cpp:255), wherever do_flush, split_leaf,
\* insert_child and their merges have moved it, unless an exception was thrown in it:
\* for every number of keys and writes, buffer size and fanout.
THEOREM ScanAlwaysFindsLive == FaultSpec => []ScanFindsLive
<1>1. Init => ScanInv
  <2> SUFFICES ASSUME Init PROVE ScanInv
    OBVIOUS
  <2>1. Unborn /\ session = 0 /\ ~Alive
    BY DEF Init, Unborn, Alive
  <2> QED
    BY <2>1 DEF ScanInv
<1>2. QueueInv /\ FilesInv /\ ScanInv /\ [FaultNext]_vars => ScanInv'
  BY ScanStep
<1>3. ScanInv => ScanFindsLive
  BY ScanAnswers
<1> QED
  BY <1>1, <1>2, <1>3, FilesInvariant, PTL DEF FaultSpec
=============================================================================
