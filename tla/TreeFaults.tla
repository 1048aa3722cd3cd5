----------------------------- MODULE TreeFaults -----------------------------
(***************************************************************************)
(* GravTree when writing a file can fail: SSTNode::write_file and          *)
(* Manifest::save throw when the temporary file cannot be opened or        *)
(* renamed.  Each action here is an action of GravTree cut off at such a   *)
(* throw, with what was done before it; the exception unwinds the calls    *)
(* and the tree lives on (flush_thread_fn: "Never let an exception kill    *)
(* the flush thread").  A creation that fails in ensure_root leaves no     *)
(* trace and is left out.                                                  *)
(***************************************************************************)
EXTENDS GravTree

CONSTANT MaxFailures   \* bound: failing writes in a behaviour

ASSUME FaultAssumption == MaxFailures \in Nat

-----------------------------------------------------------------------------
Fails == failures < MaxFailures /\ failures' = failures + 1

\* A node rewritten in place: its buffer was sorted and its range widened.
PersistFails ==
  /\ Fails /\ Do("persist")
  /\ LET id == Head(todo).id
     IN  Unwind([cache_ EXCEPT ![id] = flush_to_disk(@)]) /\ UNCHANGED files

\* The manifest; nothing is collected.  (A failing open must leave a session.)
SaveFails ==
  /\ Fails /\ Do("save") /\ (status = "opening" => session < MaxSessions)
  /\ Unwind(cache_) /\ UNCHANGED files

\* Mutant: the entries are taken out of the parent before the children have them.
BadKept(parent) == [parent EXCEPT !.buf = <<>>]

\* A parent whose local_flush threw: its buffer is sorted, and still complete.
Kept(parent) == [parent EXCEPT !.buf = StableSort(@)]

\* local_flush at one of the children that receive entries: those before it have
\* their new nodes, which nothing points to, and are invalid in the manifest; the
\* parent and the cache still have them and the parent still has the entries.
LocalFlushFails ==
  /\ Fails /\ Do("do_flush") /\ UnreadKids(Head(todo).id) = {}
  /\ LET p     == Head(todo).id
         old   == cache_[p].kids
         new   == NewKids(p)
         made  == MadeKids(p)
     IN  \E at \in HitBy(p) :
           LET before == {i \in HitBy(p) : i < at}
               ids == {new[i] : i \in before}
           IN  /\ cache_' = [Cached(ToSet(old)) EXCEPT ![p] = Kept(@)]
               /\ files' = [id \in DOMAIN files \cup ids |->
                              IF id \in ids THEN made[CHOOSE i \in before : new[i] = id]
                              ELSE files[id]]
               /\ manifest_' = take_ids(invalidate(register(manifest_, ids),
                                                   {old[i] : i \in before}),
                                        Cardinality(before) + 1)
  /\ Swallowed

\* The refresh loop of do_flush at an internal child.
RefreshFails ==
  /\ Fails /\ Do("do_flush")
  /\ LET p == Head(todo).id
     IN  /\ UnreadKids(p) = {}
         /\ \E i \in DOMAIN cache_[p].kids :
              /\ Node(cache_[p].kids[i]).kids # <<>>
              /\ \A j \in UnreadEnds(p) : i < j
              /\ FlushChildren(p, i)
  /\ Swallowed

\* The new root above the nodes a and b that replace the old root, gone: at its
\* creation (n = 0) or when it is written again with its range (n = 1).  The old
\* root is invalid, and root_id_ still names it.
NewRootFails(gone, a, b, loaded, n) ==
  LET l == manifest_.next
      r == l + 1
      made == {l, r} \cup (IF n = 0 THEN {} ELSE {l + 2})
      New(id) == IF id = l THEN a ELSE IF id = r THEN b
                 ELSE create(a.level + 1, <<>>, <<l, r>>)
  IN  /\ cache_' = [id \in (DOMAIN cache_ \cup {l, r} \cup loaded) \ {gone} |->
                      IF id \in {l, r} THEN New(id) ELSE Node(id)]
      /\ files' = [id \in DOMAIN files \cup made |->
                      IF id \in made THEN New(id) ELSE files[id]]
      /\ manifest_' = take_ids(invalidate(register(manifest_, {l, r}), {gone}), 3)

SplitLeafFails ==
  /\ Fails /\ Do("split_leaf")
  /\ LET op  == Head(todo)
         buf == StableSort(cache_[op.id].buf)
         half == <<create(0, LeftHalf(buf), <<>>), create(0, RightHalf(buf), <<>>)>>
     IN  \/ /\ \E n \in 0..1 : Abandoned(half, n)
            /\ cache_' = [cache_ EXCEPT ![op.id].buf = buf]
         \/ /\ Len(op.path) = 1
            /\ \E n \in 0..1 : NewRootFails(op.id, half[1], half[2], {}, n)
  /\ Swallowed

\* The split of a full parent: each half is created and then written again with
\* its range before anything is replaced.  The child that was split is invalid
\* and no longer cached, and the parent still names it.
SplitParentFails ==
  /\ Fails /\ Do("insert_child")
  /\ LET op == Head(todo)
     IN  /\ Readable(op.id) /\ MustSplit(op)
         /\ \/ /\ \E n \in 0..2 : Abandoned(Halves(op), n)
               /\ cache_' = Cached({op.id})
            \/ /\ op.id = Root /\ Missing(op) = {}
               /\ \E n \in 0..1 : NewRootFails(op.id, Halves(op)[1], Halves(op)[2],
                                               Searched(op.id), n)
  /\ Swallowed

-----------------------------------------------------------------------------
WriteFails ==
  \/ PersistFails \/ SaveFails \/ LocalFlushFails \/ RefreshFails
  \/ SplitLeafFails \/ SplitParentFails

FaultNext == Next \/ WriteFails

FaultSpec == Init /\ [][FaultNext]_vars

\* Weak fairness of the steps taken under cache_mu_: the thread that holds it keeps
\* running.  One of them can be taken exactly when todo is not empty, and while it
\* is not, they and a crash are the steps that change memory, disk or todo.
FaultFairSpec ==
  FaultSpec /\ ([]<>(todo = <<>>) \/ []<><<TRUE>>_<<memory, disk, todo>>)

-----------------------------------------------------------------------------
(* Properties *)

\* Key k lies under a node whose range does not reach down to it: the refresh loop
\* was cut off after the parent had come to point to that node, new and internal,
\* and before its range was widened over its children (tree.cpp:341, 367).
Narrowed(k) ==
  \E id \in Reach \ {Root} :
    /\ Readable(id) /\ k < Node(id).min
    /\ \E c \in ToSet(Node(id).kids) : Readable(c) /\ Node(c).min <= k

\* After any failing write, and whatever the tree does with what that left half
\* done, a get answers with the last write of its key or throws: no answer is
\* ever old or empty because a flush, a split or a batch was cut off (tree.cpp:109
\* swallows the exception and goes on; tree.cpp:85 has drained the batch before
\* it finds that the root is gone).  The one exception is a key that an
\* interrupted refresh loop has left outside the range of its subtree.
AnswersOrThrows ==
  status = "open" /\ todo = <<>> /\ ~crashed =>
    \A k \in Keys :
      \/ skiplist_find(write_buf, k) = {} /\ \E id \in Visited(k) : ~Readable(id)
      \/ Straddles(k) \/ Narrowed(k) \/ latest[k].outranked
      \/ get(k) = IF latest[k].del THEN NoValue ELSE latest[k].val

\* At every moment, also between the steps of an update that failed or is about
\* to, the manifest file names no node whose file is gone: files are deleted only
\* after a manifest that no longer names them was saved (manifest.cpp:112).
SavedFilesExist == ValidIds(load(saved)) \subseteq DOMAIN files

\* The root that the manifest file names can be opened: a root that was lost in
\* memory, split away by an update that failed, is never saved (tree.cpp:136).
SavedRootValid == saved # {} => load(saved).root \in ValidIds(load(saved))
=============================================================================
