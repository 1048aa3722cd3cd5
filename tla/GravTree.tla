------------------------------ MODULE GravTree ------------------------------
(***************************************************************************)
(* The tree engine of GravTree (tree.cpp, flush.cpp, node.cpp and          *)
(* manifest.cpp): the write buffer, the node cache, the manifest and the   *)
(* node files, the background flush with its recursive splits, flush(),    *)
(* the destructor, crashes and reopening.                                  *)
(*                                                                         *)
(* Everything below runs under the exclusive lock cache_mu_, so no other   *)
(* thread sees its intermediate states, but a crash can fall between any   *)
(* two writes to disk.  The work still to be done under the lock is the    *)
(* sequence todo of pending calls; each step executes its head.  Writes of *)
(* files with a fresh node id are part of the step that creates the node:  *)
(* such a file cannot be read before the manifest naming it is saved.  The *)
(* writes that matter after a crash are steps of their own: rewriting a    *)
(* node file in place (Persist), saving the manifest (Save) and deleting   *)
(* files, one by one (Gc).  An exception unwinds the calls; the process    *)
(* runs on with what they left half done.                                  *)
(***************************************************************************)
EXTENDS Entries, Manifest

CONSTANTS
  Keys,           \* the keys clients write, positive integers
  Ops,            \* what clients call beside insert and get: "remove", "flush"
  SoftLimit,      \* opts_.buffer_threshold, in the units of BufferThreshold
  Sizes,          \* entry sizes clients write, in units of BufferThreshold
  MAX_FANOUT,     \* children an internal node can hold
  MaxWrites,      \* bound: insert and remove calls in a behaviour
  MaxSessions,    \* bound: times the tree is opened
  CrashPoints     \* where a crash may fall: "idle" (no work under cache_mu_),
                  \* "saving" (right before a save of the manifest), "unsaved"
                  \* (anywhere else) or "any"

ASSUME TreeAssumption ==
  /\ Keys \subseteq Nat \ {0}
  /\ Sizes \subseteq Nat \ {0}
  /\ Ops \subseteq {"remove", "flush"}
  /\ SoftLimit \in Nat
  /\ MAX_FANOUT \in Nat /\ MAX_FANOUT >= 2
  /\ MaxWrites \in Nat /\ MaxSessions \in Nat
  /\ CrashPoints \in {"idle", "saving", "unsaved", "any"}

VARIABLES
  write_buf,  \* the skip list, as the sorted sequence it represents
  seq_,       \* next sequence number, restarts at 1 in every session
  cache_,     \* node id -> node in memory
  manifest_,  \* the manifest in memory
  files,      \* node id -> node as written to its file
  saved,      \* the lines of the manifest file, {} when there is none
  todo,       \* calls still to run under cache_mu_
  flush_requested_,
  caller,     \* "flush" while a client is inside flush(), else "none"
  status,     \* "down", "opening", "open" or "closing" (in the destructor)
  threw,      \* history: something was thrown in this session
  crashed,    \* history: some session ended in a crash or an exception
  failures,   \* history: writes to disk that failed (module TreeFaults)
  writes,     \* history: number of writes so far; it numbers their values
  latest,     \* history: key -> its newest write
  rank,       \* history: key -> greatest seq_no it got in an earlier session
  floor,      \* history: key -> newest write a completed flush() covered
  session     \* how many times the tree was opened

memory == <<cache_, manifest_>>
disk == <<files, saved>>
life == <<status, threw, crashed, failures, session>>
history == <<writes, latest, rank, floor>>
vars == <<write_buf, seq_, memory, disk, todo, flush_requested_, caller, life, history>>

-----------------------------------------------------------------------------
(* Nodes (node.h, node.cpp) *)

\* SSTNode::create.
create(level, entries, children) ==
  LET buf == sort_buffer(entries)
  IN  [level |-> level,
       kids  |-> SubSeq(children, 1, Min({Len(children), MAX_FANOUT})),
       min   |-> IF buf = <<>> THEN NoKey ELSE Head(buf).key,
       max   |-> IF buf = <<>> THEN NoKey ELSE Last(buf).key,
       buf   |-> buf]

\* SSTNode::flush_to_disk: what the node and its file hold afterwards.  The
\* range is widened by the buffer, never narrowed.
flush_to_disk(n) ==
  LET buf == sort_buffer(n.buf)
      lo  == IF buf # <<>> /\ (n.min = NoKey \/ Head(buf).key < n.min)
             THEN Head(buf).key ELSE n.min
      hi  == IF buf # <<>> /\ (n.max = NoKey \/ Last(buf).key > n.max)
             THEN Last(buf).key ELSE n.max
  IN  [n EXCEPT !.buf = buf, !.min = lo, !.max = hi]

(* get_node: the cached node, or the one loaded from its file. *)

Readable(id) ==
  \/ id \in DOMAIN cache_
  \/ id \in ValidIds(manifest_) \cap DOMAIN files

Node(id) == IF id \in DOMAIN cache_ THEN cache_[id] ELSE files[id]

\* The cache after get_node was called on ids.
Cached(ids) == [i \in DOMAIN cache_ \cup ids |-> Node(i)]

\* The min_keys of the nodes ids.  A loop that gets to an unreadable node
\* throws; giving that node the lowest key makes every scan get to it.
Mins(ids) == [i \in DOMAIN ids |->
                IF Readable(ids[i]) THEN Node(ids[i]).min ELSE NoKey]

\* An internal node's range set to the span of its children, the first and last
\* of which are given.
Spanning(n, first, last) == [n EXCEPT !.min = first.min, !.max = last.max]

Root == manifest_.root
RootLevel == IF Readable(Root) THEN Node(Root).level ELSE 0

\* The nodes named by a set of ids and by the nodes below them, given the set
\* of ids each node names and the number of levels below the set.
Closure(ids, names(_), levels) ==
  LET down[i \in 0..levels] ==
        IF i = 0 THEN ids ELSE down[i - 1] \cup UNION {names(j) : j \in down[i - 1]}
  IN  down[levels]

Below(ids) ==
  Closure(ids, LAMBDA i : IF Readable(i) THEN ToSet(Node(i).kids) ELSE {}, RootLevel)

Reach == Below({Root})

-----------------------------------------------------------------------------
(* Reads *)

\* find_path: the ids from the root to the leaf responsible for key k, or to the
\* unreadable node on which it throws.
find_path(k) ==
  LET path[i \in 1..RootLevel + 1] ==
        IF i = 1 THEN Root
        ELSE IF ~Readable(path[i - 1]) THEN path[i - 1]
        ELSE LET n == Node(path[i - 1])
                 unread == {j \in DOMAIN n.kids : ~Readable(n.kids[j])}
             IN  n.kids[Min({LeftScan(k, Mins(n.kids))} \cup unread)]
  IN  path

\* The nodes get_node is called on while the path is found: in every internal
\* node of the path, the children up to the first whose min_key is above k.
Visited(k) ==
  LET path == find_path(k)
      Scanned(n) == {n.kids[i] : i \in {j \in DOMAIN n.kids :
                       \A h \in 1..j - 1 : Readable(n.kids[h]) /\ k >= Mins(n.kids)[h]}}
      seen == ToSet(path)
  IN  seen \cup UNION {Scanned(Node(id)) : id \in {i \in seen : Readable(i)}}

\* GravTree::get: the write buffer first, then the first hit down the path.
get(k) ==
  LET path == find_path(k)
      layers == <<skiplist_find(write_buf, k)>> \o
                [i \in DOMAIN path |-> node_get(Node(path[i]).buf, k)]
      hits == {i \in DOMAIN layers : layers[i] # {}}
      hit == CHOOSE e \in layers[Min(hits)] : TRUE
  IN  IF hits = {} \/ hit.del THEN NoValue ELSE hit.val

\* GravTree::range_scan, for one key k of the range: of all its versions in the
\* write buffer and the cached nodes, sorted newest first, the loop keeps the
\* first that is not a tombstone (a tombstone is skipped without marking the
\* key as seen).  Versions with equal sequence numbers come in the order of
\* the cache's iteration, hence a set of possible results.
range_scan(k) ==
  LET found == {e \in UNION ({ToSet(write_buf)} \cup
                             {ToSet(cache_[i].buf) : i \in DOMAIN cache_}) :
                  e.key = k /\ ~e.del}
  IN  IF found = {} THEN {NoValue}
      ELSE {e.val : e \in {f \in found : \A g \in found : f.seq >= g.seq}}

-----------------------------------------------------------------------------
(* Client operations on the write buffer *)

\* insert and remove, with the signal to the flush thread once the write buffer
\* has reached its soft limit.  The hard-limit wait and the ways a signal can
\* be lost are the subject of module FlushThread.
Write(k, del, sz) ==
  /\ status = "open" /\ writes < MaxWrites
  /\ write_buf' = skiplist_insert(write_buf, Entry(k, writes + 1, seq_, del, sz))
  /\ seq_' = seq_ + 1
  /\ writes' = writes + 1
  /\ latest' = [latest EXCEPT ![k] = [val |-> writes + 1, del |-> del, seq |-> seq_,
                                      outranked |-> seq_ <= rank[k]]]
  /\ flush_requested_' = (flush_requested_ \/ buffer_size_bytes(write_buf') >= SoftLimit)
  /\ UNCHANGED <<memory, disk, todo, caller, life, rank, floor>>

insert(k, sz) == Write(k, FALSE, sz)
remove(k) == "remove" \in Ops /\ Write(k, TRUE, 1)

\* A get that misses the write buffer leaves the nodes it visited cached, also
\* when it throws to its caller on an unreadable one.
Get(k) ==
  /\ status = "open" /\ todo = <<>>
  /\ \/ skiplist_find(write_buf, k) # {} /\ UNCHANGED cache_
     \/ /\ skiplist_find(write_buf, k) = {}
        /\ cache_' = Cached({id \in Visited(k) : Readable(id)})
  /\ UNCHANGED <<write_buf, seq_, manifest_, disk, todo, flush_requested_, caller, life,
                 history>>

-----------------------------------------------------------------------------
(* Work under cache_mu_ *)

Do(op) == todo # <<>> /\ Head(todo).op = op
Call(ops) == todo' = ops \o Tail(todo)
Save == [op |-> "save"]
Gc == [op |-> "gc"]

\* Mutant: old files are deleted before the manifest stops naming them.
BadCommit == <<Gc, Save>>

\* How every change of the tree's structure ends.
Commit == <<Save, Gc>>

Persist(id) == [op |-> "persist", id |-> id]
Check(id, kids) == [op |-> "check", id |-> id, kids |-> kids]

\* The root buffer after the drained write buffer was merged into it.
Merged == StableSort(Node(Root).buf \o write_buf)

\* A drain, followed under cache_mu_ by the calls given.  When get_node throws on
\* the root, the batch is gone; last is the call that ends the function.
Drain(calls, last) ==
  /\ write_buf' = <<>>
  /\ cache_' = IF Readable(Root) THEN [Cached({Root}) EXCEPT ![Root].buf = Merged]
               ELSE cache_
  /\ todo' = (IF Readable(Root) THEN calls ELSE <<[op |-> "throw"]>>) \o <<last>>

\* What is called on a node n whose buffer is full: split_leaf on a leaf, do_flush
\* on a node with children.
OnOverflow(id, n, path) ==
  IF n.kids # <<>> THEN <<[op |-> "do_flush", id |-> id]>>
  ELSE IF n.level = 0 THEN <<[op |-> "split_leaf", id |-> id, path |-> path]>>
  ELSE <<>>

\* One cycle of flush_thread_fn: drain, merge, and start a split or a flush
\* when the root buffer is full.  The request is cleared at the end of the
\* cycle, whatever was written meanwhile.
BackgroundFlush ==
  /\ status = "open" /\ todo = <<>> /\ flush_requested_
  /\ Drain(IF buffer_full(Merged) THEN OnOverflow(Root, Node(Root), <<Root>>) ELSE <<>>,
           [op |-> "done"])
  /\ UNCHANGED <<seq_, manifest_, disk, flush_requested_, caller, life, history>>

Done ==
  /\ Do("done") /\ Call(<<>>)
  /\ flush_requested_' = FALSE
  /\ UNCHANGED <<write_buf, seq_, memory, disk, caller, life, history>>

\* flush() up to its wait: it asks for a background flush.
RequestFlush ==
  /\ "flush" \in Ops /\ status = "open" /\ caller = "none"
  /\ caller' = "flush" /\ flush_requested_' = TRUE
  /\ UNCHANGED <<write_buf, seq_, memory, disk, todo, life, history>>

\* Mutant: the manifest is saved but not the root's buffer.
BadRootWrites == IF Merged = <<>> THEN <<>> ELSE <<Save>>

\* What flush() and the destructor write: the root file in place and the
\* manifest, unless the root's buffer is empty.
RootWrites == IF Merged = <<>> THEN <<>> ELSE <<Persist(Root), Save>>

\* flush() after its wait, and the destructor after the join: drain and merge,
\* then write.
PersistRoot(last) ==
  /\ status = "open" /\ todo = <<>>
  /\ Drain(RootWrites, [op |-> last, covers |-> [k \in Keys |-> latest[k].val]])
  /\ UNCHANGED <<seq_, manifest_, disk, flush_requested_, threw, crashed, failures, session,
                 history>>

Flush == caller = "flush" /\ PersistRoot("return") /\ UNCHANGED <<caller, status>>

Close ==
  /\ caller = "none" /\ session < MaxSessions
  /\ PersistRoot("closed") /\ status' = "closing" /\ UNCHANGED caller

-----------------------------------------------------------------------------
(* Exceptions *)

\* An exception unwinds the calls of a background flush and is swallowed by
\* flush_thread_fn, which ends its cycle as always.
Swallowed ==
  /\ todo' = <<>> /\ threw' = TRUE /\ flush_requested_' = FALSE
  /\ UNCHANGED <<write_buf, seq_, saved, caller, status, crashed, session, history>>

\* An exception in any function that works on the tree: flush() passes it on to
\* its caller, the destructor swallows it, open fails, and flush_thread_fn swallows
\* that of a background flush, whatever client is inside flush() going on.  cache
\* is what the calls have left in the cache.
Unwind(cache) ==
  LET last == Last(todo).op
      ends == last \in {"closed", "opened"}
  IN  /\ todo' = <<>>
      /\ cache_' = IF ends THEN << >> ELSE cache
      /\ status' = IF ends THEN "down" ELSE status
      /\ threw' = ~ends
      /\ crashed' = (crashed \/ ends)
      /\ flush_requested_' = (flush_requested_ /\ last = "return")
      /\ caller' = IF last = "return" THEN "none" ELSE caller
      /\ UNCHANGED <<write_buf, seq_, manifest_, saved, session, history>>

Throw == Do("throw") /\ Unwind(cache_) /\ UNCHANGED <<files, failures>>

-----------------------------------------------------------------------------
(* do_flush with local_flush *)

\* The child that replaces kid when it receives entries (local_flush).
Rewritten(kid, entries) ==
  create(kid.level, merge_sorted_entries(entries, kid.buf), kid.kids)

\* Mutant: the range stays that of the entries the child received.
BadRefreshed(kid) == kid

\* The range of an internal child is widened to span its own children, and its
\* file written again (the refresh loop of do_flush).
Refreshed(kid) ==
  IF kid.kids = <<>> THEN kid
  ELSE LET span == Spanning(kid, Node(Head(kid.kids)), Node(Last(kid.kids)))
       IN  flush_to_disk([kid EXCEPT
             !.min = IF @ = NoKey \/ span.min < @ THEN span.min ELSE @,
             !.max = IF @ = NoKey \/ span.max > @ THEN span.max ELSE @])

\* The first and the last child of a node.
EndsOf(n) == IF n.kids = <<>> THEN <<>> ELSE <<Head(n.kids), Last(n.kids)>>

\* Mutant: children are rewritten under their own ids.
BadRenamed(old, hit) == old

\* The ids of the children after local_flush: a fresh one, in order, for every
\* child that received entries.
Renamed(old, hit) ==
  [i \in DOMAIN old |-> IF i \notin hit THEN old[i]
                        ELSE manifest_.next + Cardinality({j \in hit : j < i})]

\* Mutant: the parent's buffer is not cleared after it was pushed down.
BadPushed(parent, new) == [parent EXCEPT !.kids = new]

\* The parent once its buffer was handed to its children, now named new.
Pushed(parent, new) == [parent EXCEPT !.kids = new, !.buf = <<>>]

\* What local_flush makes of the buffer of p: the entries of each child, the children
\* that receive some, the ids of the children afterwards, and the children.
PartsOf(p) == partition_entries(StableSort(cache_[p].buf), Mins(cache_[p].kids))

HitBy(p) ==
  LET parts == PartsOf(p) IN {i \in DOMAIN cache_[p].kids : parts[i] # <<>>}

NewKids(p) == Renamed(cache_[p].kids, HitBy(p))

MadeKids(p) ==
  LET old == cache_[p].kids
      parts == PartsOf(p)
  IN  [i \in DOMAIN old |-> IF parts[i] = <<>> THEN Node(old[i])
                             ELSE Rewritten(Node(old[i]), parts[i])]

\* The loop of do_flush that refreshes the children gets to the child number stop,
\* where it throws; it is complete when there is no such child.  Before, the
\* buffer is partitioned over the children, each child that receives entries
\* becomes a new node with a new id, and the parent points to the new nodes;
\* after a complete loop its buffer is cleared.
FlushChildren(p, stop) ==
  LET parent == cache_[p]
      old    == parent.kids
      hit    == HitBy(p)
      new    == NewKids(p)
      made   == MadeKids(p)
      done   == {i \in DOMAIN old : i < stop}
      kid    == [i \in done |-> Refreshed(made[i])]
      Pos(id)  == CHOOSE i \in DOMAIN new : new[i] = id
      Made(id) == IF Pos(id) \in done THEN kid[Pos(id)] ELSE made[Pos(id)]
      written == {new[i] : i \in hit \cup {j \in done : made[j].kids # <<>>}}
      cached  == {new[i] : i \in done}
      ends   == UNION {ToSet(EndsOf(made[i])) : i \in {j \in DOMAIN old : j <= stop}}
      gone   == {old[i] : i \in hit}
      erased == {old[i] : i \in {j \in hit : Cardinality({h \in hit : h <= j}) <= stop}}
      top    == IF stop > Len(old) THEN Spanning(Pushed(parent, new), Head(kid), Last(kid))
                ELSE [parent EXCEPT !.kids = new, !.buf = StableSort(@)]
  IN  /\ cache_' = [id \in ((DOMAIN cache_ \cup ToSet(old) \cup {e \in ends : Readable(e)})
                             \ erased) \cup cached |->
                      IF id \in cached THEN kid[Pos(id)] ELSE IF id = p THEN top ELSE Node(id)]
      /\ files' = [id \in DOMAIN files \cup written |->
                      IF id \in written THEN Made(id) ELSE files[id]]
      /\ manifest_' = take_ids(register(invalidate(register(manifest_, {new[i] : i \in hit}),
                                                   gone), written), Cardinality(hit))

\* The children of p that get_node throws on, and those whose outermost children,
\* which the refresh loop reads, it throws on.
UnreadKids(p) == {i \in DOMAIN cache_[p].kids : ~Readable(cache_[p].kids[i])}
UnreadEnds(p) ==
  {i \in DOMAIN cache_[p].kids : \E e \in ToSet(EndsOf(Node(cache_[p].kids[i]))) : ~Readable(e)}

\* do_flush up to the in-place rewrite of the parent.
DoFlush ==
  /\ Do("do_flush")
  /\ LET p == Head(todo).id
         n == Len(cache_[p].kids)
     IN  /\ UnreadKids(p) = {} /\ UnreadEnds(p) = {}
         /\ FlushChildren(p, n + 1)
         /\ Call(<<Persist(p)>> \o Commit \o
                 <<Check(p, cache_'[p].kids)>>)
  /\ UNCHANGED <<write_buf, seq_, saved, flush_requested_, caller, life, history>>

\* get_node throws on a child or a grandchild that a crash or an earlier exception
\* left dangling, before the flush or in the middle of its refresh loop.
DoFlushThrows ==
  /\ Do("do_flush")
  /\ LET p == Head(todo).id
     IN  \/ /\ UnreadKids(p) # {}
            /\ cache_' = Cached({cache_[p].kids[i] : i \in 1..Min(UnreadKids(p)) - 1})
            /\ UNCHANGED <<manifest_, files>>
         \/ /\ UnreadKids(p) = {} /\ UnreadEnds(p) # {}
            /\ FlushChildren(p, Min(UnreadEnds(p)))
  /\ Swallowed /\ UNCHANGED failures

\* Mutant: a child is looked at again after the others.
BadUnchecked(op) == Check(op.id, Append(Tail(op.kids), Head(op.kids)))

\* The loop of do_flush over its children, one child further.
Unchecked(op) == Check(op.id, Tail(op.kids))

\* One round of do_flush's last loop: a child that overflowed is split or
\* flushed in turn.
CheckChild ==
  /\ Do("check")
  /\ LET op == Head(todo)
         c  == Head(op.kids)
         rest == <<Unchecked(op)>>
     IN  IF op.kids = <<>> THEN Call(<<>>)
         ELSE IF c \notin DOMAIN cache_ \/ ~buffer_full(cache_[c].buf)
         THEN Call(rest)
         ELSE Call(OnOverflow(c, cache_[c], <<op.id, c>>) \o rest)
  /\ UNCHANGED <<write_buf, seq_, memory, disk, flush_requested_, caller, life, history>>

-----------------------------------------------------------------------------
(* split_leaf and insert_child *)

\* The pieces a sequence is cut into by a split.
LeftHalf(s) == SubSeq(s, 1, Len(s) \div 2)

\* Mutant: the middle entry goes to neither half.
BadRightHalf(s) == SubSeq(s, Len(s) \div 2 + 2, Len(s))

RightHalf(s) == SubSeq(s, Len(s) \div 2 + 1, Len(s))

\* The state after the node gone was replaced by the nodes a and b, under a new
\* root when it was the root, and the nodes loaded were read: cache, files and
\* manifest.
Replace(gone, a, b, isRoot, loaded) ==
  LET l == manifest_.next
      r == l + 1
      top == Spanning(create(a.level + 1, <<>>, <<l, r>>), a, b)
      made == IF isRoot THEN {l, r, l + 2} ELSE {l, r}
      New(id) == IF id = l THEN a ELSE IF id = r THEN b ELSE top
  IN  /\ cache_' = [id \in (DOMAIN cache_ \cup made \cup loaded) \ {gone} |->
                       IF id \in made THEN New(id) ELSE Node(id)]
      /\ files' = [id \in DOMAIN files \cup made |->
                       IF id \in made THEN New(id) ELSE files[id]]
      /\ manifest_' = set_root(take_ids(invalidate(register(manifest_, made), {gone}),
                                        Cardinality(made)),
                               IF isRoot THEN l + 2 ELSE Root)

\* split_leaf: the sorted buffer is cut at its middle into two new leaves.
SplitLeaf ==
  /\ Do("split_leaf")
  /\ LET op  == Head(todo)
         buf == StableSort(cache_[op.id].buf)
         isRoot == Len(op.path) = 1
     IN  /\ Replace(op.id, create(0, LeftHalf(buf), <<>>),
                    create(0, RightHalf(buf), <<>>), isRoot, {})
         /\ Call((IF isRoot THEN <<>>
                  ELSE <<[op |-> "insert_child", id |-> Head(op.path),
                          old |-> op.id, left |-> manifest_.next,
                          right |-> manifest_.next + 1]>>) \o Commit)
  /\ UNCHANGED <<write_buf, seq_, saved, flush_requested_, caller, life, history>>

\* Mutant: the halves are inserted in the wrong order.
BadWithSplit(kids, old, left, right) ==
  LET i == CHOOSE j \in DOMAIN kids : kids[j] = old
  IN  SubSeq(kids, 1, i - 1) \o <<right, left>> \o SubSeq(kids, i + 1, Len(kids))

\* The child list with old replaced by the two nodes it was split into.
WithSplit(kids, old, left, right) ==
  LET i == CHOOSE j \in DOMAIN kids : kids[j] = old
  IN  SubSeq(kids, 1, i - 1) \o <<left, right>> \o SubSeq(kids, i + 1, Len(kids))

\* path_to(id), a depth-first search from the root: the nodes it loads before
\* it meets id, which are the ancestors of id and the subtrees to the left of
\* the path, and the last but one node of the path.
Searched(id) ==
  LET above == {q \in Reach : q # id /\ id \in Below({q})}
      LeftIn(kids) == {kids[i] : i \in {j \in DOMAIN kids :
                         \A h \in 1..j : id \notin Below({kids[h]})}}
  IN  above \cup Below(UNION {LeftIn(Node(q).kids) : q \in above})

ParentOf(id) == CHOOSE q \in Reach : Readable(q) /\ id \in ToSet(Node(q).kids)

\* insert_child finds its parent full and holding the split node.
MustSplit(op) ==
  LET kids == Node(op.id).kids
  IN  Len(kids) = MAX_FANOUT /\ op.old \in ToSet(kids)

\* The nodes insert_child cannot read: the parent, when it was itself split away,
\* or one that path_to meets and that a crash left dangling.
Missing(op) ==
  IF ~Readable(op.id) THEN {op.id}
  ELSE IF MustSplit(op) THEN {q \in Searched(op.id) : ~Readable(q)} ELSE {}

\* insert_child into a parent with a free slot (or that no longer names the
\* split node): the parent is updated and rewritten in place.  Its children are
\* cached: the do_flush that led here read them.
InsertChild ==
  /\ Do("insert_child") /\ Missing(Head(todo)) = {} /\ ~MustSplit(Head(todo))
  /\ LET op == Head(todo)
         parent == Node(op.id)
         kids == IF op.old \notin ToSet(parent.kids) THEN parent.kids
                 ELSE WithSplit(parent.kids, op.old, op.left, op.right)
     IN  /\ cache_' = [Cached({op.id}) EXCEPT
                         ![op.id] = Spanning([parent EXCEPT !.kids = kids],
                                             Node(Head(kids)), Node(Last(kids)))]
         /\ Call(<<Persist(op.id)>>)
  /\ UNCHANGED <<write_buf, seq_, manifest_, disk, flush_requested_, caller, life,
                 history>>

\* The two nodes a full parent is split into.
Halves(op) ==
  LET parent == Node(op.id)
      kids == WithSplit(parent.kids, op.old, op.left, op.right)
      rightMin == Node(Head(RightHalf(kids))).min
      left == {i \in DOMAIN parent.buf : parent.buf[i].key < rightMin}
      Half(ids, mine) ==
        flush_to_disk(Spanning(
          create(parent.level, Subsequence(parent.buf, mine), ids),
          Node(Head(ids)), Node(Last(ids))))
  IN  <<Half(LeftHalf(kids), left), Half(RightHalf(kids), DOMAIN parent.buf \ left)>>

\* insert_child into a full parent: the parent itself is split and the split
\* is inserted one level up.
SplitParent ==
  /\ Do("insert_child") /\ Missing(Head(todo)) = {} /\ MustSplit(Head(todo))
  /\ LET op == Head(todo)
         half == Halves(op)
     IN  /\ Replace(op.id, half[1], half[2], op.id = Root, Searched(op.id))
         /\ Call((IF op.id = Root THEN <<>>
                  ELSE <<[op |-> "insert_child", id |-> ParentOf(op.id),
                          old |-> op.id, left |-> manifest_.next,
                          right |-> manifest_.next + 1]>>) \o Commit)
  /\ UNCHANGED <<write_buf, seq_, saved, flush_requested_, caller, life, history>>

\* The first n of two new nodes are written to their files under the next ids, and
\* nothing else comes of it.
Abandoned(nodes, n) ==
  LET Id(i) == manifest_.next + i - 1
  IN  /\ files' = [id \in DOMAIN files \cup {Id(i) : i \in 1..n} |->
                     IF id >= manifest_.next /\ id < Id(n + 1) THEN nodes[id - Id(0)]
                     ELSE files[id]]
      /\ manifest_' = take_ids(manifest_, 2)

\* get_node throws on the parent, or on a node that path_to meets after the two
\* halves of the parent were written.
InsertChildThrows ==
  /\ Do("insert_child")
  /\ LET op == Head(todo)
     IN  \/ ~Readable(op.id) /\ UNCHANGED <<memory, files>>
         \/ /\ Readable(op.id)
            /\ \E m \in Missing(op) : /\ Searched(m) \cap Missing(op) = {}
                                      /\ cache_' = Cached(Searched(m))
            /\ Abandoned(Halves(op), 2)
  /\ Swallowed /\ UNCHANGED failures

-----------------------------------------------------------------------------
(* Writes to disk *)

PersistNode ==
  /\ Do("persist")
  /\ LET id == Head(todo).id
         n  == flush_to_disk(cache_[id])
     IN  /\ cache_' = [cache_ EXCEPT ![id] = n]
         /\ files' = [i \in DOMAIN files \cup {id} |-> IF i = id THEN n ELSE files[i]]
         /\ manifest_' = register(manifest_, {id})
  /\ Call(<<>>)
  /\ UNCHANGED <<write_buf, seq_, saved, flush_requested_, caller, life, history>>

SaveManifest ==
  /\ Do("save") /\ saved' = save(manifest_) /\ Call(<<>>)
  /\ UNCHANGED <<write_buf, seq_, memory, files, flush_requested_, caller, life, history>>

\* gc deletes the files of the invalid nodes one by one, in any order.
CollectGarbage ==
  /\ Do("gc")
  /\ \/ /\ InvalidIds(manifest_) = {}
        /\ Call(<<>>) /\ UNCHANGED <<files, manifest_>>
     \/ \E id \in InvalidIds(manifest_) :
          /\ files' = Restrict(files, DOMAIN files \ {id})
          /\ manifest_' = forget(manifest_, id)
          /\ UNCHANGED todo
  /\ UNCHANGED <<write_buf, seq_, cache_, saved, flush_requested_, caller, life, history>>

\* flush() returns; the destructor ends and memory is gone.
Return ==
  /\ Do("return") /\ Call(<<>>)
  /\ floor' = Head(todo).covers /\ caller' = "none"
  /\ UNCHANGED <<write_buf, seq_, memory, disk, flush_requested_, life, writes, latest, rank>>

Lost ==
  /\ write_buf' = <<>> /\ cache_' = << >> /\ todo' = <<>>
  /\ status' = "down" /\ threw' = FALSE /\ caller' = "none" /\ flush_requested_' = FALSE
  /\ UNCHANGED <<seq_, manifest_, disk, writes, latest, rank, failures, session>>

Closed == Do("closed") /\ floor' = Head(todo).covers /\ crashed' = (crashed \/ threw) /\ Lost

Crash ==
  /\ status # "down" /\ session < MaxSessions
  /\ \/ CrashPoints # "saving" /\ (todo = <<>> \/ status = "opening")
     \/ CrashPoints = "unsaved" /\ ~Do("save")
     \/ CrashPoints = "saving" /\ Do("save")
     \/ CrashPoints = "any"
  /\ crashed' = TRUE /\ Lost /\ UNCHANGED floor

\* GravTree::open: the manifest is loaded; sequence numbers start at 1 again.
Load ==
  /\ status = "down" /\ session < MaxSessions
  /\ session' = session + 1 /\ seq_' = 1
  /\ rank' = [k \in Keys |-> Max({rank[k], latest[k].seq})]
  /\ UNCHANGED <<write_buf, saved, flush_requested_, caller, threw, crashed, failures, writes,
                 latest, floor>>

\* ensure_root on an existing directory: the root is loaded.  When that throws,
\* open fails and nothing changes.
Open ==
  /\ Load /\ status' = "open"
  /\ manifest_' = load(saved)
  /\ manifest_'.root \in ValidIds(manifest_') \cap DOMAIN files
  /\ cache_' = Restrict(files, {manifest_'.root})
  /\ UNCHANGED <<files, todo>>

\* ensure_root without a root: an empty leaf is created and the manifest saved.
EnsureRoot ==
  /\ Load /\ status' = "opening"
  /\ LET m == load(saved)
         root == create(0, <<>>, <<>>)
     IN  /\ m.root = INVALID_NODE_ID
         /\ manifest_' = set_root(register(take_ids(m, 1), {m.next}), m.next)
         /\ cache_' = [id \in {m.next} |-> root]
         /\ files' = [id \in DOMAIN files \cup {m.next} |->
                         IF id = m.next THEN root ELSE files[id]]
  /\ todo' = <<Save, [op |-> "opened"]>>

Opened ==
  /\ Do("opened") /\ Call(<<>>) /\ status' = "open"
  /\ UNCHANGED <<write_buf, seq_, memory, disk, flush_requested_, caller, threw, crashed,
                 failures, session, history>>

\* An empty directory.
Init ==
  /\ write_buf = <<>> /\ seq_ = 1 /\ todo = <<>> /\ status = "down"
  /\ flush_requested_ = FALSE /\ caller = "none"
  /\ cache_ = << >> /\ files = << >>
  /\ manifest_ = NewManifest /\ saved = {}
  /\ threw = FALSE /\ crashed = FALSE /\ failures = 0 /\ writes = 0 /\ session = 0
  /\ latest = [k \in Keys |-> [val |-> NoValue, del |-> TRUE, seq |-> 0, outranked |-> FALSE]]
  /\ rank = [k \in Keys |-> 0]
  /\ floor = [k \in Keys |-> NoValue]

TreeStep ==
  \/ DoFlush \/ DoFlushThrows \/ CheckChild \/ SplitLeaf
  \/ InsertChild \/ SplitParent \/ InsertChildThrows
  \/ PersistNode \/ SaveManifest \/ CollectGarbage
  \/ Done \/ Return \/ Closed \/ Opened \/ Throw

Next ==
  \/ \E k \in Keys : Get(k) \/ remove(k) \/ \E sz \in Sizes : insert(k, sz)
  \/ BackgroundFlush \/ RequestFlush \/ Flush \/ Close \/ Crash \/ Open \/ EnsureRoot
  \/ TreeStep

Spec == Init /\ [][Next]_vars

-----------------------------------------------------------------------------
(* Properties *)

Idle == status = "open" /\ todo = <<>> /\ ~threw

\* Type invariant: the state of the tree object, of the disk and of the call in
\* progress has the shape tree.h, node.h and manifest.h declare.
IsEntry(e) ==
  /\ e.key \in Keys /\ e.val \in 1..MaxWrites /\ e.seq \in 1..MaxWrites
  /\ e.del \in BOOLEAN /\ e.sz \in Sizes \cup {1}

IsNode(n) ==
  /\ n.level \in Nat /\ n.kids \in Seq(Nat \ {0}) /\ Len(n.kids) <= MAX_FANOUT
  /\ n.min \in Keys \cup {NoKey} /\ n.max \in Keys \cup {NoKey}
  /\ \A i \in DOMAIN n.buf : IsEntry(n.buf[i])

IsManifest(m) ==
  /\ m.root \in DOMAIN m.nodes
  /\ m.next \in Nat /\ \A i \in DOMAIN m.nodes : 0 < i /\ i < m.next /\ m.nodes[i] \in BOOLEAN

TypeOK ==
  /\ \A i \in DOMAIN write_buf : IsEntry(write_buf[i])
  /\ seq_ \in 1..MaxWrites + 1 /\ writes \in 0..MaxWrites /\ session \in 0..MaxSessions
  /\ \A i \in DOMAIN cache_ : IsNode(cache_[i])
  /\ \A i \in DOMAIN files : IsNode(files[i])
  /\ status = "open" => IsManifest(manifest_) /\ IsManifest(load(saved))
  /\ status \in {"opening", "open", "closing", "down"}
  /\ threw \in BOOLEAN /\ crashed \in BOOLEAN /\ failures \in Nat
  /\ flush_requested_ \in BOOLEAN /\ caller \in {"none", "flush"}
  /\ \A i \in DOMAIN todo : todo[i].op \in
       {"do_flush", "check", "split_leaf", "insert_child", "persist", "save", "gc",
        "done", "return", "closed", "opened", "throw"}
  /\ \A k \in Keys : latest[k].val \in 0..writes /\ floor[k] \in 0..latest[k].val

\* Structure, whenever no flush is under way (tree.cpp: do_flush, split_leaf,
\* insert_child): every child pointer reachable from the root leads to a node
\* that can be read, one level lower; no node is named twice; an internal node
\* has between one and MAX_FANOUT children, ordered by min_key, and a leaf none.
TreeIntact ==
  Idle =>
    /\ \A id \in Reach : Readable(id)
    /\ \A id \in Reach : Len(Node(id).kids) \in
         (IF Node(id).level = 0 THEN {0} ELSE 1..MAX_FANOUT)
    /\ \A id \in Reach : \A c \in ToSet(Node(id).kids) : Node(c).level = Node(id).level - 1
    /\ \A p, q \in Reach : \A i \in DOMAIN Node(p).kids, j \in DOMAIN Node(q).kids :
         Node(p).kids[i] = Node(q).kids[j] => p = q /\ i = j
    /\ \A id \in Reach : \A i, j \in DOMAIN Node(id).kids :
         i < j => Mins(Node(id).kids)[i] <= Mins(Node(id).kids)[j]

\* A key with versions in two leaves: split_leaf cut its versions apart, which
\* only happens to a root leaf, whose buffer holds several versions of a key.
Straddles(k) ==
  Cardinality({id \in Reach : /\ Readable(id) /\ Node(id).level = 0
                              /\ \E e \in ToSet(Node(id).buf) : e.key = k}) > 1

\* Routing agrees with placement: whatever partition_entries, merges and splits
\* did, every entry sits in a node that find_path visits for its key.  (Not so
\* for the versions of a key that straddles two leaves.)
EntriesOnPath ==
  Idle /\ (\A id \in Reach : Readable(id)) =>
    \A id \in Reach : \A e \in ToSet(Node(id).buf) :
      id \in ToSet(find_path(e.key)) \/ Straddles(e.key)

\* get returns the value of the last write to the key, nothing if that was a
\* remove, wherever flushes have moved its versions (README: point lookup), also
\* after the tree was closed and opened again.  (Not so for a write whose sequence
\* number is not above those of earlier sessions, which is compared with them.)
GetLatest ==
  Idle /\ ~crashed /\ (\A id \in Reach : Readable(id)) =>
    \A k \in Keys : Straddles(k) \/ latest[k].outranked \/
      get(k) = IF latest[k].del THEN NoValue ELSE latest[k].val

\* range_scan returns the last write of every key that is not removed: in the
\* session that built the tree the cache holds every node (tree.cpp:267), and no
\* merge, flush or split loses the newest version of a key.
ScanFindsLive ==
  Idle /\ session = 1 => \A k \in Keys : ~latest[k].del => range_scan(k) = {latest[k].val}

\* Between flushes the manifest's valid nodes are exactly the nodes of the tree,
\* and no file is left behind for good: what is not in the tree is known to the
\* next gc or has an id that will be given out again (local_flush, split_leaf,
\* insert_child, gc; crashes included).
NoGarbage ==
  Idle => /\ ValidIds(manifest_) = Reach /\ Reach \subseteq DOMAIN files
          /\ \A id \in DOMAIN files \ Reach :
               id \in InvalidIds(manifest_) \/ id >= manifest_.next

\* The nodes a process opening the directory now would find, from the manifest
\* file and the node files.
OnDisk == ValidIds(load(saved)) \cap DOMAIN files
DurableReach ==
  LET root == load(saved).root
      found == OnDisk
  IN  Closure({root}, LAMBDA i : IF i \in found THEN ToSet(files[i].kids) ELSE {},
              IF root \in found THEN files[root].level ELSE 0)

\* About to save the manifest.
Saving == todo # <<>> /\ Head(todo).op = "save"

\* A crash at any point but right before a manifest save leaves a directory
\* whose tree is whole: every node the saved manifest leads to has its file.
Recoverable == Saving \/ saved = {} \/ DurableReach \subseteq OnDisk

\* What a flush() that returned had covered, or something newer, is in that tree
\* for every key, whatever background flush is under way (tree.h: flush).
Durable ==
  Saving \/ \A k \in Keys : floor[k] = NoValue \/
    \E id \in DurableReach \cap OnDisk : \E e \in ToSet(files[id].buf) :
      e.key = k /\ e.val >= floor[k]

\* insert_child works on parents whose buffer is empty (tree.cpp:523: "internal-
\* node buffers are empty on all reachable paths"), so no entry can be caught
\* between the two halves of a split parent.
InsertIntoEmptied ==
  Do("insert_child") /\ Readable(Head(todo).id) => Node(Head(todo).id).buf = <<>>

\* Immutability, as far as it goes: the file of a leaf that is not the root and
\* that the saved manifest names is never written again (README, node.h).
LeafFilesImmutable ==
  [][files' = files \/
     LET m == load(saved)
         below == (ValidIds(m) \cap DOMAIN files) \ {m.root, Root}
     IN  \A id \in below : files[id].level = 0 =>
           id \notin DOMAIN files' \/ files'[id] = files[id]]_vars

\* Every flush, with all the splits and further flushes it sets off, ends, also one
\* that meets a failing write or what a crash or an exception left of the tree.
FlushTerminates == todo # <<>> ~> todo = <<>>
=============================================================================
