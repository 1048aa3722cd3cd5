----------------------------- MODULE WriteBatch -----------------------------
(***************************************************************************)
(* The way of a batch of writes down the tree, through the components that *)
(* hold it one after the other: the skip list, the buffer of the node the  *)
(* batch is drained into, and the pure functions of a local flush, which   *)
(* merge it into a child (skiplist.cpp, flush_thread_fn, flush.cpp).  The  *)
(* child may hold older versions of the same keys and, since an older      *)
(* batch can be merged late, newer ones too.                               *)
(***************************************************************************)
EXTENDS SkipList

CONSTANT MaxKids   \* number of children

ASSUME KidsAssumption == MaxKids \in Nat \ {0}

VARIABLES
  parent,   \* the buffer of the node that is flushed
  child,    \* the buffer of one of its children
  mins,     \* the min_keys of all its children, in their order
  parts,    \* what partition_entries returned, empty before the flush
  merged    \* what the child holds afterwards

batchVars == <<vars, parent, child, mins, parts, merged>>

BatchInit ==
  /\ Init
  /\ parent = <<>> /\ child = <<>> /\ mins = <<>> /\ parts = <<>> /\ merged = <<>>

\* A version the child received in an earlier flush.
ChildHas(k) ==
  /\ parts = <<>> /\ seq_ <= MaxSeq
  /\ child' = sort_buffer(Append(child, Entry(k, seq_, seq_, FALSE, 1)))
  /\ seq_' = seq_ + 1
  /\ UNCHANGED <<heap, cur_height_, size_, bytes_, contents, parent, mins, parts, merged>>

Write(k, h) ==
  parts = <<>> /\ Insert(k, h) /\ UNCHANGED <<parent, child, mins, parts, merged>>

\* The drain of flush_thread_fn with its merge into the root's buffer, which may
\* come to hold several versions of a key.
DrainInto ==
  /\ parts = <<>> /\ Drain
  /\ parent' = StableSort(parent \o to_sorted_vector)
  /\ UNCHANGED <<child, mins, parts, merged>>

\* The children's ranges, in ascending order; a child that never received an
\* entry has the empty min_key.
Ranges == {m \in UNION {[1..n -> Keys \cup {NoKey}] : n \in 1..MaxKids} :
             \A i, j \in DOMAIN m : i < j => m[i] <= m[j]}

\* local_flush, on the results of its functions: one call of partition_entries,
\* and merge_sorted_entries and SSTNode::create for a child that receives all.
local_flush ==
  /\ parts = <<>> /\ size_ = 0 /\ parent # <<>>
  /\ \E m \in Ranges : mins' = m /\ parts' = partition_entries(StableSort(parent), m)
  /\ merged' = sort_buffer(merge_sorted_entries(StableSort(parent), child))
  /\ UNCHANGED <<vars, parent, child>>

BatchNext ==
  \/ \E k \in Keys : ChildHas(k) \/ \E h \in 1..kMaxHeight : Write(k, h)
  \/ DrainInto \/ local_flush

BatchSpec == BatchInit /\ [][BatchNext]_batchVars

-----------------------------------------------------------------------------
Ran == parts # <<>>

\* merge_sorted_entries followed by sort_buffer (SSTNode::create) yields, in key
\* order, exactly the newest entry of every key of either input, also when the
\* parent's buffer holds several versions of a key, which the two-way merge
\* compares with the child's version one at a time (flush.cpp:41).
MergeKeepsNewest ==
  Ran => LET all == ToSet(parent) \cup ToSet(child)
         IN  /\ ToSet(merged) = {e \in all : \A f \in all : f.key = e.key => f.seq <= e.seq}
             /\ \A i, j \in DOMAIN merged : i < j => merged[i].key < merged[j].key

\* partition_entries loses and reorders nothing: read from the first child to
\* the last, its buckets are the parent's buffer (flush.cpp:13).
PartitionKeepsAll == Ran => FlattenSeq(parts) = parent

\* An entry goes to the child in which find_path will look for it, although the
\* one scans the children from the right and the other from the left.
PartitionFollowsPath ==
  Ran => \A i \in DOMAIN parts : \A e \in ToSet(parts[i]) : LeftScan(e.key, mins) = i
=============================================================================
