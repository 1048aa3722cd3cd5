------------------------------ MODULE SkipList ------------------------------
(***************************************************************************)
(* The write buffer's skip list (skiplist.cpp, skiplist.h) at the level of *)
(* its nodes and pointers.  GravTree uses it through insert, find_key,     *)
(* to_sorted_vector and clear, always under write_buf_mu_, so each is one  *)
(* step here.  The coin flips of random_height are a free choice.          *)
(***************************************************************************)
EXTENDS Entries

CONSTANTS
  Keys,        \* keys of the entries, positive integers
  kMaxHeight,  \* levels of the sentinel and of the tallest tower
  MaxSeq       \* bound: sequence numbers given out in a behaviour

ASSUME SkipListAssumption ==
  Keys \subseteq Nat \ {0} /\ kMaxHeight \in Nat \ {0} /\ MaxSeq \in Nat

VARIABLES
  heap,        \* address -> node: its entry, its height and its next pointers
  cur_height_,
  size_,
  bytes_,
  seq_,        \* next sequence number
  contents     \* history: the entries inserted since the last clear

vars == <<heap, cur_height_, size_, bytes_, seq_, contents>>

nullptr == 0
head_ == 1
Levels == 0..kMaxHeight - 1

\* A new node: no pointer is set.
NewNode(e, h) == [val |-> e, height |-> h, next |-> [lv \in Levels |-> nullptr]]

\* The sentinel; its entry is never looked at.
Sentinel == NewNode([key |-> NoKey], kMaxHeight)

-----------------------------------------------------------------------------
\* Mutant: the walk also passes the entries that are not below e.
BadWalk(lv, from, e) ==
  LET last[p \in DOMAIN heap] ==
        LET n == heap[p].next[lv]
        IN  IF n = nullptr \/ heap[n].val.key > e.key THEN p ELSE last[n]
  IN  last[from]

\* The inner loop of find_prev and find_key: from a node as far along a level as
\* the next entry is below e.
Walk(lv, from, e) ==
  LET last[p \in DOMAIN heap] ==
        LET n == heap[p].next[lv]
        IN  IF n = nullptr \/ ~Less(heap[n].val, e) THEN p ELSE last[n]
  IN  last[from]

\* find_prev: the predecessor of e on every level in use, each walk starting
\* where the one above it ended.
find_prev(e) ==
  LET prev[lv \in 0..cur_height_ - 1] ==
        Walk(lv, IF lv = cur_height_ - 1 THEN head_ ELSE prev[lv + 1], e)
  IN  prev

\* The predecessors an insertion of height h links to: on levels not used so
\* far, the sentinel.
PrevOf(e, h) ==
  LET found == find_prev(e)
  IN  [lv \in 0..h - 1 |-> IF lv < cur_height_ THEN found[lv] ELSE head_]

\* SkipList::insert with a tower of height h.
insert(e, h) ==
  LET prev == PrevOf(e, h)
      nd   == Max(DOMAIN heap) + 1
      Tower(lv) == lv \in DOMAIN prev
  IN  /\ heap' = [p \in DOMAIN heap \cup {nd} |->
                    IF p = nd
                    THEN [NewNode(e, h) EXCEPT !.next = [lv \in Levels |->
                            IF Tower(lv) THEN heap[prev[lv]].next[lv] ELSE nullptr]]
                    ELSE [heap[p] EXCEPT !.next = [lv \in Levels |->
                            IF Tower(lv) /\ prev[lv] = p THEN nd ELSE @[lv]]]]
      /\ cur_height_' = Max({cur_height_, h})
      /\ size_' = size_ + 1
      /\ bytes_' = bytes_ + e.sz

\* SkipList::find_key: the probe carries the greatest sequence number, so the walk
\* ends in front of the first entry of key k.  A set of at most one entry.
find_key(k) ==
  LET probe == Entry(k, NoValue, MaxSeq + 1, FALSE, 0)
      candidate == heap[find_prev(probe)[0]].next[0]
  IN  IF candidate # nullptr /\ heap[candidate].val.key = k
      THEN {heap[candidate].val} ELSE {}

\* The entries of one level in the order of its pointers.
Chain(lv) ==
  LET from[p \in DOMAIN heap] ==
        LET n == heap[p].next[lv]
        IN  IF n = nullptr THEN <<>> ELSE <<heap[n].val>> \o from[n]
  IN  from[head_]

to_sorted_vector == Chain(0)

\* Mutant: only the lowest level of the sentinel is reset.
BadEmptied == [heap[head_] EXCEPT !.next[0] = nullptr]

\* The sentinel after clear.
Emptied == [heap[head_] EXCEPT !.next = [lv \in Levels |-> nullptr]]

\* SkipList::clear.
clear ==
  /\ heap' = [p \in {head_} |-> Emptied]
  /\ cur_height_' = 1 /\ size_' = 0 /\ bytes_' = 0

-----------------------------------------------------------------------------
\* GravTree::insert and remove, as far as the buffer is concerned: the order of
\* entries does not depend on what they hold.
Insert(k, h) ==
  /\ seq_ <= MaxSeq
  /\ LET e == Entry(k, seq_, seq_, FALSE, 1)
     IN  insert(e, h) /\ contents' = contents \cup {e}
  /\ seq_' = seq_ + 1

\* A drain: flush_thread_fn, flush and ~GravTree copy the buffer and clear it.
Drain == size_ > 0 /\ clear /\ contents' = {} /\ UNCHANGED seq_

Init ==
  /\ heap = [p \in {head_} |-> Sentinel]
  /\ cur_height_ = 1 /\ size_ = 0 /\ bytes_ = 0
  /\ seq_ = 1 /\ contents = {}

Next == Drain \/ \E k \in Keys, h \in 1..kMaxHeight : Insert(k, h)

Spec == Init /\ [][Next]_vars

-----------------------------------------------------------------------------
(* Properties *)

\* Every level is a sorted list of exactly the entries whose towers reach it, so
\* that no level skips an entry or leads into nodes that clear has deleted; no
\* tower is taller than cur_height_, on which every search starts.
LevelsSorted ==
  /\ \A p \in DOMAIN heap, lv \in Levels : heap[p].next[lv] \in DOMAIN heap \cup {nullptr}
  /\ \A lv \in Levels :
       LET up == {heap[p].val : p \in {q \in DOMAIN heap \ {head_} : heap[q].height > lv}}
           chain == Chain(lv)
       IN  /\ Len(chain) = Cardinality(up) /\ ToSet(chain) = up
           /\ \A i, j \in DOMAIN chain : i < j => Less(chain[i], chain[j])
           /\ up # {} => lv < cur_height_

\* find_key answers with the newest version of a key written since the buffer was
\* last cleared, however the towers fell (skiplist.h: highest seq_no).
FindsNewest ==
  \A k \in Keys : find_key(k) =
    {e \in contents : e.key = k /\ \A f \in contents : f.key = k => f.seq <= e.seq}

Sorted == INSTANCE SortedBuffer WITH buf <- to_sorted_vector

\* Refinement: the list of towers is, step by step, the sorted sequence that
\* module GravTree takes the write buffer to be.
ImplementsSorted == Sorted!Spec
=============================================================================
