# GravTree: a TLA+ verification project

GravTree is a key-value store in C++17 (`src/src`, `src/include/gravtree`): a tree
of node files, an in-memory write buffer on top, and a background thread that
pushes the buffer down the tree. This directory holds TLA+ models of it, the TLC
runs that check them, and TLAPS proofs.

## The system

| Part | State | Operations |
|---|---|---|
| `SkipList` (skiplist.cpp) | the write buffer: towers of pointers over entries by key, newest first | insert, find_key, clear, to_sorted_vector |
| `SSTNode` (node.cpp) | id, level, children, key range, sorted buffer, Bloom filter, sparse index; one file per id | create, flush_to_disk, load_header, load_entries, get, might_contain |
| `Manifest` (manifest.cpp) | root id, next id, the known nodes with a valid flag; one file | register, invalidate, set_root, save (atomic), load, gc |
| LocalFlush (flush.cpp) | none | partition_entries, merge_sorted_entries, local_flush |
| `GravTree` (tree.cpp) | write buffer, node cache, manifest, flags | open, insert, remove, get, range_scan, flush, destructor; inside: do_flush, split_leaf, insert_child, path_to |
| Flush thread (tree.cpp) | `flush_requested_`, `flush_in_progress_`, `stop_`, one condition variable | flush_thread_fn, signal_flush, wait_for_flush_complete |
| `BloomFilter` (bloom.cpp) | bit array | add, might_contain, serialize |

How they interact. A writer puts an entry with a fresh sequence number into the
write buffer (under `write_buf_mu_`) and, over the soft limit, signals the flush
thread. That thread drains the buffer, releases its lock, takes `cache_mu_`, merges
the batch into the root's buffer and, if that is full, splits a root leaf or runs
`do_flush`: the buffer is partitioned over the children, every child that receives
entries is replaced by a new node with a new id and file, the parent is rewritten in
place, the manifest is saved, old files are deleted, and children that overflowed
are split or flushed in turn; splits propagate upward through `insert_child`.
`flush()` and the destructor drain and merge too and write the root and the
manifest. `get` looks in the write buffer, then down one path; `range_scan` looks in
the write buffer and the cached nodes.

What is hard: the gap between the two locks, which several threads can be in at
once; notifications sent without the mutex; exceptions that are swallowed half way through
an update, after which the tree is used on; a manifest, parent file and garbage
collection that a crash can separate; splits that change the tree under a loop that
walks it; ranges recomputed at every rewrite, on which lookups and flushes must
agree; several versions of a key spread over layers. The list with lines is
`hazards` in `PROJECT.json`.

What makes each part correct: the pure functions lose nothing, keep the newest
version and agree on routing; the tree stays a tree in which every entry lies on the
path of its key, leaves no stray file, survives crashes between its writes and, when a write fails, answers
rightly or not at all; a file reads back as the node last written to it; the
threads lose no write, keep the layers ordered by age and close with everything on
disk; a lookup gets the last write; every flush ends.

## Modules

| Module | Models | |
|---|---|---|
| `Entries` | types.h, flush.cpp, the pure parts of node.cpp and skiplist.cpp | operators |
| `SkipList` | skiplist.cpp: nodes, towers, pointers | extends `Entries` |
| `SortedBuffer` | abstract: a sorted sequence that grows and is emptied | implemented by `SkipList` |
| `WriteBatch` | a batch on its way through skip list, root buffer and local_flush | extends `SkipList`; run `batch` |
| `BloomFilter` | bloom.cpp with an arbitrary hash function | operators |
| `NodeFile` | node.cpp: the file of a node, written in steps and read back | extends `Entries`, `BloomFilter` |
| `MCNodeFile` | instance of `NodeFile` | run `node_file` |
| `Manifest` | manifest.cpp: the manifest and the lines of its file | operators |
| `GravTree` | tree.cpp under `cache_mu_`, exceptions, crashes and reopening | extends `Entries`, `Manifest` |
| `MCGravTree` | instances of `GravTree` | runs `tree_ops`, `tree_reopen` |
| `TreeFaults` | `GravTree` when writing a file fails | extends `GravTree`; runs `tree_deep`, `tree_flush_ends` |
| `TreeClaims` | what docs, comments and tests say of the tree and the code does not do | runs `claim_*` |
| `FlushThread` | tree.cpp's threads, locks, flags, condition variable, shutdown | |
| `VersionStore` | abstract: a growing set of versions, part of it durable | implemented by `FlushThread` |
| `MCFlushThread` | instances of `FlushThread` | runs `threads_*` |
| `ThreadClaims` | as `TreeClaims`, for the threads | runs `claim_*` |
| `EntriesProofs` | lemmas on sets of numbers and induction; theorems about `Entries` | extended by the next three |
| `BatchProofs` | theorems about `SkipList` and `WriteBatch` | |
| `NodeFileProofs` | theorems about `BloomFilter` and `NodeFile` | |
| `TreeProofs`, `ShapeProofs` | theorems about `TreeFaults` and `GravTree`: files, cache and scans; the shape of the tree, extending `TreeProofs` | |
| `OrderProofs`, `DiskProofs` | theorems about `TreeFaults` and `GravTree`, both extending `ShapeProofs`: order and lookups; the tree on disk | |
| `FlushThreadProofs` | theorems about `FlushThread` | |

`GravTree` and `FlushThread` divide tree.cpp between them. `GravTree` has all the
data and no concurrency: everything that runs under `cache_mu_` is one thread of
steps, which only an exception or a crash can interrupt. `FlushThread` has all the interleavings and
a tree of two layers, root and below, each a set of versions. Two more components are
taken as wholes by `GravTree` and have modules of their own that justify it: the write
buffer, a sorted sequence there and a skip list in `SkipList`, with a refinement between
them; and a node's file, which `GravTree` replaces in one step and `NodeFile` in several.

Definitions named `Bad...` are faulty variants of the definition after them. They
are used by no specification; replacing a definition by its variant must break the
property that guards it (`mutants` in `PROJECT.json`).

### `GravTree`: state and actions

Keys are positive integers in place of strings, 0 is the empty string; the value of
an entry is the number of the write that made it; sizes are in units of an ordinary
entry. `cache_` and `manifest_` are the members of those names, `files` and `saved`
the node files and the lines of the manifest file. Every behaviour begins with an empty
directory. `todo` is the call stack under `cache_mu_`,
as the sequence of calls still to run:

| Actions | Code |
|---|---|
| `insert`, `remove`, `Get` | the calls; `Get` matters for what it caches |
| `BackgroundFlush` ... `Done` | one cycle of flush_thread_fn |
| `DoFlush`, `CheckChild` | do_flush with local_flush; its last loop |
| `SplitLeaf`, `InsertChild`, `SplitParent` | split_leaf; insert_child into a parent with room and into a full one |
| `PersistNode`, `SaveManifest`, `CollectGarbage` | the disk writes whose order a crash can observe |
| `RequestFlush`, `Flush`, `Return` | flush() |
| `Close`, `Closed`, `Crash` | destructor, process death |
| `Open`, `EnsureRoot`, `Opened` | open on a directory with a tree and on an empty one |
| `DoFlushThrows`, `InsertChildThrows`, `Throw` | get_node throws, on a child, a parent or the root; the calls are unwound, what they did stays |
| `PersistFails`, `SaveFails`, `LocalFlushFails`, `RefreshFails`, `SplitLeafFails`, `SplitParentFails` (`TreeFaults`) | write_file or Manifest::save throws; one action for each place, with what was done before it |

An exception ends a background flush as flush_thread_fn's handler does (`Swallowed`) or
goes to the caller of flush(), out of open, or nowhere in the destructor (`Unwind`). What
it leaves is not repaired: nodes that are cached and invalid, files without a manifest
entry, a parent whose children are gone.

A new node's file is written by the step that creates it: it has a fresh id, so
nothing reads it before the manifest that names it is saved. The exception is an id
reused after a crash; the old file was left behind by the crash and no saved manifest
names it either. A file replacement and a manifest save are one step each, since
both go through a temporary file and a rename; gc deletes one file per step; a file system that reorders them
(the code does not call fsync) is not modelled.

### `SkipList`, `WriteBatch`: state and actions

`heap` maps addresses to nodes, 1 is the sentinel and 0 the null pointer. insert, find_key,
to_sorted_vector and clear are always called under `write_buf_mu_`, so each is one step;
the height of a new tower is any of 1..`kMaxHeight`. In `WriteBatch` batches are written and
drained into a node's buffer (`Write`, `DrainInto`), a child receives versions that may be
older or newer (`ChildHas`), and `local_flush` partitions the buffer over children with any
ordered ranges and merges it into the child.

### `BloomFilter`, `NodeFile`: state and actions

A file is a sequence of fields: header, filter, entries, sparse index, checksum; offsets
count fields. The checksum determines its contents, so a CRC collision is excluded.
`hash` gives every key a pair of words, chosen at the start and arbitrary; word size,
alignment and bits per byte are constants. `mem` is the node in the cache, `out` the node
write_file works on. `Create` and `FlushToDisk` prepare a node, `WriteTmp` writes any prefix
of the image (the stream is not tested after writing), `Rename` replaces the file,
`WriteThrows` and `Crash` cut in anywhere. Between writes the tree merges batches (`Push`),
hands the buffer down and sets a range (`HandDown`), copies nodes (`CopyNode`) and loads
them (`GetNode`).

### `FlushThread`: state and actions

Each critical section of `write_buf_mu_` or `cache_mu_`, each access to an atomic
flag, each unlocked read of the buffer's size, each notification is a step. `wait`
on the condition variable is a test under the mutex and then, in one step, release
and sleep; whoever is between the two holds the mutex, but setters and notifiers do
not take it. Wakeups may be spurious. `pc` and `call` say where a thread is;
`pending` is the batch it has drained and not merged; `written` and `seen` are
history. The unlocked size reads are data races in C++; they are modelled as reads
of the value at that moment.

## Runs

| Run | Checks |
|---|---|
| `batch` | 3 keys, towers of up to 3 levels, 4 versions, up to 3 children: `LevelsSorted`, `FindsNewest`, the refinement `ImplementsSorted`; `MergeKeepsNewest`, `PartitionKeepsAll`, `PartitionFollowsPath` |
| `node_file` | a node of 3 keys with one in two of them in its sparse index, every hash function onto two pairs of words: `ReadBack`, `HeaderFilterComplete`, `LookupComplete`, `RangeCovers`, `IndexPoints` |
| `tree_ops` | 3 keys, fanout 3, removes and flush(): `GetLatest`, `ScanFindsLive`, `Durable` |
| `tree_deep` | 3 keys, fanout 2, 6 writes, one write to disk that fails: `TreeIntact`, `EntriesOnPath`, `NoGarbage`, `InsertIntoEmptied`, `LeafFilesImmutable` while internal nodes split and the root grows to level 2 and more; `AnswersOrThrows`, `SavedFilesExist` and `SavedRootValid` also after exceptions |
| `tree_reopen` | two sessions, crashes anywhere but right before a manifest save, and closes: `TypeOK`, `Recoverable`, `TreeIntact`, `NoGarbage`, and `GetLatest` in the session after a close |
| `tree_flush_ends` | two sessions, a crash right before a manifest save, a failing write: `FlushTerminates` under fairness |
| `threads_flushing` | two clients, both calling flush(): `TypeOK`, `NoLostWrites`, `WriteBufNewest`, `BatchAnnounced`, `ClosedDurable`, `FlushReaches`, and the refinement `ImplementsStore` |
| `threads_writing` | nobody calls flush(): `RootNewest`, `StaleOnlyInTransit`, and `CycleEnds` under fairness |

What they show: while nothing has thrown, lookups and scans find the last write of every
key that no split has cut apart, lookups also after a close and a reopening, and the tree,
the manifest and the files agree between flushes. After an exception a lookup still gives
the last write or throws, but for the keys an interrupted refresh loop cut off (below);
the directory can be opened at any time. A node's file is always the last node written
whole or unreadable. The skip list is a sorted buffer. A directory is whole at every point but
right before a save of the manifest. While no access to a file fails, no
interleaving of the threads loses a write. A caller of flush() gets durability for all
but the batches that others hold between the locks, a reader the newest version but for
the same batches, the destructor gets it for everything. (`FlushThread` has no exceptions:
a batch whose holder meets one is dropped, by the flush thread, by flush() and by the
destructor, tree.cpp:47; that is in `GravTree` and `TreeFaults`.)

Bounds. A threshold of two entries with entries of size one makes a flush out of two
writes, so 4 to 6 writes reach leaf splits, parent splits, root growth and a second
flush into the new structure; fanout 2 is the smallest that splits parents, 3 the
smallest in which a parent has room for a split. Two sessions reach every effect of
one crash or close. One failing write meets every place that writes, since the model
tries them all; `AnswersOrThrows` was also checked, outside the project's runs, with two
failures and two sessions (2 keys, 6 writes) and by simulation with 4 keys and 8 writes.
A path_to that meets an unreadable node (second case of `InsertChildThrows`) needs a tree
of fanout 3 and level 2 and is beyond these bounds. Towers of three levels give a
search an express lane to leave and another to pass; a Bloom filter of a few bytes of a few bits makes positions wrap
around at words, filter and bytes. Three keys and a `SPARSE_STEP` of 2 give a sparse
index two entries and leave one without, and the range that the tree sets (`Ranges`) is a
single key, so entries can lie below, in and above it; the theorems have no such bounds.
In the thread runs one key is the worst case (all versions
compete), three writes give the flush thread, a flush() and the write buffer one
each, and the limits are low enough that the soft and the hard limit are met.

Fairness. `tree_flush_ends` assumes that the thread holding `cache_mu_` keeps
running. `threads_writing` assumes weak fairness of each thread's own steps; no
client has to call anything, no wakeup has to be spurious, the destructor need not
run. Deadlock is checked in all runs but `batch`, which ends with the flush of
its batch.

### Where the code disagrees with what is said of it

Each `claim_*` run checks one formula and finds it violated; `findings` quotes the
line.

- A split can put the newest version of a key where lookups do not go (`claim_get`);
  `GetLatest` and `EntriesOnPath` therefore except keys whose versions straddle two
  leaves.
- Splitting two children of a full parent throws half way and leaves a dangling
  pointer (`claim_children`); the properties of `GravTree` speak of states before that.
- A batch that flush() merges late hides newer versions for good (`claim_settled`);
  `RootNewest` and `StaleOnlyInTransit` are about a tree on which nobody calls flush().
- The destructor can wait for ever, since the flush thread can miss its notification
  (`claim_close`).

The models contain more behaviour that a reader of the docs would not expect; it bounds
what the passing properties say and has no run of its own:

- a parent's file is replaced in place before the manifest that names its new children is
  saved; a crash in between leaves a directory whose tree lacks them, against "Tree
  structure survives via atomic manifest" (README.md:103). `Recoverable` and `Durable`
  leave out the step before every save of the manifest (`Saving`), which has this moment in
  it: the saves of do_flush, split_leaf, flush(), the destructor and of a new root, also
  those before which nothing is wrong;
- after such a crash the file of an internal node names ids at or above the saved `NEXT_ID`,
  which are given out again (manifest.cpp:52). A later local_flush can register one
  (flush.cpp:111) before the refresh loop reads the child of that name (tree.cpp:361), and a
  node then has a foreign node, or itself, for a child. `GravTree` takes such a child for
  unreadable in the flush that gives its id out, and no run reaches one;
- do_flush points the parent to new internal children before their ranges are widened over
  their own children. An exception in the loop that does it (an I/O error, or the dangling
  child of `claim_children`) leaves a child whose file has the range of its few entries
  only; lookups of keys below that range go to its left neighbour and find nothing, with
  no error. `AnswersOrThrows` excepts these keys (`Narrowed`);
- when a write fails in local_flush, the children before it are invalid in the manifest and
  still in use; the next gc deletes their files. When the creation of a new root fails, the
  old root is invalid and gone from the cache, and every later call throws until the tree
  is opened again; batches drained meanwhile are dropped;
- writes are not tested for success: a short write of a node file destroys the node
  (`ReadBack` shows that the checksum then refuses it), a short write of the manifest is not
  noticed at all and is not modelled;

- range_scan returns removed keys (the tombstone is skipped and the older version
  behind it is not), and after a reopening misses nodes that were not loaded; so
  `ScanFindsLive` is about live keys in the session that built the tree;
- sequence numbers restart at every opening, so a new write can lose against an older
  one; `GetLatest` excepts a write whose number is not above those its key had before;
- the files of the root and of internal nodes are rewritten in place;
  `LeafFilesImmutable` is what remains of "written once";
- a leaf is split once per flush, whatever it received, and can stay too large;
- a flush request made during a cycle is wiped out at its end; one made between the
  flush thread's test and its sleep is missed, as can be the wakeup of a waiting writer;
- a get between drain and merge misses completed writes, and flush() can return while
  the flush thread holds a batch; `StaleOnlyInTransit` and `FlushReaches` say that
  nothing else goes wrong there;
- the write buffer can grow past the hard limit;
- one entry as large as `BUFFER_THRESHOLD` (4 MB, types.h:16) fills a leaf alone. split_leaf
  (tree.cpp:406, `mid` is 0) makes an empty left leaf of it, whose min_key is the empty string
  wherever the leaf stands among its siblings; find_path then sends keys between the left
  sibling's and the large one's to the empty leaf. With `Sizes = {1, 2}`, a threshold of 2,
  3 keys and fanout 3 TLC finds a lookup that misses a write (`GetLatest`). The runs have
  small entries only, and the theorems about order and lookups say so (`SmallEntries`).

Smaller observations, outside the models: `GravTreeOptions::fanout`, `max_height` and
`bloom_fpr`
are never read, and `buffer_full` uses the constant `BUFFER_THRESHOLD` whatever
`buffer_threshold` is set to; a manifest path containing a space is cut at it by
`load`; the offsets of a sparse index built in memory stay 0, against the comment at
node.cpp:206, and no lookup uses the index; might_contain asks the Bloom filter only when
the buffer is empty, where a lookup finds nothing anyway;
`stats()` always reports height 1; `maybe_flush` is never called.

## Proofs

Every theorem is about the specification the runs check, with the constants left
open: any number of clients, keys, writes, entries, children, sessions and faults, any
fanout, threshold, tower height, hash function and word size. The assumptions on the
constants are named in the modules that declare them and say no more than the
program's types do: `ThreadAssumption` (clients, flush thread and closing thread are
different threads), `ThresholdAssumption`, `TreeAssumption`, `SkipListAssumption`,
`FaultAssumption`, `KidsAssumption`, `BloomAssumption` and `NodeAssumption` (keys are positive numbers, limits
and sizes are numbers, those that divide or count something are not 0).

| Theorem | States |
|---|---|
| `FlushThreadProofs!TypeCorrect`, `NothingLost`, `BufferNewest`, `AlwaysAnnounced`, `DurableOnClose` | `TypeOK`, `NoLostWrites`, `WriteBufNewest`, `BatchAnnounced`, `ClosedDurable` |
| `FlushThreadProofs!FlushDurable`, `Refinement` | `FlushReaches`, `ImplementsStore` |
| `FlushThreadProofs!RootIsNewest`, `StaleWindow` | `RootNewest`, `StaleOnlyInTransit`, if nobody calls flush() |
| `EntriesProofs!RoutingAgrees`, `SortBufferKeepsNewest`, `NodeGetNewest`, `MergeKeepsNewestEntries`, `PartitionComplete` | what the operators of `Entries` compute |
| `BatchProofs!LevelsAlwaysSorted`, `FindKeyNewest`, `ListImplementsSequence` | `LevelsSorted`, `FindsNewest`, `ImplementsSorted` |
| `BatchProofs!MergeAlwaysKeepsNewest`, `PartitionAlwaysKeepsAll`, `PartitionAlwaysFollowsPath` | `MergeKeepsNewest`, `PartitionKeepsAll`, `PartitionFollowsPath` |
| `NodeFileProofs!NoFalseNegatives` | a key that was added is never denied by the filter |
| `NodeFileProofs!FileReadsBack`, `StoredFilterComplete`, `LookupsComplete`, `StoredRangeCovers`, `StoredIndexPoints` | `ReadBack`, `HeaderFilterComplete`, `LookupComplete`, `RangeCovers`, `IndexPoints` |
| `TreeProofs!SavedFilesAlwaysExist` | `SavedFilesExist` |
| `TreeProofs!ScanAlwaysFindsLive` | `ScanFindsLive`, in the first session |
| `ShapeProofs!NothingLeftBehind`, `ParentsAreEmpty` | `NoGarbage`, `InsertIntoEmptied`, in the first session until something throws |
| `OrderProofs!TreeAlwaysIntact`, `RoutingFindsPlacement`, `LookupsFindNewest` | `TreeIntact`, `EntriesOnPath`, `GetLatest`, likewise, if no single entry fills a buffer |
| `DiskProofs!AlwaysRecoverable`, `SavedRootListed`, `FlushIsDurable` | `Recoverable`, `SavedRootValid`, `Durable`, in the first session until something throws |

### The threads (`FlushThreadProofs`)

None of the safety invariants is inductive alone. The inductive invariant `IInv` adds

- `CallOK`: a thread at a label of a call is inside that call (or WaitTest could send an
  insert into flush());
- `PendingOK`: only a thread between its drain and its merge holds a batch, so a drain
  overwrites nothing;
- `SeqBound`: all sequence numbers in use are below `seq_`, which makes an insert newest;
- `DiskOK`: what is below the root is on disk and nothing foreign is;
- `CloseOK`: once the destructor has begun all clients are idle, once it has joined the
  flush thread has ended, and once it has drained the write buffer is empty;
- `AnnounceOK`: the flag is set while the flush thread works.

The step proof goes through three lemmas, one per group: `TypeStep` and `ProtocolStep`
have a case for every action; `StepKinds` reduces a step to one of five effects on the
data (none, an insert, a drain by a thread that holds nothing, a merge, the destructor's
last step), for which `DataStep` and `Refinement` need one lemma each.

`FlushDurable` needs `SeenOK` beside `IInv`: what a call saw written stays written, and
once the caller has drained, none of it is left in the write buffer, so it is in the
caller's batch, in another's, or in the tree. `RootIsNewest` and `StaleWindow` are about
a tree on which nobody calls flush(): then at most one thread holds a batch
(`SoleHolder`), and transit, root and below are ordered by age (`RootInv`). With callers
of flush() both are false (`claim_settled`).

### Sorting, merging, routing (`EntriesProofs`)

The provers cannot instantiate an induction schema with a predicate. Two lemmas of
this module replace it: `SetInduction` (a set that has 0 and is closed under successor
has every number) and `LeastNatural` (a set of numbers that is not empty has a least
one). A recursive function is then treated in two parts: that it exists, by naming one
that satisfies the equation, and what its value is, by induction on the set of arguments
for which the claim holds. That gives, for buffers of any length, in any order and with
any number of versions: sort_buffer leaves exactly one newest entry per key, in key
order; the merge of two buffers does the same for both together; `SSTNode::get` finds a
newest version; partition_entries puts each entry into exactly one bucket, its own, and
with ordered children find_path goes to that bucket.

### The skip list and a batch (`BatchProofs`)

`Sorts(s, S)` says that `s` is the sorted list of the set `S` of versions; there is
exactly one. The inductive invariant `BatchInv` is

- `ShapeInv`: the heap has the sentinel and one node per entry, with towers up to
  `cur_height_`;
- `ContentsInv`: the towers carry exactly the entries inserted since the last clear, each
  once and with sequence numbers below the next;
- `LinksInv`, the core: on each level every pointer of a tower that reaches it leads to
  the next tower of that level in entry order, or is null if there is none;
- `FlowInv`: the parent's buffer is sorted, its entries were written and are none of
  those in the list, and the results of local_flush are those of its inputs.

From `LinksInv` follow that a search, from the top level down, stops right before the
place of its key on each level it leaves (`find_prev`), which makes insert keep
`LinksInv` and find_key exact; and that the walk along level 0 is the list `Sorts` names,
so that an insert is an insertion into the abstract sequence and a clear empties it.

### The node file (`NodeFileProofs`)

`NoFalseNegatives` follows the positions of a key through creation, adding and packing
into bytes, with all wrapping at 2^w; the hash function is arbitrary. The invariant
`NodeInv` has three parts: `MemInv` (the cached node is loaded and its buffer
sorted), `OutInv` (range, filter and index of the node being written are those of its
entries, and the temporary file is a prefix of its image) and `FileInv` (the file is the image of the last node that was
written whole, or one that the checksum refuses). The prefix matters: nothing tests the
stream after writing, and a rename may publish a file cut anywhere.

### Files and entries (`TreeProofs`)

`SavedFilesAlwaysExist` is about `FaultSpec`, with any number of failing writes,
exceptions, crashes and sessions. The invariant has two parts: `QueueInv`, in every
stack of calls a gc comes directly after a save, so no step can come between them but a
failure, which drops both; `FilesInv`, every node that is valid in memory or on disk has
its file, and when a gc is about to delete files, the manifest on disk names none of
them. It is the order
of these writes that makes a directory safe to open; the structure of the tree does not
enter.

`ScanAlwaysFindsLive` follows the newest version of each key. Its invariant `ScanInv`
holds in the first session until something throws:

- `WritesInv`: the entries in the write buffer and the last writes are numbered below
  `seq_`;
- `CacheInv`: the cache holds every valid node, under an id below next_id_, and ids given
  out are new, so nothing is overwritten;
- `NewestKept`: for every key written, its newest version is in the write buffer or in
  the buffer of a cached node (except right before an exception drops a batch);
- `CallsInv`: the calls on the stack find the nodes they work on.

Nothing about the shape of the tree is needed either: a merge, a flush and a split all
move entries between cached buffers, and the theorems of `EntriesProofs` say that what
they drop is older than what they keep. The theorem ends with the first exception because
`Idle` does: `claim_children` and the failing writes are known to break what comes after.

### The shape of the tree (`ShapeProofs`)

The invariant must hold half way through a cascade of splits, when a parent still names
a node that is gone. `Tree` is the cache with the pending insert_child carried out: the
parent names the two halves. `Shape(c, root)` says of a map `c` of nodes that every node but
the root is the child of exactly one, one level up, the root of none, and leaves are the
nodes of level 0. `TreeInv` is `Shape(Tree, ...)` with

- `FanoutInv`: no node has more than `MAX_FANOUT` children, also in a split;
- `StackOK`: the pending calls are about nodes in the right relation to each other;
- `ValidInv`: the nodes valid in the manifest are those of the tree, up to the one that a
  pending step replaces.

It holds until a step is about to throw (`Doomed`): then a parent has been split
under calls that still name it. `Reach` is a fixed point of a recursive function;
that it is the whole of `Tree` follows by induction on the level of a node.

`ParentsAreEmpty` needs one more invariant, `EmptyInv`. Not all internal buffers are
empty during a flush, so it speaks of a set of emptied nodes, closed upward: whatever node
the flush works on, the nodes above it were emptied before and receive nothing, and a
node that is full is not among them.

### Order and lookups (`OrderProofs`)

`Sorted(c, root)`: the range of every node but the root spans its entries and its children,
and of two neighbours the left one's range ends before the right one's begins, or at the
same key if that key was cut apart (`Cut`: two leaves have versions of it). It is here that
`SmallEntries` is needed: without it a split makes a leaf with no range. A flush keeps the
order since partition_entries sends an entry to the last child whose min_key is not
above its key, so a child's range grows only up to its neighbour's; a split cuts a sorted
buffer or a sorted list of children; and what was cut apart stays so, which makes the
exception of `Cut` stable (`CutKept`). `RoutingFindsPlacement` is then an
induction along find_path: a node whose range has the key is on the path.

`AgeOrder` is the order of versions: of a key that was not cut apart, versions in nodes of
a higher level are newer, those in the write buffer newest; all buffers are sorted. Every
step moves entries down one level, from a buffer that is emptied as a whole, and the merge
keeps the newest. With the path, this gives `LookupsFindNewest`: the first hit on the way
from the write buffer to the leaf is the newest version in memory, and `NewestKept`
says that this is the last write.

### The tree on disk (`DiskProofs`)

`SavedTree` maps the nodes that the manifest file names to the contents of their files.
`DiskInv`, beside the invariants of `ShapeProofs`, is

- `SavedInv`: the manifest file names a valid root and ids that were given out, and
  `Shape(SavedTree, ...)` holds unless a save comes next;
- `SyncInv`: every cached node's file is `Alike` the node, that is, it names the same
  children and neither has an entry newer than the other's. The exceptions are a node about
  to be written and the buffer of the root, which lags behind from the arrival of a batch
  to the end of the cycle;
- `NextIsSave`: a rewrite in place (`persist`, `insert_child`) is followed by a save, with
  nothing between; `CleanInv`: with no save pending the manifest file names exactly the
  nodes of the one in memory;
- `DatedInv`: files hold entries that were written;
- `FloorInv`, `ReturnInv`: what a flush() covered that has returned, or is about to, is in
  memory, and in the tree on disk unless a save comes next.

Between a rewrite in place and the save, the manifest file is that of the tree before and
the parent's file that of the tree after; this is why the properties leave out the step
before a save (`Saving`, any save). Every other write to disk is to a file that the manifest on disk does not name,
or is the save, when `SyncInv` makes the tree on disk as good as the one in memory and
`Shape` carries over. That the nodes found from
the saved root are all of `SavedTree` is the induction on levels of `ShapeProofs` again.

`SavedRootListed` needs only the first part of `SavedInv`, but that needs `Shape` in memory:
a root is saved as valid since the tree always has one.

### Only model-checked

- Liveness under fairness (`CycleEnds`, `FlushTerminates`): beyond the prover.
- What holds after an exception or in a directory opened again: `AnswersOrThrows`, and
  the properties of the last three sections in later sessions (`tree_reopen`,
  `tree_deep`). The theorems are about the session that built the tree, until
  something throws.
- `GravTree!TypeOK`, `LeafFilesImmutable`: in reach, not done.

## Not modelled

- Bytes: lengths and encodings of the fields of a file, MurmurHash3 and CRC-64 themselves,
  the floating-point sizing of the Bloom filter (its result is a constant).
- A manifest cut short by an unnoticed short write.
- Power loss (no fsync in the code) as opposed to process death; memory exhaustion.
- Failing reads of files that are there and whole; files that gc cannot delete and forgets
  (manifest.cpp:112, only garbage).
- How far the refresh loop of do_flush had read when a child turned out unreadable: both
  ends of each child count as cached. No property looks at what is cached of a broken tree.
- Torn values of the counters that are read without a lock.
- The options and counters named above; the benchmarks.

## Plan

Done: all components that carry logic, their runs, and the proofs above. What could follow:

1. `LeafFilesImmutable` and `GravTree!TypeOK`, for any number of sessions.
2. A weaker shape that survives exceptions, toward `AnswersOrThrows`.
