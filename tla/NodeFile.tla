------------------------------ MODULE NodeFile ------------------------------
(***************************************************************************)
(* A node and its file (node.cpp, node.h), written through a temporary     *)
(* file and a rename: what the file holds and what reading it gives, when  *)
(* the process can be killed at any point and when opening, writing and    *)
(* renaming can fail.  The code tests the stream after opening it and      *)
(* never after writing, so a write can be short and go unnoticed.          *)
(*                                                                         *)
(* A file is a sequence of fields in place of bytes.  A CRC is taken to    *)
(* determine what it was computed from.                                    *)
(***************************************************************************)
EXTENDS Entries, BloomFilter

CONSTANTS
  Keys,         \* keys of entries, positive integers
  HashPairs,    \* the pairs of words keys may hash to
  Ranges,       \* bound: first and last key of the children do_flush leaves a node with
  SPARSE_STEP,  \* every so many entries one is put into the sparse index
  MaxSeq        \* bound: entries put into the node in a behaviour

ASSUME NodeAssumption ==
  /\ Keys \subseteq Nat \ {0} /\ HashPairs \subseteq Nat \X Nat
  /\ Ranges \subseteq {r \in Keys \X Keys : r[1] <= r[2]}
  /\ SPARSE_STEP \in Nat \ {0} /\ MaxSeq \in Nat

VARIABLES
  mem,    \* the node in the cache, as a set of at most one
  out,    \* the node write_file is called on, as a set of at most one
  step,   \* where write_file is: "none", "open" or "rename"
  tmp,    \* what the call in progress has written to the temporary file; one left
          \* behind by an earlier call is truncated when it is next opened
  file,   \* the node's file, <<>> when there is none
  kept,   \* history: the node last written whole, {} if none or the last was cut
  seq_    \* next sequence number

vars == <<hash, mem, out, step, tmp, file, kept, seq_>>

-----------------------------------------------------------------------------
(* In memory *)

\* build_bloom.
build_bloom(buf) == add_all(NewFilter(Max({Len(buf), 1})), {e.key : e \in ToSet(buf)})

\* Mutant: one entry too many is passed over between two samples.
BadSampled(buf) == [j \in 1..(Len(buf) + SPARSE_STEP) \div (SPARSE_STEP + 1) |->
                      (j - 1) * (SPARSE_STEP + 1) + 1]

\* The entries that go into the sparse index: 0, SPARSE_STEP, 2 * SPARSE_STEP...
Sampled(buf) == [j \in 1..(Len(buf) + SPARSE_STEP - 1) \div SPARSE_STEP |->
                   (j - 1) * SPARSE_STEP + 1]

\* build_sparse_index: the offsets are not known yet.
build_sparse_index(buf) ==
  [j \in DOMAIN Sampled(buf) |-> [key |-> buf[Sampled(buf)[j]].key, file_offset |-> 0]]

\* Mutant: a range that is set is kept.
BadWiden(n, buf) ==
  [n EXCEPT !.min = IF @ = NoKey THEN Head(buf).key ELSE @,
            !.max = IF @ = NoKey THEN Last(buf).key ELSE @]

\* The range widened, never narrowed, by the keys of a buffer.
Widen(n, buf) ==
  [n EXCEPT !.min = IF @ = NoKey \/ Head(buf).key < @ THEN Head(buf).key ELSE @,
            !.max = IF @ = NoKey \/ Last(buf).key > @ THEN Last(buf).key ELSE @]

\* create and flush_to_disk before they call write_file.
Prepared(n) ==
  LET buf == sort_buffer(n.buf)
      wide == IF buf = <<>> THEN n ELSE Widen(n, buf)
  IN  [wide EXCEPT !.buf = buf, !.bloom = {build_bloom(buf)},
                   !.index = build_sparse_index(buf)]

\* The copy constructor clones the filter through its serialised form.
Copy(n) == [n EXCEPT !.bloom = UNION {deserialize(serialize(f)) : f \in @}]

\* Mutant: the filter is asked even when the buffer is newer than it.
BadMightContain(n, k) == \A f \in n.bloom : filter_might_contain(f, k)

\* SSTNode::might_contain.
might_contain(n, k) == n.buf # <<>> \/ \A f \in n.bloom : filter_might_contain(f, k)

\* What GravTree::get does with a node on its path.
Lookup(n, k) == IF might_contain(n, k) THEN node_get(n.buf, k) ELSE {}

-----------------------------------------------------------------------------
(* The file *)

Field(tag, v) == [tag |-> tag, v |-> v]
Fields(tag, s) == [i \in DOMAIN s |-> Field(tag, s[i])]
crc64(fields) == Field("crc", fields)

\* The offset of the i-th entry, given the number of fields before the entries.
Offset(before, i) == before + i - 1

\* What write_file puts into raw_buf.  top stands for magic, version, id, level
\* and children.
Image(n) ==
  LET bd     == UNION {{serialize(f)} : f \in n.bloom}
      filter == IF bd = {} THEN <<>> ELSE CHOOSE d \in bd : TRUE
      head   == <<Field("top", n.top), Field("count", Len(n.buf)), Field("min", n.min),
                  Field("max", n.max), Field("bloom_len", Len(filter))>>
                \o Fields("bloom", filter)
      sparse == [j \in DOMAIN Sampled(n.buf) |->
                   [key |-> n.buf[Sampled(n.buf)[j]].key,
                    file_offset |-> Offset(Len(head), Sampled(n.buf)[j])]]
      body   == head \o Fields("entry", n.buf)
                \o <<Field("sparse_count", Len(sparse))>> \o Fields("sparse", sparse)
  IN  Append(body, crc64(body))

\* Mutant: the checksum is not compared.
BadIntact(f) == f # <<>>

\* read_file's tests of size and checksum.
Intact(f) == f # <<>> /\ Last(f) = crc64(Front(f))

\* read_file, as a set: no node when it throws, deserialize included.  r stands for
\* BinaryReader, whose check throws when a field lies behind the end.
read_file(f, load_entries) ==
  LET r(i) == f[i].v
      size == Len(f) - 1
      From(i, n) == [j \in 1..n |-> r(i + j - 1)]
      entries == 6 + r(5)
      sparse == entries + r(2)
      filter == IF r(5) = 0 THEN {} ELSE deserialize(From(6, r(5)))
      header == [top |-> r(1), min |-> r(3), max |-> r(4), buf |-> <<>>, index |-> <<>>,
                 bloom |-> filter, loaded |-> FALSE]
  IN  IF ~Intact(f) \/ size < 5 \/ size < 5 + r(5) THEN {}
      ELSE IF r(5) # 0 /\ filter = {} THEN {}
      ELSE IF ~load_entries THEN {header}
      ELSE IF size < sparse \/ size < sparse + r(sparse) THEN {}
      ELSE {[header EXCEPT !.buf = From(entries, r(2)),
                           !.index = From(sparse + 1, r(sparse)), !.loaded = TRUE]}

-----------------------------------------------------------------------------
(* Actions *)

Init ==
  /\ hash \in [Keys -> HashPairs]
  /\ mem = {} /\ out = {} /\ step = "none" /\ tmp = <<>> /\ file = <<>> /\ kept = {}
  /\ seq_ = 1

NewEntry(k) == Entry(k, seq_, seq_, FALSE, 1)

\* SSTNode::create with one entry or none, under an id that may have been used
\* before a crash: write_file has still to run.
Create(entries) ==
  /\ mem = {} /\ step = "none" /\ seq_ + Len(entries) <= MaxSeq + 1
  /\ out' = {Prepared([top |-> 0, min |-> NoKey, max |-> NoKey, buf |-> entries,
                       bloom |-> {}, index |-> <<>>, loaded |-> TRUE])}
  /\ step' = "open" /\ seq_' = seq_ + Len(entries)
  /\ UNCHANGED <<hash, mem, tmp, file, kept>>

\* The tree changes the node in memory.
Change(n) ==
  /\ step = "none" /\ mem' = {n}
  /\ UNCHANGED <<hash, out, step, tmp, file, kept>>

\* A batch is merged into the buffer, newer than the filter.
Push(k) ==
  /\ seq_ <= MaxSeq /\ seq_' = seq_ + 1
  /\ \E n \in mem : Change([n EXCEPT !.buf = StableSort(Append(@, NewEntry(k)))])

\* do_flush hands the buffer down and takes the new children and their range.
HandDown(lo, hi) ==
  /\ \E n \in mem : Change([n EXCEPT !.top = 1 - @, !.buf = <<>>, !.min = lo, !.max = hi])
  /\ UNCHANGED seq_

\* do_flush works on copies of the children.
CopyNode == (\E n \in mem : Change(Copy(n))) /\ UNCHANGED seq_

\* flush_to_disk up to write_file.
FlushToDisk ==
  /\ step = "none" /\ mem # {}
  /\ mem' = {Prepared(n) : n \in mem} /\ out' = mem' /\ step' = "open"
  /\ UNCHANGED <<hash, tmp, file, kept, seq_>>

\* write_file opens the temporary file and writes all of it or, unnoticed, less.
WriteTmp ==
  /\ step = "open" /\ step' = "rename"
  /\ \E n \in out : \E len \in 0..Len(Image(n)) : tmp' = SubSeq(Image(n), 1, len)
  /\ UNCHANGED <<hash, mem, out, file, kept, seq_>>

Rename ==
  /\ step = "rename" /\ step' = "none"
  /\ file' = tmp /\ tmp' = <<>>
  /\ mem' = out /\ out' = {}
  /\ kept' = {n \in out : tmp = Image(n)}
  /\ UNCHANGED <<hash, seq_>>

\* Opening the temporary file or renaming it throws.
WriteThrows ==
  /\ step # "none" /\ step' = "none" /\ out' = {} /\ tmp' = <<>>
  /\ UNCHANGED <<hash, mem, file, kept, seq_>>

\* get_node: load_header and load_entries, which reads the file again.
GetNode ==
  /\ mem = {} /\ step = "none"
  /\ mem' = UNION {{[n EXCEPT !.buf = m.buf, !.index = m.index, !.loaded = TRUE] :
                       n \in read_file(file, FALSE)} : m \in read_file(file, TRUE)}
  /\ UNCHANGED <<hash, out, step, tmp, file, kept, seq_>>

Crash ==
  /\ mem' = {} /\ out' = {} /\ step' = "none" /\ tmp' = <<>>
  /\ UNCHANGED <<hash, file, kept, seq_>>

Next ==
  \/ \E k \in Keys : Push(k) \/ Create(<<NewEntry(k)>>)
  \/ \E r \in Ranges : HandDown(r[1], r[2])
  \/ Create(<<>>) \/ CopyNode \/ FlushToDisk \/ WriteTmp \/ Rename \/ WriteThrows
  \/ GetNode \/ Crash

Spec == Init /\ [][Next]_vars

-----------------------------------------------------------------------------
(* Properties *)

\* Up to the sparse index, whose offsets are only known to the file.
Plain(n) == [n EXCEPT !.index = <<>>]

\* A file reads back as the node that was last written to it whole, by header and
\* in full, whatever crashes, failures and half-written temporary files came
\* since; a file that was renamed after a short write is never read as a node
\* (write_file's rename, read_file's checksum).
ReadBack ==
  /\ {Plain(n) : n \in read_file(file, TRUE)} = {Plain(n) : n \in kept}
  /\ read_file(file, FALSE) =
       {[n EXCEPT !.buf = <<>>, !.index = <<>>, !.loaded = FALSE] : n \in kept}

\* No false negative (bloom.h:14) of a filter that came back from a file: before
\* its entries are loaded, a node is never said to lack a key it holds.
HeaderFilterComplete ==
  \A n \in read_file(file, FALSE), m \in read_file(file, TRUE) :
    \A e \in ToSet(m.buf) : might_contain(n, e.key)

\* A lookup in a node finds the newest entry of the key in its buffer, although
\* the filter is older than the buffer (node.h:107) and may be a clone of a clone.
LookupComplete ==
  \A n \in mem, k \in Keys : Lookup(n, k) =
    {e \in ToSet(n.buf) : e.key = k /\ \A f \in ToSet(n.buf) : f.key = k => f.seq <= e.seq}

\* The range stored with a node covers its entries, also when the tree had set a
\* range of the children that did not (flush_to_disk, node.cpp:144).
RangeCovers ==
  \A n \in read_file(file, TRUE) : \A e \in ToSet(n.buf) : n.min <= e.key /\ e.key <= n.max

\* The sparse index of a node read from a file points at entries of its keys, one
\* offset is SPARSE_STEP entries behind the one before it, and every entry lies
\* fewer than SPARSE_STEP entries behind one that is pointed at: a reader that
\* starts at an offset reads SPARSE_STEP entries at most (write_file).
IndexPoints ==
  \A n \in read_file(file, TRUE) :
    /\ \A i \in DOMAIN n.index : LET at == file[n.index[i].file_offset + 1]
                                 IN  at.tag = "entry" /\ at.v.key = n.index[i].key
    /\ \A i, j \in DOMAIN n.index :
         j = i + 1 => n.index[j].file_offset - n.index[i].file_offset = SPARSE_STEP
    /\ \A i \in DOMAIN n.buf : \E j \in DOMAIN n.index, d \in 1..SPARSE_STEP :
         LET p == n.index[j].file_offset + d
         IN  p \in DOMAIN file /\ file[p] = Field("entry", n.buf[i])
=============================================================================
