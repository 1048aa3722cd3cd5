------------------------- MODULE FlushThreadProofs -------------------------
(***************************************************************************)
(* Proofs about FlushThread, for any number of clients, keys and writes.   *)
(***************************************************************************)
EXTENDS FlushThread, WellFoundedInduction, TLAPS

InsertCalls == [op : {"insert"}, key : Keys]
FlushCall == [op |-> "flush"]

\* A client is inside the call its label belongs to.
CallOK ==
  \A c \in Clients :
    /\ pc[c] \in {"insert", "soft"} => call[c] \in InsertCalls
    /\ pc[c] \in {"w_check", "w_held", "w_waiting", "signal", "notify"}
         => call[c] \in InsertCalls \cup {FlushCall}

\* Only a thread between a drain and a merge holds a batch.
PendingOK ==
  \A t \in Threads : pending[t] # {} => pc[t] \in {"merge", "ft_merge", "cl_merge"}

\* Sequence numbers in use are below the next one.
SeqBound == \A e \in Held : e.seq < seq_

\* What is below the root is on disk, and the disk holds nothing foreign.
DiskOK == below \subseteq disk /\ disk \subseteq Held

\* The destructor runs alone, after the flush thread once it has joined it, and
\* leaves the write buffer empty.
CloseOK ==
  /\ pc[CL] # "cl_idle" => \A c \in Clients : pc[c] = "idle"
  /\ pc[CL] \in {"cl_drain", "cl_merge", "closed"} => pc[FT] = "exit"
  /\ pc[CL] \in {"cl_merge", "closed"} => write_buf = {}

\* flush_in_progress_ is set while the flush thread works.
AnnounceOK ==
  pc[FT] \in {"ft_drain", "ft_merge", "ft_clear", "ft_done"} => flush_in_progress_

IInv ==
  /\ TypeOK /\ CallOK /\ PendingOK /\ SeqBound /\ WriteBufNewest /\ NoLostWrites
  /\ DiskOK /\ CloseOK /\ AnnounceOK /\ ClosedDurable

-----------------------------------------------------------------------------
(* Types *)

ControlInv == TypeOK /\ CallOK

USE DEF Threads, Versions, Calls, InsertCalls, FlushCall, ClientLabels, FtLabels, ClLabels

\* Init satisfies the types.
LEMMA TypeInit == Init => ControlInv
<1> SUFFICES ASSUME Init PROVE ControlInv
  OBVIOUS
<1>1. /\ \A c \in Clients : pc[c] = "idle"
      /\ pc[FT] = "ft_check" /\ pc[CL] = "cl_idle"
      /\ pc \in [Threads -> ClientLabels \cup FtLabels \cup ClLabels]
  BY ThreadAssumption DEF Init
<1>2. call \in [Clients -> Calls] /\ seen \in [Clients -> SUBSET Versions]
  BY DEF Init
<1>3. pending \in [Threads -> SUBSET Versions]
  BY DEF Init
<1>4. /\ write_buf = {} /\ root = {} /\ below = {} /\ disk = {} /\ written = {}
      /\ seq_ \in Nat \ {0}
  BY DEF Init
<1>5. flush_requested_ \in BOOLEAN /\ flush_in_progress_ \in BOOLEAN /\ stop_ \in BOOLEAN
  BY Zenon DEF Init
<1>6. CallOK
  BY <1>1 DEF CallOK
<1>7. /\ \A c \in Clients : pc[c] \in ClientLabels
      /\ pc[FT] \in FtLabels /\ pc[CL] \in ClLabels
  BY <1>1
<1> QED
  BY <1>1, <1>2, <1>3, <1>4, <1>5, <1>6, <1>7, Zenon DEF ControlInv, TypeOK

\* A step that leaves the data alone and moves threads between labels of their
\* own, as notify_one, notify_all and a spurious wakeup do.
LEMMA WakeTypes ==
  ASSUME ControlInv, NEW w \in Waiting
  PROVE  /\ w \in Threads
         /\ w \in Clients => pc[w] = "w_waiting" /\ Recheck(pc[w]) = "w_check"
         /\ w = FT => pc[w] = "ft_waiting" /\ Recheck(pc[w]) = "ft_check"
         /\ w # CL
BY ThreadAssumption DEF ControlInv, TypeOK, Waiting, Recheck

\* Every step preserves the types.
LEMMA TypeStep == ControlInv /\ [Next]_vars => ControlInv'
<1> SUFFICES ASSUME ControlInv, [Next]_vars PROVE ControlInv'
  OBVIOUS
<1> USE ThreadAssumption DEF ControlInv, TypeOK, CallOK, At, Goto, data, flags
<1>1. ASSUME NEW c \in Clients, NEW k \in Keys, BeginInsert(c, k) PROVE ControlInv'
  BY <1>1 DEF BeginInsert, Begin
<1>2. ASSUME NEW c \in Clients, NEW k \in Keys, BeginGet(c, k) PROVE ControlInv'
  BY <1>2 DEF BeginGet, Begin
<1>3. ASSUME NEW c \in Clients, BeginFlush(c) PROVE ControlInv'
  BY <1>3 DEF BeginFlush, Begin
<1>4. ASSUME NEW c \in Clients, Insert(c) PROVE ControlInv'
  BY <1>4 DEF Insert, next_seq
<1>5. ASSUME NEW c \in Clients, TestSoftLimit(c) PROVE ControlInv'
  BY <1>5 DEF TestSoftLimit
<1>6. ASSUME NEW c \in Clients, Signal(c) PROVE ControlInv'
  BY <1>6 DEF Signal, AfterSignal
<1>7. ASSUME NEW c \in Clients, Notify(c) PROVE ControlInv'
  BY <1>7, WakeTypes DEF Notify, notify_one, AfterSignal
<1>8. ASSUME NEW c \in Clients, WaitTest(c) PROVE ControlInv'
  BY <1>8 DEF WaitTest
<1>9. ASSUME NEW c \in Clients, WaitSleep(c) PROVE ControlInv'
  BY <1>9 DEF WaitSleep
<1>10. ASSUME NEW c \in Clients, FlushDrain(c) PROVE ControlInv'
  BY <1>10 DEF FlushDrain, Drain
<1>11. ASSUME NEW c \in Clients, FlushPersist(c) PROVE ControlInv'
  BY <1>11 DEF FlushPersist, MergeAndPersist, Handed, Merged
<1>12. ASSUME NEW c \in Clients, GetFromTree(c) PROVE ControlInv'
  BY <1>12 DEF GetFromTree
<1>13. CASE FtTest
  BY <1>13 DEF FtTest
<1>14. CASE FtSleep
  BY <1>14 DEF FtSleep
<1>15. CASE FtExit
  BY <1>15 DEF FtExit
<1>16. CASE FtStart
  BY <1>16 DEF FtStart, Announce
<1>17. CASE FtDrain
  BY <1>17 DEF FtDrain, Drain
<1>18. CASE FtMerge
  BY <1>18 DEF FtMerge, MergeOnly, MergeAndPush, Handed, Merged
<1>19. CASE FtClear
  BY <1>19 DEF FtClear
<1>20. CASE FtDone
  BY <1>20 DEF FtDone, Conclude
<1>21. CASE FtNotify
  BY <1>21, WakeTypes DEF FtNotify, notify_all
<1>22. CASE BeginClose
  BY <1>22 DEF BeginClose
<1>23. CASE CloseNotify
  BY <1>23, WakeTypes DEF CloseNotify, notify_all
<1>24. CASE CloseJoin
  BY <1>24 DEF CloseJoin, Joined
<1>25. CASE CloseDrain
  BY <1>25 DEF CloseDrain, Drain
<1>26. CASE ClosePersist
  BY <1>26 DEF ClosePersist, MergeAndPersist, Handed, Merged
<1>27. CASE SpuriousWakeup
  BY <1>27, WakeTypes DEF SpuriousWakeup
<1>28. CASE UNCHANGED vars
  BY <1>28 DEF vars
<1> QED
  BY <1>1, <1>2, <1>3, <1>4, <1>5, <1>6, <1>7, <1>8, <1>9, <1>10, <1>11, <1>12, <1>13, <1>14, <1>15, <1>16, <1>17, <1>18, <1>19, <1>20, <1>21, <1>22, <1>23, <1>24, <1>25, <1>26, <1>27, <1>28
     DEF Next, ClientStep, FtStep, CloseStep, Terminated

-----------------------------------------------------------------------------
(* Data: what drains, merges and inserts do to the layers *)

\* Everything that has left the write buffer.
Drained == InTransit \cup root \cup below

DataInv == SeqBound /\ WriteBufNewest /\ NoLostWrites /\ DiskOK

\* A version is in transit when some thread holds it.
LEMMA TransitDef == \A e : e \in InTransit <=> \E t \in Threads : e \in pending[t]
BY DEF InTransit

\* A drain by a thread that holds no batch moves the write buffer in transit.
LEMMA DrainMoves ==
  ASSUME TypeOK, NEW t \in Threads, pending[t] = {}, Drain(t)
  PROVE  Drained' = Drained \cup write_buf /\ Held' = Held
<1>1. \A u \in Threads : pending'[u] = IF u = t THEN write_buf ELSE pending[u]
  BY DEF Drain, TypeOK
<1>2. InTransit' = InTransit \cup write_buf
  BY <1>1, TransitDef DEF InTransit
<1> QED
  BY <1>2 DEF Drained, Held, Drain

\* A merge moves a thread's batch into the tree.
LEMMA MergeMoves ==
  ASSUME TypeOK, NEW t \in Threads, Handed(t), write_buf' = write_buf,
         root' \cup below' = root \cup below \cup pending[t]
  PROVE  Drained' = Drained /\ Held' = Held
<1>1. \A u \in Threads : pending'[u] = IF u = t THEN {} ELSE pending[u]
  BY DEF Handed, TypeOK
<1>2. InTransit \subseteq InTransit' \cup pending[t] /\ InTransit' \subseteq InTransit
  BY <1>1, TransitDef DEF InTransit
<1>3. pending[t] \subseteq InTransit
  BY TransitDef
<1>4. Drained' = Drained
  BY <1>2, <1>3 DEF Drained
<1> QED
  BY <1>4 DEF Drained, Held

\* Steps that do not touch the data preserve its invariant.
LEMMA SameData == DataInv /\ UNCHANGED data => DataInv'
BY DEF DataInv, data, SeqBound, WriteBufNewest, NoLostWrites, DiskOK, Held, InTransit

\* Drains preserve it.
LEMMA DrainData ==
  ASSUME TypeOK, DataInv, NEW t \in Threads, pending[t] = {}, Drain(t)
  PROVE  DataInv'
<1>1. Drained' = Drained \cup write_buf /\ Held' = Held
  BY DrainMoves
<1>2. SeqBound' /\ NoLostWrites' /\ DiskOK'
  BY <1>1 DEF DataInv, SeqBound, NoLostWrites, DiskOK, Held, Drain
<1>3. WriteBufNewest'
  BY DEF WriteBufNewest, Drain
<1> QED
  BY <1>2, <1>3 DEF DataInv

\* Merges preserve it.
LEMMA MergeData ==
  ASSUME TypeOK, DataInv, NEW t \in Threads,
         MergeAndPersist(t) \/ MergeOnly(t) \/ MergeAndPush(t)
  PROVE  DataInv' /\ Held' = Held /\ Drained' = Drained /\ disk \subseteq disk'
<1>1. /\ Handed(t) /\ UNCHANGED <<write_buf, seq_, written>>
      /\ root' \cup below' = root \cup below \cup pending[t]
      /\ below \subseteq below' /\ disk \subseteq disk' /\ below' \subseteq disk' \cup below
      /\ disk' \subseteq disk \cup root \cup pending[t]
      /\ \A e \in below' : e \in below \/ e \in disk'
  BY DEF MergeAndPersist, MergeOnly, MergeAndPush, Merged, Handed
<1>2. Drained' = Drained /\ Held' = Held
  BY <1>1, MergeMoves
<1>3. SeqBound' /\ NoLostWrites' /\ WriteBufNewest'
  BY <1>1, <1>2 DEF DataInv, SeqBound, NoLostWrites, WriteBufNewest, Held, Drained
<1>4. pending[t] \subseteq Held /\ root \subseteq Held
  BY TransitDef DEF Held
<1>5. DiskOK'
  BY <1>1, <1>2, <1>4 DEF DataInv, DiskOK
<1> QED
  BY <1>1, <1>2, <1>3, <1>5 DEF DataInv

\* An insert preserves it: its sequence number is above all others.
LEMMA InsertData ==
  ASSUME TypeOK, CallOK, DataInv, NEW c \in Clients, Insert(c)
  PROVE  /\ DataInv'
         /\ \E e \in Held' \ Held : Held' = Held \cup {e} /\ \A f \in Held : f.seq < e.seq
<1> DEFINE e == [key |-> call[c].key, seq |-> seq_]
<1>1. /\ write_buf' = write_buf \cup {e} /\ written' = written \cup {e}
      /\ seq_' = seq_ + 1 /\ UNCHANGED <<pending, root, below, disk>>
  BY DEF Insert, next_seq
<1>2. Drained' = Drained /\ InTransit' = InTransit /\ Held' = Held \cup {e}
  BY <1>1 DEF Drained, InTransit, Held
<1>3. \A f \in Held : f.seq < e.seq
  BY DEF DataInv, SeqBound
<1>4. Held \subseteq Versions /\ seq_ \in Nat
  BY DEF TypeOK, Held, InTransit
<1>5. e \notin Held
  BY <1>3, <1>4
<1>6. SeqBound'
  BY <1>1, <1>2, <1>3, <1>4 DEF SeqBound
<1>7. WriteBufNewest'
  BY <1>1, <1>2, <1>3 DEF DataInv, WriteBufNewest, Held
<1>8. NoLostWrites' /\ DiskOK'
  BY <1>1, <1>2 DEF DataInv, NoLostWrites, DiskOK, Held
<1> QED
  BY <1>2, <1>3, <1>5, <1>6, <1>7, <1>8 DEF DataInv

-----------------------------------------------------------------------------
(* Protocol: who holds batches, who is announced, and when the object closes *)

ProtocolInv == PendingOK /\ CloseOK /\ AnnounceOK

\* Every step preserves the protocol's invariant.
LEMMA ProtocolStep == ControlInv /\ ProtocolInv /\ [Next]_vars => ProtocolInv'
<1> SUFFICES ASSUME ControlInv, ProtocolInv, [Next]_vars PROVE ProtocolInv'
  OBVIOUS
<1> USE ThreadAssumption
        DEF ControlInv, TypeOK, ProtocolInv, PendingOK, CloseOK, AnnounceOK, At, Goto, data, flags
<1>1. ASSUME NEW c \in Clients, NEW k \in Keys, BeginInsert(c, k) PROVE ProtocolInv'
  BY <1>1 DEF BeginInsert, Begin
<1>2. ASSUME NEW c \in Clients, NEW k \in Keys, BeginGet(c, k) PROVE ProtocolInv'
  BY <1>2 DEF BeginGet, Begin
<1>3. ASSUME NEW c \in Clients, BeginFlush(c) PROVE ProtocolInv'
  BY <1>3 DEF BeginFlush, Begin
<1>4. ASSUME NEW c \in Clients, Insert(c) PROVE ProtocolInv'
  BY <1>4 DEF Insert
<1>5. ASSUME NEW c \in Clients, TestSoftLimit(c) PROVE ProtocolInv'
  BY <1>5 DEF TestSoftLimit
<1>6. ASSUME NEW c \in Clients, Signal(c) PROVE ProtocolInv'
  BY <1>6 DEF Signal, AfterSignal
<1>7. ASSUME NEW c \in Clients, Notify(c) PROVE ProtocolInv'
  BY <1>7, WakeTypes DEF Notify, notify_one, AfterSignal
<1>8. ASSUME NEW c \in Clients, WaitTest(c) PROVE ProtocolInv'
  BY <1>8 DEF WaitTest
<1>9. ASSUME NEW c \in Clients, WaitSleep(c) PROVE ProtocolInv'
  BY <1>9 DEF WaitSleep
<1>10. ASSUME NEW c \in Clients, FlushDrain(c) PROVE ProtocolInv'
  BY <1>10 DEF FlushDrain, Drain
<1>11. ASSUME NEW c \in Clients, FlushPersist(c) PROVE ProtocolInv'
  BY <1>11 DEF FlushPersist, MergeAndPersist, Handed
<1>12. ASSUME NEW c \in Clients, GetFromTree(c) PROVE ProtocolInv'
  BY <1>12 DEF GetFromTree
<1>13. CASE FtTest
  BY <1>13 DEF FtTest
<1>14. CASE FtSleep
  BY <1>14 DEF FtSleep
<1>15. CASE FtExit
  BY <1>15 DEF FtExit
<1>16. CASE FtStart
  BY <1>16 DEF FtStart, Announce
<1>17. CASE FtDrain
  BY <1>17 DEF FtDrain, Drain
<1>18. CASE FtMerge
  BY <1>18 DEF FtMerge, MergeOnly, MergeAndPush, Handed
<1>19. CASE FtClear
  BY <1>19 DEF FtClear
<1>20. CASE FtDone
  BY <1>20 DEF FtDone, Conclude
<1>21. CASE FtNotify
  BY <1>21, WakeTypes DEF FtNotify, notify_all
<1>22. CASE BeginClose
  BY <1>22 DEF BeginClose
<1>23. CASE CloseNotify
  BY <1>23, WakeTypes DEF CloseNotify, notify_all
<1>24. CASE CloseJoin
  BY <1>24 DEF CloseJoin, Joined
<1>25. CASE CloseDrain
  BY <1>25 DEF CloseDrain, Drain
<1>26. CASE ClosePersist
  BY <1>26 DEF ClosePersist, MergeAndPersist, Handed
<1>27. CASE SpuriousWakeup
  BY <1>27, WakeTypes DEF SpuriousWakeup
<1>28. CASE UNCHANGED vars
  BY <1>28 DEF vars
<1> QED
  BY <1>1, <1>2, <1>3, <1>4, <1>5, <1>6, <1>7, <1>8, <1>9, <1>10, <1>11, <1>12, <1>13, <1>14, <1>15, <1>16, <1>17, <1>18, <1>19, <1>20, <1>21, <1>22, <1>23, <1>24, <1>25, <1>26, <1>27, <1>28
     DEF Next, ClientStep, FtStep, CloseStep, Terminated

-----------------------------------------------------------------------------
(* What a step does to the data *)

Merge(t) == MergeAndPersist(t) \/ MergeOnly(t) \/ MergeAndPush(t)

\* The destructor has neither returned nor returns in this step.
StaysOpen == pc[CL] # "closed" /\ pc'[CL] # "closed"

\* A step leaves the data alone, inserts, drains into an empty hand, merges, or
\* is the destructor's last.
LEMMA StepKinds ==
  ASSUME ControlInv, ProtocolInv, [Next]_vars
  PROVE  \/ UNCHANGED data /\ (pc'[CL] = "closed" <=> pc[CL] = "closed")
         \/ StaysOpen /\ \E c \in Clients : Insert(c)
         \/ StaysOpen /\ \E t \in Threads : pending[t] = {} /\ Drain(t)
         \/ StaysOpen /\ \E t \in Threads : Merge(t)
         \/ ClosePersist
<1> DEFINE Same == UNCHANGED data /\ (pc'[CL] = "closed" <=> pc[CL] = "closed")
<1> USE ThreadAssumption
        DEF ControlInv, TypeOK, ProtocolInv, PendingOK, CloseOK, At, Goto, StaysOpen, Merge
<1>1. ASSUME NEW c \in Clients, NEW k \in Keys, BeginInsert(c, k) \/ BeginGet(c, k) PROVE Same
  BY <1>1 DEF BeginInsert, BeginGet, Begin
<1>2. ASSUME NEW c \in Clients,
             \/ BeginFlush(c) \/ TestSoftLimit(c) \/ Signal(c) \/ WaitTest(c)
             \/ WaitSleep(c) \/ GetFromTree(c)
      PROVE  Same
  BY <1>2 DEF BeginFlush, Begin, TestSoftLimit, Signal, WaitTest, WaitSleep, GetFromTree
<1>3. ASSUME NEW c \in Clients, Notify(c) PROVE Same
  BY <1>3, WakeTypes DEF Notify, notify_one
<1>4. ASSUME NEW c \in Clients, Insert(c) PROVE StaysOpen
  BY <1>4 DEF Insert
<1>5. ASSUME NEW c \in Clients, FlushDrain(c) PROVE StaysOpen /\ pending[c] = {} /\ Drain(c)
  BY <1>5 DEF FlushDrain
<1>6. ASSUME NEW c \in Clients, FlushPersist(c) PROVE StaysOpen /\ Merge(c)
  BY <1>6 DEF FlushPersist
<1>7. CASE FtTest \/ FtSleep \/ FtExit \/ FtStart \/ FtClear \/ FtDone
  <2>1. Same
    BY <1>7 DEF FtTest, FtSleep, FtExit, FtStart, FtClear, FtDone
  <2> QED
    BY <2>1
<1>8. ASSUME FtDrain PROVE StaysOpen /\ pending[FT] = {} /\ Drain(FT)
  BY <1>8 DEF FtDrain
<1>9. ASSUME FtMerge PROVE StaysOpen /\ Merge(FT)
  BY <1>9 DEF FtMerge
<1>10. ASSUME FtNotify \/ CloseNotify PROVE Same
  BY <1>10, WakeTypes DEF FtNotify, CloseNotify, notify_all
<1>11. ASSUME BeginClose \/ CloseJoin PROVE Same
  BY <1>11 DEF BeginClose, CloseJoin
<1>12. ASSUME CloseDrain PROVE StaysOpen /\ pending[CL] = {} /\ Drain(CL)
  BY <1>12 DEF CloseDrain
<1>13. ASSUME SpuriousWakeup PROVE Same
  BY <1>13, WakeTypes DEF SpuriousWakeup
<1>14. ASSUME UNCHANGED vars PROVE Same
  BY <1>14 DEF vars
<1> QED
  BY <1>1, <1>2, <1>3, <1>4, <1>5, <1>6, <1>7, <1>8, <1>9, <1>10, <1>11, <1>12, <1>13, <1>14
     DEF Next, ClientStep, FtStep, CloseStep, Terminated

\* At the destructor's last step nothing is left in the write buffer or in the
\* hands of another thread, so the tree, once merged, holds everything.
LEMMA CloseData ==
  ASSUME ControlInv, ProtocolInv, DataInv, ClosePersist
  PROVE  /\ DataInv' /\ Held' = Held /\ disk' = Held /\ written' \subseteq disk'
         /\ pc[CL] # "closed" /\ pc'[CL] = "closed"
<1>1. pc[CL] = "cl_merge" /\ pc'[CL] = "closed" /\ MergeAndPersist(CL)
  BY DEF ClosePersist, At, Goto, ControlInv, TypeOK
<1>2. DataInv' /\ Held' = Held
  BY <1>1, MergeData DEF ControlInv
<1>3. write_buf = {} /\ \A t \in Threads : t # CL => pending[t] = {}
  BY <1>1, ThreadAssumption DEF ProtocolInv, CloseOK, PendingOK
<1>4. InTransit = pending[CL]
  BY <1>3, TransitDef DEF InTransit
<1>5. disk' = disk \cup root \cup pending[CL] /\ written' = written
  BY <1>1 DEF MergeAndPersist, Merged
<1>6. disk' = Held
  BY <1>3, <1>4, <1>5 DEF DataInv, DiskOK, Held
<1>7. written \subseteq Held
  BY DEF DataInv, NoLostWrites, Held
<1> QED
  BY <1>1, <1>2, <1>5, <1>6, <1>7

\* Every step preserves the data's invariant and the durability of a closed tree.
LEMMA DataStep ==
  ASSUME ControlInv, ProtocolInv, DataInv, ClosedDurable, [Next]_vars
  PROVE  DataInv' /\ ClosedDurable'
<1>1. CASE UNCHANGED data /\ (pc'[CL] = "closed" <=> pc[CL] = "closed")
  BY <1>1, SameData DEF ClosedDurable, data
<1>2. CASE StaysOpen /\ \E c \in Clients : Insert(c)
  BY <1>2, InsertData DEF ClosedDurable, StaysOpen, ControlInv
<1>3. CASE StaysOpen /\ \E t \in Threads : pending[t] = {} /\ Drain(t)
  BY <1>3, DrainData DEF ClosedDurable, StaysOpen, ControlInv
<1>4. CASE StaysOpen /\ \E t \in Threads : Merge(t)
  BY <1>4, MergeData DEF ClosedDurable, StaysOpen, ControlInv, Merge
<1>5. CASE ClosePersist
  BY <1>5, CloseData DEF ClosedDurable
<1> QED
  BY <1>1, <1>2, <1>3, <1>4, <1>5, StepKinds

-----------------------------------------------------------------------------
(* The inductive invariant and what follows from it *)

\* Init satisfies the inductive invariant.
LEMMA InitIInv == Init => IInv
<1> SUFFICES ASSUME Init PROVE IInv
  OBVIOUS
<1>1. ControlInv
  BY TypeInit
<1>2. \A t \in Threads : pending[t] = {}
  BY DEF Init
<1>3. pc[CL] = "cl_idle" /\ pc[FT] = "ft_check"
  BY ThreadAssumption DEF Init
<1>4. PendingOK /\ CloseOK /\ AnnounceOK /\ ClosedDurable
  BY <1>2, <1>3 DEF PendingOK, CloseOK, AnnounceOK, ClosedDurable
<1>5. Held = {}
  BY <1>2, TransitDef DEF Held, Init
<1>6. SeqBound /\ WriteBufNewest /\ NoLostWrites /\ DiskOK
  BY <1>5 DEF SeqBound, WriteBufNewest, NoLostWrites, DiskOK, Held, Init
<1> QED
  BY <1>1, <1>4, <1>6 DEF IInv, ControlInv

\* Every step preserves it.
LEMMA StepIInv == IInv /\ [Next]_vars => IInv'
<1> SUFFICES ASSUME IInv, [Next]_vars PROVE IInv'
  OBVIOUS
<1>1. ControlInv /\ ProtocolInv /\ DataInv /\ ClosedDurable
  BY DEF IInv, ControlInv, ProtocolInv, DataInv
<1>2. ControlInv' /\ ProtocolInv' /\ DataInv' /\ ClosedDurable'
  BY <1>1, TypeStep, ProtocolStep, DataStep
<1> QED
  BY <1>2 DEF IInv, ControlInv, ProtocolInv, DataInv

\* IInv is an invariant.
THEOREM Inductive == Spec => []IInv
<1>1. IInv /\ UNCHANGED vars => IInv'
  BY StepIInv
<1> QED
  BY InitIInv, StepIInv, PTL DEF Spec

\* Type correctness: every thread is at one of its own labels (tree.cpp's threads
\* never run each other's code), and sequence numbers start at 1.
THEOREM TypeCorrect == Spec => []TypeOK
<1>1. IInv => TypeOK
  BY DEF IInv
<1> QED
  BY <1>1, Inductive, PTL

\* No write is lost between write_buf_mu_ and cache_mu_.
THEOREM NothingLost == Spec => []NoLostWrites
<1>1. IInv => NoLostWrites
  BY DEF IInv
<1> QED
  BY <1>1, Inductive, PTL

\* A hit in the write buffer is the newest version there is.
THEOREM BufferNewest == Spec => []WriteBufNewest
<1>1. IInv => WriteBufNewest
  BY DEF IInv
<1> QED
  BY <1>1, Inductive, PTL

\* A batch held by the flush thread or the destructor is announced.
THEOREM AlwaysAnnounced == Spec => []BatchAnnounced
<1>1. IInv => BatchAnnounced
  <2> SUFFICES ASSUME IInv PROVE BatchAnnounced
    OBVIOUS
  <2>1. pending[FT] # {} => pc[FT] = "ft_merge"
    BY DEF IInv, PendingOK, TypeOK
  <2>2. pending[CL] # {} => pc[CL] = "cl_merge"
    BY DEF IInv, PendingOK, TypeOK
  <2> QED
    BY <2>1, <2>2 DEF IInv, AnnounceOK, CloseOK, BatchAnnounced
<1> QED
  BY <1>1, Inductive, PTL

\* Everything written is on disk when the destructor returns, no access to a file
\* having failed.
THEOREM DurableOnClose == Spec => []ClosedDurable
<1>1. IInv => ClosedDurable
  BY DEF IInv
<1> QED
  BY <1>1, Inductive, PTL

\* The threads implement the abstract store: an insert is a Put, a merge a Sync,
\* the destructor's last step a Close, and every other step stutters.
THEOREM Refinement == Spec => ImplementsStore
<1>1. Init => Store!Init
  <2> SUFFICES ASSUME Init PROVE Store!Init
    OBVIOUS
  <2>1. \A t \in Threads : pending[t] = {}
    BY DEF Init
  <2>2. Held = {}
    BY <2>1, TransitDef DEF Held, Init
  <2> QED
    BY <2>2, ThreadAssumption DEF Init, Store!Init
<1>2. IInv /\ IInv' /\ [Next]_vars => [Store!Next]_<<Held, disk, pc[CL] # "closed">>
  <2> SUFFICES ASSUME IInv, IInv', [Next]_vars
               PROVE  [Store!Next]_<<Held, disk, pc[CL] # "closed">>
    OBVIOUS
  <2>1. ControlInv /\ ProtocolInv /\ DataInv
    BY DEF IInv, ControlInv, ProtocolInv, DataInv
  <2>2. CASE UNCHANGED data /\ (pc'[CL] = "closed" <=> pc[CL] = "closed")
    BY <2>2 DEF data, Held, InTransit
  <2>3. CASE StaysOpen /\ \E c \in Clients : Insert(c)
    <3>1. \E e \in Held' \ Held : Held' = Held \cup {e} /\ \A f \in Held : f.seq < e.seq
      BY <2>1, <2>3, InsertData DEF ControlInv
    <3>2. UNCHANGED disk
      BY <2>3 DEF Insert
    <3> QED
      BY <2>3, <3>1, <3>2 DEF StaysOpen, Store!Next, Store!Put
  <2>4. CASE StaysOpen /\ \E t \in Threads : pending[t] = {} /\ Drain(t)
    <3>1. Held' = Held /\ disk' = disk
      BY <2>1, <2>4, DrainMoves DEF ControlInv, Drain
    <3> QED
      BY <2>4, <3>1 DEF StaysOpen
  <2>5. CASE StaysOpen /\ \E t \in Threads : Merge(t)
    <3>1. Held' = Held /\ disk \subseteq disk' /\ disk' \subseteq Held
      BY <2>1, <2>5, MergeData DEF ControlInv, Merge, DataInv, DiskOK
    <3> QED
      BY <2>5, <3>1 DEF StaysOpen, Store!Next, Store!Sync
  <2>6. CASE ClosePersist
    BY <2>1, <2>6, CloseData DEF Store!Next, Store!Close
  <2> QED
    BY <2>1, <2>2, <2>3, <2>4, <2>5, <2>6, StepKinds
<1> QED
  BY <1>1, <1>2, Inductive, PTL DEF Spec, ImplementsStore, Store!Spec

-----------------------------------------------------------------------------
(* What flush() has made durable when it returns *)

\* What flush() saw when it was called has left the write buffer once it has
\* drained.
SeenOK ==
  \A c \in Clients : /\ seen[c] \subseteq written
                     /\ pc[c] = "merge" => seen[c] \subseteq Drained

\* Nothing goes back into the write buffer.
LEMMA DrainedGrows ==
  ASSUME IInv, [Next]_vars
  PROVE  Drained \subseteq Drained' /\ written \subseteq written'
<1>1. ControlInv /\ ProtocolInv /\ DataInv
  BY DEF IInv, ControlInv, ProtocolInv, DataInv
<1>2. CASE UNCHANGED data
  BY <1>2 DEF data, Drained, InTransit
<1>3. ASSUME NEW c \in Clients, Insert(c) PROVE Drained \subseteq Drained' /\ written \subseteq written'
  BY <1>3 DEF Insert, Drained, InTransit
<1>4. ASSUME NEW t \in Threads, pending[t] = {}, Drain(t)
      PROVE  Drained \subseteq Drained' /\ written \subseteq written'
  BY <1>1, <1>4, DrainMoves DEF ControlInv, Drain
<1>5. ASSUME NEW t \in Threads, Merge(t)
      PROVE  Drained \subseteq Drained' /\ written \subseteq written'
  <2>1. Drained' = Drained
    BY <1>1, <1>5, MergeData DEF ControlInv, Merge
  <2>2. written' = written
    BY <1>5 DEF Merge, MergeAndPersist, MergeOnly, MergeAndPush
  <2> QED
    BY <2>1, <2>2
<1>6. ASSUME ClosePersist PROVE Merge(CL)
  BY <1>6 DEF ClosePersist, Merge
<1> QED
  BY <1>1, <1>2, <1>3, <1>4, <1>5, <1>6, StepKinds

\* A client gets between drain and merge by its drain only, and what it has seen
\* changes at the beginning and at the end of a call.
LEMMA SeenMoves ==
  ASSUME ControlInv, [Next]_vars, NEW d \in Clients
  PROVE  /\ seen'[d] \subseteq seen[d] \cup written
         /\ pc'[d] = "merge" => /\ seen'[d] = seen[d]
                                /\ pc[d] = "merge" \/ FlushDrain(d)
<1> DEFINE Goal == /\ seen'[d] \subseteq seen[d] \cup written
                   /\ pc'[d] = "merge" => /\ seen'[d] = seen[d]
                                          /\ pc[d] = "merge" \/ FlushDrain(d)
<1> USE ThreadAssumption DEF ControlInv, TypeOK, At, Goto
<1>1. ASSUME NEW c \in Clients, NEW k \in Keys, BeginInsert(c, k) \/ BeginGet(c, k) PROVE Goal
  BY <1>1 DEF BeginInsert, BeginGet, Begin
<1>2. ASSUME NEW c \in Clients, BeginFlush(c) PROVE Goal
  BY <1>2 DEF BeginFlush, Begin
<1>3. ASSUME NEW c \in Clients, Insert(c) \/ TestSoftLimit(c) \/ WaitSleep(c) \/ GetFromTree(c)
      PROVE  Goal
  BY <1>3 DEF Insert, TestSoftLimit, WaitSleep, GetFromTree
<1>4. ASSUME NEW c \in Clients, Signal(c) PROVE Goal
  BY <1>4 DEF Signal, AfterSignal
<1>5. ASSUME NEW c \in Clients, Notify(c) PROVE Goal
  BY <1>5, WakeTypes DEF Notify, notify_one, AfterSignal
<1>6. ASSUME NEW c \in Clients, WaitTest(c) PROVE Goal
  BY <1>6 DEF WaitTest
<1>7. ASSUME NEW c \in Clients, FlushDrain(c) PROVE Goal
  <2>1. CASE c = d
    BY <1>7, <2>1 DEF FlushDrain
  <2>2. CASE c # d
    BY <1>7, <2>2 DEF FlushDrain
  <2> QED
    BY <2>1, <2>2
<1>8. ASSUME NEW c \in Clients, FlushPersist(c) PROVE Goal
  BY <1>8 DEF FlushPersist
<1>9. ASSUME FtTest \/ FtSleep \/ FtExit \/ FtStart \/ FtDrain \/ FtMerge \/ FtClear \/ FtDone
      PROVE  Goal
  BY <1>9 DEF FtTest, FtSleep, FtExit, FtStart, FtDrain, FtMerge, FtClear, FtDone
<1>10. ASSUME FtNotify \/ CloseNotify PROVE Goal
  BY <1>10, WakeTypes DEF FtNotify, CloseNotify, notify_all
<1>11. ASSUME BeginClose \/ CloseJoin \/ CloseDrain \/ ClosePersist PROVE Goal
  BY <1>11 DEF BeginClose, CloseJoin, CloseDrain, ClosePersist
<1>12. ASSUME SpuriousWakeup PROVE Goal
  BY <1>12, WakeTypes DEF SpuriousWakeup
<1>13. ASSUME UNCHANGED vars PROVE Goal
  BY <1>13 DEF vars
<1> QED
  BY <1>1, <1>2, <1>3, <1>4, <1>5, <1>6, <1>7, <1>8, <1>9, <1>10, <1>11, <1>12, <1>13
     DEF Next, ClientStep, FtStep, CloseStep, Terminated

\* Every step preserves SeenOK.
LEMMA SeenStep == IInv /\ SeenOK /\ [Next]_vars => SeenOK'
<1> SUFFICES ASSUME IInv, SeenOK, [Next]_vars, NEW d \in Clients
             PROVE  /\ (seen[d])' \subseteq written'
                    /\ (pc[d])' = "merge" => (seen[d])' \subseteq Drained'
  BY DEF SeenOK
<1>1. ControlInv /\ ProtocolInv /\ DataInv
  BY DEF IInv, ControlInv, ProtocolInv, DataInv
<1>2. /\ seen'[d] \subseteq seen[d] \cup written
      /\ pc'[d] = "merge" => seen'[d] = seen[d] /\ (pc[d] = "merge" \/ FlushDrain(d))
  BY <1>1, SeenMoves
<1>3. Drained \subseteq Drained' /\ written \subseteq written'
  BY DrainedGrows
<1>4. ASSUME FlushDrain(d) PROVE written \subseteq Drained'
  <2>1. pending[d] = {} /\ Drain(d)
    BY <1>1, <1>4 DEF FlushDrain, At, ProtocolInv, PendingOK
  <2>2. Drained' = Drained \cup write_buf
    BY <1>1, <2>1, DrainMoves DEF ControlInv
  <2> QED
    BY <1>1, <2>2 DEF DataInv, NoLostWrites, Drained
<1> QED
  BY <1>2, <1>3, <1>4 DEF SeenOK

\* The end of flush() covers what flush() saw.
LEMMA FlushCovered ==
  ASSUME IInv, SeenOK, NEW c \in Clients, FlushPersist(c)
  PROVE  seen[c] \subseteq disk' \cup InTransit'
<1>1. pc[c] = "merge" /\ MergeAndPersist(c)
  BY DEF FlushPersist, At
<1>2. seen[c] \subseteq InTransit \cup root \cup below
  BY <1>1 DEF SeenOK, Drained
<1>3. \A u \in Threads : pending'[u] = IF u = c THEN {} ELSE pending[u]
  BY <1>1 DEF MergeAndPersist, Handed, IInv, TypeOK
<1>4. InTransit \subseteq InTransit' \cup pending[c]
  BY <1>3 DEF InTransit
<1>5. disk' = disk \cup root \cup pending[c] /\ below \subseteq disk
  BY <1>1 DEF MergeAndPersist, Merged, IInv, DiskOK
<1> QED
  BY <1>2, <1>4, <1>5

\* A flush() that returns has made durable what was written before it was called,
\* but for batches that other threads hold.
THEOREM FlushDurable == Spec => FlushReaches
<1>1. Init => SeenOK
  <2> SUFFICES ASSUME Init, NEW c \in Clients PROVE seen[c] = {}
    BY DEF SeenOK
  <2> QED
    BY DEF Init
<1>2. IInv /\ SeenOK /\ [Next]_vars
        => [\A c \in Clients : FlushPersist(c) => seen[c] \subseteq disk' \cup InTransit']_vars
  BY FlushCovered
<1> QED
  BY <1>1, <1>2, SeenStep, Inductive, PTL DEF Spec, FlushReaches

-----------------------------------------------------------------------------
(* The root's buffer, when nobody calls flush() *)

\* No client is in flush().
FlushFree == \A c \in Clients : call[c] # FlushCall /\ pc[c] \notin {"drain", "merge"}

\* The layers are ordered by age: transit above root above below.
RootInv ==
  /\ RootNewest
  /\ \A e \in InTransit : \A f \in root \cup below : f.seq < e.seq

\* Without callers no client ever enters flush().
LEMMA FlushFreeStep ==
  ASSUME Flushers = {}, ControlInv, FlushFree, [Next]_vars
  PROVE  FlushFree'
<1> USE ThreadAssumption DEF ControlInv, TypeOK, FlushFree, At, Goto
<1>1. ASSUME NEW c \in Clients, NEW k \in Keys, BeginInsert(c, k) \/ BeginGet(c, k)
      PROVE  FlushFree'
  BY <1>1 DEF BeginInsert, BeginGet, Begin
<1>2. ASSUME NEW c \in Clients, BeginFlush(c) PROVE FALSE
  BY <1>2 DEF BeginFlush
<1>3. ASSUME NEW c \in Clients, Insert(c) \/ TestSoftLimit(c) \/ WaitSleep(c) \/ GetFromTree(c)
      PROVE  FlushFree'
  BY <1>3 DEF Insert, TestSoftLimit, WaitSleep, GetFromTree
<1>4. ASSUME NEW c \in Clients, Signal(c) PROVE FlushFree'
  BY <1>4 DEF Signal, AfterSignal
<1>5. ASSUME NEW c \in Clients, Notify(c) PROVE FlushFree'
  BY <1>5, WakeTypes DEF Notify, notify_one, AfterSignal
<1>6. ASSUME NEW c \in Clients, WaitTest(c) PROVE FlushFree'
  <2>1. call[c].op # "flush"
    BY <1>6 DEF WaitTest, CallOK
  <2> QED
    BY <1>6, <2>1 DEF WaitTest
<1>7. ASSUME NEW c \in Clients, FlushDrain(c) \/ FlushPersist(c) PROVE FALSE
  BY <1>7 DEF FlushDrain, FlushPersist
<1>8. ASSUME FtTest \/ FtSleep \/ FtExit \/ FtStart \/ FtDrain \/ FtMerge \/ FtClear \/ FtDone
      PROVE  FlushFree'
  BY <1>8 DEF FtTest, FtSleep, FtExit, FtStart, FtDrain, FtMerge, FtClear, FtDone
<1>9. ASSUME FtNotify \/ CloseNotify PROVE FlushFree'
  BY <1>9, WakeTypes DEF FtNotify, CloseNotify, notify_all
<1>10. ASSUME BeginClose \/ CloseJoin \/ CloseDrain \/ ClosePersist PROVE FlushFree'
  BY <1>10 DEF BeginClose, CloseJoin, CloseDrain, ClosePersist
<1>11. ASSUME SpuriousWakeup PROVE FlushFree'
  BY <1>11, WakeTypes DEF SpuriousWakeup
<1>12. ASSUME UNCHANGED vars PROVE FlushFree'
  BY <1>12 DEF vars
<1> QED
  BY <1>1, <1>2, <1>3, <1>4, <1>5, <1>6, <1>7, <1>8, <1>9, <1>10, <1>11, <1>12
     DEF Next, ClientStep, FtStep, CloseStep, Terminated

OneHolder ==
  \A t, u \in Threads : pending[t] # {} /\ pending[u] # {} => t = u

\* Then at most one thread holds a batch: the flush thread, or the destructor
\* after it.
LEMMA SoleHolder == IInv /\ FlushFree => OneHolder
<1> SUFFICES ASSUME IInv, FlushFree PROVE OneHolder
  OBVIOUS
<1>1. \A v \in Threads : pending[v] # {} =>
        \/ v = FT /\ pc[FT] = "ft_merge"
        \/ v = CL /\ pc[CL] = "cl_merge" /\ pc[FT] = "exit"
  BY DEF IInv, PendingOK, FlushFree, TypeOK, CloseOK
<1> QED
  BY <1>1 DEF OneHolder

\* Every step preserves the order of the layers.
LEMMA RootStep ==
  ASSUME IInv, OneHolder, OneHolder', RootInv, [Next]_vars
  PROVE  RootInv'
<1>1. ControlInv /\ ProtocolInv /\ WriteBufNewest
  BY DEF IInv, ControlInv, ProtocolInv
<1>2. CASE UNCHANGED data
  BY <1>2 DEF data, RootInv, RootNewest, InTransit
<1>3. ASSUME NEW c \in Clients, Insert(c) PROVE RootInv'
  BY <1>3 DEF Insert, RootInv, RootNewest, InTransit
<1>4. ASSUME NEW t \in Threads, pending[t] = {}, Drain(t) PROVE RootInv'
  <2>1. \A u \in Threads : pending'[u] = IF u = t THEN write_buf ELSE pending[u]
    BY <1>4, <1>1 DEF Drain, ControlInv, TypeOK
  <2>2. \A u \in Threads : u # t /\ write_buf # {} => pending'[u] = {}
    BY <2>1 DEF OneHolder
  <2>3. InTransit' \subseteq InTransit \/ InTransit' \subseteq write_buf
    BY <2>1, <2>2 DEF InTransit
  <2> QED
    BY <1>1, <1>4, <2>3 DEF Drain, RootInv, RootNewest, WriteBufNewest
<1>5. ASSUME NEW t \in Threads, Merge(t) PROVE RootInv'
  <2>1. \A u \in Threads : pending'[u] = IF u = t THEN {} ELSE pending[u]
    BY <1>1, <1>5 DEF Merge, MergeAndPersist, MergeOnly, MergeAndPush, Handed, ControlInv, TypeOK
  <2>2. InTransit' \subseteq InTransit /\ pending[t] \subseteq InTransit
    BY <2>1 DEF InTransit
  <2>3. pending[t] # {} => InTransit' = {}
    <3>1. \A u \in Threads : pending[t] # {} => pending'[u] = {}
      BY <2>1 DEF OneHolder
    <3> QED
      BY <3>1 DEF InTransit
  <2>4. root' \cup below' = root \cup below \cup pending[t]
    BY <1>5 DEF Merge, MergeAndPersist, MergeOnly, MergeAndPush, Merged
  <2>5. \A e \in InTransit' : \A f \in root' \cup below' : f.seq < e.seq
    BY <2>2, <2>3, <2>4 DEF RootInv
  <2>6. root' = {} \/ (below' = below /\ root' = root \cup pending[t])
    BY <1>5 DEF Merge, MergeAndPersist, MergeOnly, MergeAndPush, Merged
  <2>7. RootNewest'
    BY <2>2, <2>6 DEF RootInv, RootNewest
  <2> QED
    BY <2>5, <2>7 DEF RootInv
<1>6. ASSUME ClosePersist PROVE Merge(CL)
  BY <1>6 DEF ClosePersist, Merge
<1> QED
  BY <1>1, <1>2, <1>3, <1>4, <1>5, <1>6, StepKinds

\* When nobody calls flush(), no client ever is in it and the layers stay in order.
LEMMA RootInductive == ASSUME Flushers = {} PROVE Spec => [](IInv /\ FlushFree /\ RootInv)
<1>1. Init => FlushFree /\ RootInv
  <2> SUFFICES ASSUME Init PROVE FlushFree /\ RootInv
    OBVIOUS
  <2>1. \A t \in Threads : pending[t] = {}
    BY DEF Init
  <2>2. RootInv
    BY <2>1 DEF RootInv, RootNewest, InTransit, Init
  <2>3. FlushFree
    BY ThreadAssumption DEF FlushFree, Init
  <2> QED
    BY <2>2, <2>3
<1>2. IInv /\ FlushFree /\ [Next]_vars => FlushFree'
  BY FlushFreeStep DEF IInv, ControlInv
<1>3. IInv /\ OneHolder /\ OneHolder' /\ RootInv /\ [Next]_vars => RootInv'
  BY RootStep
<1> QED
  BY <1>1, <1>2, <1>3, SoleHolder, Inductive, PTL DEF Spec

\* When nobody calls flush(), the root's buffer is newer than the nodes below it,
\* so get may stop at a hit there.
THEOREM RootIsNewest == ASSUME Flushers = {} PROVE Spec => []RootNewest
<1>1. RootInv => RootNewest
  BY DEF RootInv
<1> QED
  BY <1>1, RootInductive, PTL

-----------------------------------------------------------------------------
(* What a get can miss *)

\* The versions of its key that were written before a get began have left the
\* write buffer when the get goes on to the tree: it did not find any there.
GetInv ==
  \A c \in Clients : pc[c] = "tree" =>
    \A e \in seen[c] : e.key = call[c].key => e \in Drained

\* A get goes on to the tree from its own beginning only, and keeps what it saw.
LEMMA GetMoves ==
  ASSUME ControlInv, [Next]_vars, NEW d \in Clients, pc'[d] = "tree"
  PROVE  \/ pc[d] = "tree" /\ seen'[d] = seen[d] /\ call'[d] = call[d]
         \/ \E k \in Keys : BeginGet(d, k)
<1> DEFINE Goal == \/ pc[d] = "tree" /\ seen'[d] = seen[d] /\ call'[d] = call[d]
                   \/ \E k \in Keys : BeginGet(d, k)
<1> USE ThreadAssumption DEF ControlInv, TypeOK, At, Goto
<1>1. ASSUME NEW c \in Clients, NEW k \in Keys, BeginInsert(c, k) PROVE Goal
  BY <1>1 DEF BeginInsert, Begin
<1>2. ASSUME NEW c \in Clients, NEW k \in Keys, BeginGet(c, k) PROVE Goal
  <2>1. CASE c = d
    BY <1>2, <2>1
  <2>2. CASE c # d
    BY <1>2, <2>2 DEF BeginGet, Begin
  <2> QED
    BY <2>1, <2>2
<1>3. ASSUME NEW c \in Clients, BeginFlush(c) PROVE Goal
  BY <1>3 DEF BeginFlush, Begin
<1>4. ASSUME NEW c \in Clients,
             \/ Insert(c) \/ TestSoftLimit(c) \/ WaitSleep(c) \/ GetFromTree(c)
             \/ FlushDrain(c) \/ FlushPersist(c)
      PROVE  Goal
  BY <1>4 DEF Insert, TestSoftLimit, WaitSleep, GetFromTree, FlushDrain, FlushPersist
<1>5. ASSUME NEW c \in Clients, Signal(c) PROVE Goal
  BY <1>5 DEF Signal, AfterSignal
<1>6. ASSUME NEW c \in Clients, Notify(c) PROVE Goal
  BY <1>6, WakeTypes DEF Notify, notify_one, AfterSignal
<1>7. ASSUME NEW c \in Clients, WaitTest(c) PROVE Goal
  BY <1>7 DEF WaitTest
<1>8. ASSUME FtTest \/ FtSleep \/ FtExit \/ FtStart \/ FtDrain \/ FtMerge \/ FtClear \/ FtDone
      PROVE  Goal
  BY <1>8 DEF FtTest, FtSleep, FtExit, FtStart, FtDrain, FtMerge, FtClear, FtDone
<1>9. ASSUME FtNotify \/ CloseNotify PROVE Goal
  BY <1>9, WakeTypes DEF FtNotify, CloseNotify, notify_all
<1>10. ASSUME BeginClose \/ CloseJoin \/ CloseDrain \/ ClosePersist PROVE Goal
  BY <1>10 DEF BeginClose, CloseJoin, CloseDrain, ClosePersist
<1>11. ASSUME SpuriousWakeup PROVE Goal
  BY <1>11, WakeTypes DEF SpuriousWakeup
<1>12. ASSUME UNCHANGED vars PROVE Goal
  BY <1>12 DEF vars
<1> QED
  BY <1>1, <1>2, <1>3, <1>4, <1>5, <1>6, <1>7, <1>8, <1>9, <1>10, <1>11, <1>12
     DEF Next, ClientStep, FtStep, CloseStep, Terminated

\* Every step preserves GetInv: what left the write buffer never goes back.
LEMMA GetStep == IInv /\ GetInv /\ [Next]_vars => GetInv'
<1> SUFFICES ASSUME IInv, GetInv, [Next]_vars, NEW d \in Clients, pc'[d] = "tree",
                    NEW e \in seen'[d], e.key = call'[d].key
             PROVE  e \in Drained'
  BY DEF GetInv
<1>1. Drained \subseteq Drained'
  BY DrainedGrows
<1>2. CASE pc[d] = "tree" /\ seen'[d] = seen[d] /\ call'[d] = call[d]
  BY <1>1, <1>2 DEF GetInv
<1>3. ASSUME NEW k \in Keys, BeginGet(d, k) PROVE e \in Drained'
  <2>1. /\ \A f \in write_buf : f.key # k
        /\ seen'[d] = written /\ call'[d].key = k
    BY <1>3 DEF BeginGet, Begin, IInv, TypeOK
  <2>2. written \subseteq write_buf \cup Drained
    BY DEF IInv, NoLostWrites, Drained
  <2> QED
    BY <1>1, <2>1, <2>2
<1> QED
  BY <1>2, <1>3, GetMoves DEF IInv, ControlInv

\* A bounded set of numbers has a greatest element.
LEMMA GreatestNumber ==
  ASSUME NEW T, T \subseteq Nat, T # {}, NEW b \in Nat, \A y \in T : y <= b
  PROVE  \E x \in T : \A y \in T : y <= x
<1> DEFINE R == {ss \in Nat \X Nat : ss[1] < ss[2]}
           U == {b - y : y \in T}
<1>1. R = OpToRel(<, Nat)
  BY DEF OpToRel
<1>2. IsWellFoundedOn(R, Nat)
  BY <1>1, NatLessThanWellFounded
<1>3. \A y \in T : b - y \in Nat
  OBVIOUS
<1>4. U \subseteq Nat /\ U # {}
  BY <1>3
<1> HIDE DEF R
<1>5. PICK u \in U : \A v \in U : <<v, u>> \notin R
  <2> HIDE DEF U
  <2> QED
    BY <1>2, <1>4, WFMin
<1>6. \A v \in U : u <= v
  <2>1. \A v, w \in Nat : <<v, w>> \notin R => w <= v
    BY DEF R
  <2> HIDE DEF U
  <2> QED
    BY <1>4, <1>5, <2>1
<1>7. PICK x \in T : u = b - x
  BY <1>5
<1>8. \A y \in T : b - x <= b - y
  BY <1>6, <1>7
<1> QED
  BY <1>8

\* The newest version of a key in a layer is at least as new as any.
LEMMA NewestBounds ==
  ASSUME NEW S, S \subseteq Versions, NEW b \in Nat, \A e \in S : e.seq < b,
         NEW k, \E e \in S : e.key = k
  PROVE  \E e \in S : /\ e.key = k /\ Newest(S, k) = e.seq
                      /\ \A f \in S : f.key = k => f.seq <= e.seq
<1> DEFINE T == {e.seq : e \in {f \in S : f.key = k}}
           P(e) == e.key = k /\ \A f \in S : f.key = k => f.seq <= e.seq
<1>1. T \subseteq Nat /\ T # {} /\ \A n \in T : n <= b
  OBVIOUS
<1>2. PICK n \in T : \A m \in T : m <= n
  BY <1>1, GreatestNumber
<1>3. PICK e \in S : e.key = k /\ e.seq = n
  BY <1>2
<1>4. P(e)
  BY <1>2, <1>3
<1>5. (CHOOSE f \in S : P(f)) \in S /\ P(CHOOSE f \in S : P(f))
  BY <1>4
<1> QED
  BY <1>5 DEF Newest

\* The order of the layers makes the first hit from the root down the newest.
LEMMA TreeAnswers ==
  ASSUME TypeOK, SeqBound, RootNewest, NEW e \in root \cup below
  PROVE  TreeAnswer(e.key) >= e.seq
<1> DEFINE k == e.key
<1>1. /\ root \subseteq Versions /\ \A f \in root : f.seq < seq_
      /\ below \subseteq Versions /\ \A f \in below : f.seq < seq_
      /\ seq_ \in Nat
  BY DEF TypeOK, SeqBound, Held
<1>2. CASE \E f \in root : f.key = k
  <2>1. PICK f \in root : /\ f.key = k /\ Newest(root, k) = f.seq
                          /\ \A g \in root : g.key = k => g.seq <= f.seq
    BY <1>1, <1>2, NewestBounds
  <2>2. f.seq \in Nat \ {0} /\ e.seq \in Nat
    BY <1>1, <2>1
  <2>3. TreeAnswer(k) = f.seq
    BY <2>1, <2>2 DEF TreeAnswer
  <2>4. e.seq <= f.seq
    BY <2>1, <2>2 DEF RootNewest
  <2> QED
    BY <2>2, <2>3, <2>4
<1>3. CASE ~ \E f \in root : f.key = k
  <2>1. e \in below /\ Newest(root, k) = 0
    BY <1>3 DEF Newest
  <2>2. PICK f \in below : /\ f.key = k /\ Newest(below, k) = f.seq
                           /\ \A g \in below : g.key = k => g.seq <= f.seq
    BY <1>1, <2>1, NewestBounds
  <2>3. f.seq \in Nat \ {0} /\ e.seq \in Nat /\ e.seq <= f.seq
    BY <1>1, <2>1, <2>2
  <2> QED
    BY <2>1, <2>2, <2>3 DEF TreeAnswer
<1> QED
  BY <1>2, <1>3

\* When nobody calls flush(), a get misses a version written before it began only
\* while a batch is between the two locks.
THEOREM StaleWindow == ASSUME Flushers = {} PROVE Spec => []StaleOnlyInTransit
<1>1. Init => GetInv
  BY ThreadAssumption DEF Init, GetInv
<1>2. IInv /\ RootInv /\ GetInv => StaleOnlyInTransit
  <2> SUFFICES ASSUME IInv, RootInv, GetInv, InTransit = {},
                      NEW c \in Clients, pc[c] = "tree",
                      NEW e \in seen[c], e.key = call[c].key
               PROVE  TreeAnswer(e.key) >= e.seq
    BY DEF StaleOnlyInTransit, At
  <2>1. e \in root \cup below
    BY DEF GetInv, Drained
  <2> QED
    BY <2>1, TreeAnswers DEF IInv, RootInv
<1> QED
  BY <1>1, <1>2, GetStep, RootInductive, PTL DEF Spec
=============================================================================
