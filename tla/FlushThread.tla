---------------------------- MODULE FlushThread ----------------------------
(***************************************************************************)
(* The threads of an open GravTree (tree.cpp): clients calling insert, get *)
(* and flush, the background flush thread, and the destructor.  They share *)
(* the write buffer (write_buf_mu_), the node tree (cache_mu_), the atomic *)
(* flags flush_requested_, flush_in_progress_ and stop_, and one condition *)
(* variable with its mutex flush_cv_mu_.                                   *)
(*                                                                         *)
(* A critical section of write_buf_mu_ or cache_mu_ is one step; so is     *)
(* every access to an atomic flag, every unlocked read of the write        *)
(* buffer's size and every notification.  The flags are stored and the     *)
(* condition variable is notified without flush_cv_mu_, so a notification  *)
(* can fall between a waiter's test of its condition and its going to      *)
(* sleep: these are two steps, during which the waiter holds the mutex.    *)
(*                                                                         *)
(* The tree is two layers, the root's buffer and the nodes below it (see   *)
(* GravTree for what happens in them).  A layer is the set of versions it  *)
(* was given: it answers with the newest of a key, so the superseded ones  *)
(* that the code drops at the next rewrite make no difference.  A version  *)
(* is a key with a sequence number; a remove is an insert of a tombstone.  *)
(***************************************************************************)
EXTENDS Integers, FiniteSets

CONSTANTS
  Clients,    \* the threads using the tree
  Flushers,   \* those of them that call flush()
  FT, CL,     \* the flush thread, and the thread running the destructor
  Keys,
  SoftLimit,  \* opts_.buffer_threshold, in entries
  HardLimit,  \* hard_limit(), in entries
  MaxWrites   \* bound: number of inserts

ASSUME ThreadAssumption ==
  /\ Flushers \subseteq Clients
  /\ FT \notin Clients /\ CL \notin Clients /\ FT # CL
  /\ SoftLimit \in Nat /\ HardLimit \in Nat /\ MaxWrites \in Nat

VARIABLES
  write_buf,          \* versions in the skip list
  seq_,               \* next sequence number
  pending,            \* thread -> batch it drained and has not merged yet
  root, below,        \* the layers of the tree
  disk,               \* versions a process opening the directory would find
  flush_requested_, flush_in_progress_, stop_,
  pc,                 \* thread -> what it does next
  call,               \* client -> the call it is in
  written,            \* history: every version inserted
  seen                \* history: client -> versions written before the call it
                      \* is in, if that is a get or a flush()

data == <<write_buf, seq_, pending, root, below, disk, written>>
flags == <<flush_requested_, flush_in_progress_, stop_>>
vars == <<data, flags, pc, call, seen>>

Threads == Clients \cup {FT, CL}
Versions == [key : Keys, seq : Nat \ {0}]
Calls == [op : {"insert", "get"}, key : Keys] \cup {[op |-> "flush"], [op |-> "none"]}

At(t, l) == pc[t] = l
Goto(t, l) == pc' = [pc EXCEPT ![t] = l]

Newest(S, k) ==
  IF \E e \in S : e.key = k
  THEN (CHOOSE e \in S : e.key = k /\ \A f \in S : f.key = k => f.seq <= e.seq).seq
  ELSE 0

-----------------------------------------------------------------------------
(* std::condition_variable flush_cv_ *)

Waiting == {t \in Threads : pc[t] \in {"ft_waiting", "w_waiting"}}

\* Mutant: whoever is notified goes on as a waiting writer.
BadRecheck(l) == "w_check"

\* Where a notified waiter tests its condition again.
Recheck(l) == IF l = "ft_waiting" THEN "ft_check" ELSE "w_check"

\* Nobody holds flush_cv_mu_.
CvMutexFree == \A t \in Threads : pc[t] \notin {"ft_held", "w_held"}

\* notify_one by thread t, which then is at label l: one waiter, if there is
\* any, gets to test its condition again.
notify_one(t, l) ==
  \/ Waiting = {} /\ Goto(t, l)
  \/ \E w \in Waiting : pc' = [pc EXCEPT ![w] = Recheck(@), ![t] = l]

notify_all(t, l) ==
  pc' = [u \in Threads |-> IF u = t THEN l
                           ELSE IF u \in Waiting THEN Recheck(pc[u]) ELSE pc[u]]

SpuriousWakeup ==
  /\ \E w \in Waiting : pc' = [pc EXCEPT ![w] = Recheck(@)]
  /\ UNCHANGED <<data, flags, call, seen>>

-----------------------------------------------------------------------------
(* Draining and merging, as flush(), the flush thread and the destructor do *)

\* Take everything out of the write buffer (one section of write_buf_mu_).
Drain(t) ==
  /\ pending' = [pending EXCEPT ![t] = write_buf]
  /\ write_buf' = {}
  /\ UNCHANGED <<seq_, root, below, disk, written>>

\* Mutant: the batch replaces the root's buffer.
BadMerged(t) == pending[t]

\* The root's buffer once t's batch was pushed back into it.
Merged(t) == root \cup pending[t]

Handed(t) == pending' = [pending EXCEPT ![t] = {}]

\* Mutant: only the new batch is written.
BadMergeAndPersist(t) ==
  /\ Handed(t)
  /\ root' = Merged(t)
  /\ disk' = disk \cup pending[t]
  /\ UNCHANGED <<write_buf, seq_, below, written>>

\* flush() and the destructor: the root, if it holds anything, and the manifest
\* are written; what is below the root is on disk already.
MergeAndPersist(t) ==
  /\ Handed(t)
  /\ root' = Merged(t)
  /\ disk' = disk \cup Merged(t)
  /\ UNCHANGED <<write_buf, seq_, below, written>>

\* The flush thread, root not full: the batch stays in memory.
MergeOnly(t) ==
  /\ Handed(t)
  /\ root' = Merged(t)
  /\ UNCHANGED <<write_buf, seq_, below, disk, written>>

\* Mutant: the root's buffer is pushed down and not cleared.
BadMergeAndPush(t) ==
  /\ Handed(t)
  /\ root' = Merged(t)
  /\ below' = below \cup Merged(t)
  /\ disk' = disk \cup Merged(t)
  /\ UNCHANGED <<write_buf, seq_, written>>

\* The flush thread, root full: everything is pushed down and written.
MergeAndPush(t) ==
  /\ Handed(t)
  /\ root' = {}
  /\ below' = below \cup Merged(t)
  /\ disk' = disk \cup Merged(t)
  /\ UNCHANGED <<write_buf, seq_, written>>

-----------------------------------------------------------------------------
(* Clients *)

\* The caller keeps the object alive: no call begins once the destructor runs.
Begin(c, cl) == At(c, "idle") /\ At(CL, "cl_idle") /\ call' = [call EXCEPT ![c] = cl]

\* The inserts under way that have not taken their sequence number yet.
Inserting == {c \in Clients : /\ call[c].op = "insert"
                              /\ pc[c] \in {"w_check", "w_held", "w_waiting", "insert"}}

\* insert and remove, up to the unlocked test of the hard limit.
BeginInsert(c, k) ==
  /\ seq_ + Cardinality(Inserting) <= MaxWrites
  /\ Begin(c, [op |-> "insert", key |-> k])
  /\ Goto(c, IF Cardinality(write_buf) >= HardLimit THEN "w_check" ELSE "insert")
  /\ UNCHANGED <<data, flags, seen>>

\* Mutant: the sequence number is read and not advanced.
Badnext_seq == seq_

next_seq == seq_ + 1

\* The section of write_buf_mu_ in insert.
Insert(c) ==
  /\ At(c, "insert")
  /\ LET e == [key |-> call[c].key, seq |-> seq_]
     IN  write_buf' = write_buf \cup {e} /\ written' = written \cup {e}
  /\ seq_' = next_seq
  /\ Goto(c, "soft")
  /\ UNCHANGED <<pending, root, below, disk, flags, call, seen>>

\* The unlocked test of the soft limit.
TestSoftLimit(c) ==
  /\ At(c, "soft")
  /\ Goto(c, IF Cardinality(write_buf) >= SoftLimit THEN "signal" ELSE "idle")
  /\ UNCHANGED <<data, flags, call, seen>>

AfterSignal(c) == IF call[c].op = "flush" THEN "w_check" ELSE "idle"

\* signal_flush: exchange, and notify_one only if no request was pending.
Signal(c) ==
  /\ At(c, "signal")
  /\ flush_requested_' = TRUE
  /\ Goto(c, IF flush_requested_ THEN AfterSignal(c) ELSE "notify")
  /\ UNCHANGED <<data, flush_in_progress_, stop_, call, seen>>

Notify(c) ==
  /\ At(c, "notify") /\ notify_one(c, AfterSignal(c))
  /\ UNCHANGED <<data, flags, call, seen>>

\* wait_for_flush_complete: the condition is tested under the mutex; then the
\* wait releases the mutex and goes to sleep in one step.
WaitTest(c) ==
  /\ At(c, "w_check") /\ CvMutexFree
  /\ Goto(c, IF flush_in_progress_ /\ ~stop_ THEN "w_held"
             ELSE IF call[c].op = "flush" THEN "drain" ELSE "insert")
  /\ UNCHANGED <<data, flags, call, seen>>

WaitSleep(c) ==
  /\ At(c, "w_held") /\ Goto(c, "w_waiting")
  /\ UNCHANGED <<data, flags, call, seen>>

BeginFlush(c) ==
  /\ c \in Flushers /\ Begin(c, [op |-> "flush"]) /\ Goto(c, "signal")
  /\ seen' = [seen EXCEPT ![c] = written]
  /\ UNCHANGED <<data, flags>>

FlushDrain(c) ==
  At(c, "drain") /\ Drain(c) /\ Goto(c, "merge") /\ UNCHANGED <<flags, call, seen>>

FlushPersist(c) ==
  /\ At(c, "merge") /\ MergeAndPersist(c) /\ Goto(c, "idle")
  /\ seen' = [seen EXCEPT ![c] = {}]
  /\ UNCHANGED <<flags, call>>

\* get: the write buffer under write_buf_mu_, where a hit ends the call with no
\* other effect, then the tree under cache_mu_.
BeginGet(c, k) ==
  /\ Begin(c, [op |-> "get", key |-> k])
  /\ \A e \in write_buf : e.key # k
  /\ Goto(c, "tree") /\ seen' = [seen EXCEPT ![c] = written]
  /\ UNCHANGED <<data, flags>>

\* What the tree answers: the root's buffer comes before the nodes below.
TreeAnswer(k) == IF Newest(root, k) # 0 THEN Newest(root, k) ELSE Newest(below, k)

GetFromTree(c) ==
  /\ At(c, "tree") /\ Goto(c, "idle") /\ seen' = [seen EXCEPT ![c] = {}]
  /\ UNCHANGED <<data, flags, call>>

ClientStep(c) ==
  \/ Insert(c) \/ TestSoftLimit(c) \/ Signal(c) \/ Notify(c) \/ WaitTest(c)
  \/ WaitSleep(c) \/ FlushDrain(c) \/ FlushPersist(c) \/ GetFromTree(c)

-----------------------------------------------------------------------------
(* flush_thread_fn *)

FtTest ==
  /\ At(FT, "ft_check") /\ CvMutexFree
  /\ Goto(FT, IF flush_requested_ \/ stop_ THEN "ft_woken" ELSE "ft_held")
  /\ UNCHANGED <<data, flags, call, seen>>

FtSleep ==
  At(FT, "ft_held") /\ Goto(FT, "ft_waiting") /\ UNCHANGED <<data, flags, call, seen>>

FtExit ==
  At(FT, "ft_woken") /\ stop_ /\ Goto(FT, "exit") /\ UNCHANGED <<data, flags, call, seen>>

\* Mutant: the cycle is not announced.
BadAnnounce == flush_in_progress_' = FALSE

Announce == flush_in_progress_' = TRUE

FtStart ==
  /\ At(FT, "ft_woken") /\ ~stop_ /\ Announce /\ Goto(FT, "ft_drain")
  /\ UNCHANGED <<data, flush_requested_, stop_, call, seen>>

FtDrain ==
  At(FT, "ft_drain") /\ Drain(FT) /\ Goto(FT, "ft_merge") /\ UNCHANGED <<flags, call, seen>>

\* The section of cache_mu_: whether the root is full depends on sizes that this
\* module does not follow.
FtMerge ==
  /\ At(FT, "ft_merge")
  /\ MergeOnly(FT) \/ MergeAndPush(FT)
  /\ Goto(FT, "ft_clear")
  /\ UNCHANGED <<flags, call, seen>>

FtClear ==
  /\ At(FT, "ft_clear") /\ flush_requested_' = FALSE /\ Goto(FT, "ft_done")
  /\ UNCHANGED <<data, flush_in_progress_, stop_, call, seen>>

\* Mutant: flush_in_progress_ stays set.
BadConclude == flush_in_progress_' = flush_in_progress_

Conclude == flush_in_progress_' = FALSE

FtDone ==
  /\ At(FT, "ft_done") /\ Conclude /\ Goto(FT, "ft_notify")
  /\ UNCHANGED <<data, flush_requested_, stop_, call, seen>>

FtNotify ==
  At(FT, "ft_notify") /\ notify_all(FT, "ft_check") /\ UNCHANGED <<data, flags, call, seen>>

FtStep ==
  \/ FtTest \/ FtSleep \/ FtExit \/ FtStart \/ FtDrain \/ FtMerge
  \/ FtClear \/ FtDone \/ FtNotify

-----------------------------------------------------------------------------
(* ~GravTree *)

BeginClose ==
  /\ At(CL, "cl_idle") /\ \A c \in Clients : At(c, "idle")
  /\ stop_' = TRUE /\ Goto(CL, "cl_notify")
  /\ UNCHANGED <<data, flush_requested_, flush_in_progress_, call, seen>>

CloseNotify ==
  At(CL, "cl_notify") /\ notify_all(CL, "cl_join") /\ UNCHANGED <<data, flags, call, seen>>

\* Mutant: the flush thread is not waited for.
BadJoined == TRUE

Joined == At(FT, "exit")

CloseJoin ==
  /\ At(CL, "cl_join") /\ Joined /\ Goto(CL, "cl_drain")
  /\ UNCHANGED <<data, flags, call, seen>>

CloseDrain ==
  At(CL, "cl_drain") /\ Drain(CL) /\ Goto(CL, "cl_merge") /\ UNCHANGED <<flags, call, seen>>

ClosePersist ==
  /\ At(CL, "cl_merge") /\ MergeAndPersist(CL) /\ Goto(CL, "closed")
  /\ UNCHANGED <<flags, call, seen>>

CloseStep == CloseNotify \/ CloseJoin \/ CloseDrain \/ ClosePersist

\* The object is gone; nothing happens any more.
Terminated == At(CL, "closed") /\ UNCHANGED vars

-----------------------------------------------------------------------------
Init ==
  /\ write_buf = {} /\ root = {} /\ below = {} /\ disk = {} /\ written = {}
  /\ seq_ = 1
  /\ pending = [t \in Threads |-> {}]
  /\ flush_requested_ = FALSE /\ flush_in_progress_ = FALSE /\ stop_ = FALSE
  /\ pc = [t \in Threads |-> IF t = FT THEN "ft_check"
                             ELSE IF t = CL THEN "cl_idle" ELSE "idle"]
  /\ call = [c \in Clients |-> [op |-> "none"]]
  /\ seen = [c \in Clients |-> {}]

Next ==
  \/ \E c \in Clients :
       \/ \E k \in Keys : BeginInsert(c, k) \/ BeginGet(c, k)
       \/ BeginFlush(c)
       \/ ClientStep(c)
  \/ FtStep
  \/ BeginClose \/ CloseStep \/ Terminated
  \/ SpuriousWakeup

Spec == Init /\ [][Next]_vars

\* Every thread that can run does; nothing makes a waiter wake up unnotified, a
\* client call again or the destructor run.
Fairness ==
  /\ \A c \in Clients : WF_vars(ClientStep(c))
  /\ WF_vars(FtStep) /\ WF_vars(CloseStep)

FairSpec == Spec /\ Fairness

-----------------------------------------------------------------------------
(* Properties *)

ClientLabels == {"idle", "insert", "soft", "signal", "notify", "w_check", "w_held",
                 "w_waiting", "drain", "merge", "tree"}
FtLabels == {"ft_check", "ft_held", "ft_waiting", "ft_woken", "ft_drain", "ft_merge",
             "ft_clear", "ft_done", "ft_notify", "exit"}
ClLabels == {"cl_idle", "cl_notify", "cl_join", "cl_drain", "cl_merge", "closed"}

\* Type invariant; every thread is at one of its own labels.
TypeOK ==
  /\ write_buf \subseteq Versions /\ root \subseteq Versions
  /\ below \subseteq Versions /\ disk \subseteq Versions /\ written \subseteq Versions
  /\ seq_ \in Nat \ {0}
  /\ pending \in [Threads -> SUBSET Versions]
  /\ flush_requested_ \in BOOLEAN /\ flush_in_progress_ \in BOOLEAN /\ stop_ \in BOOLEAN
  /\ pc \in [Threads -> ClientLabels \cup FtLabels \cup ClLabels]
  /\ \A c \in Clients : pc[c] \in ClientLabels
  /\ pc[FT] \in FtLabels /\ pc[CL] \in ClLabels
  /\ call \in [Clients -> Calls]
  /\ seen \in [Clients -> SUBSET Versions]

\* The versions drained by some thread and not merged yet.
InTransit == UNION {pending[t] : t \in Threads}

\* No write is lost between the locks: whatever drains, merges and pushes are
\* under way, every version inserted is in the write buffer, in a drained batch
\* or in the tree (flush_thread_fn, flush and ~GravTree release write_buf_mu_
\* before they take cache_mu_).
NoLostWrites == written \subseteq write_buf \cup InTransit \cup root \cup below

\* The write buffer is newer than everything that left it, so that get may stop
\* at a hit there: sequence numbers are given out under write_buf_mu_ and a drain
\* takes the whole buffer.
WriteBufNewest ==
  \A e \in write_buf : \A f \in InTransit \cup root \cup below : f.seq < e.seq

\* The root's buffer is newer than the nodes below it, so that get may stop at a
\* hit there, provided the flush thread is the only one to drain (nobody calls
\* flush()).
RootNewest == \A e \in root : \A f \in below : f.seq < e.seq

\* A get misses a version written before it began only while some thread holds a
\* batch between the two locks; once none does, the first hit from the root down
\* is at least as new (if nobody calls flush()).
StaleOnlyInTransit ==
  InTransit = {} =>
    \A c \in Clients : At(c, "tree") =>
      \A e \in seen[c] : e.key = call[c].key => TreeAnswer(e.key) >= e.seq

\* A flush() that returns has made durable all that was written before it was
\* called, except what other threads have drained and not merged (it may return
\* while the flush thread holds a batch).
FlushReaches ==
  [][\A c \in Clients : FlushPersist(c) => seen[c] \subseteq disk' \cup InTransit']_vars

\* Whoever holds a batch in transit other than a caller of flush() is the flush
\* thread with flush_in_progress_ set, which wait_for_flush_complete tests, or
\* the destructor after the flush thread has ended.
BatchAnnounced ==
  /\ pending[FT] # {} => flush_in_progress_
  /\ pending[CL] # {} => pc[FT] = "exit"

\* When the destructor returns everything ever written is on disk: it drains
\* after the last client call and the join, so nobody holds a batch any more.
\* Like all of this module it is about calls that do not throw: after an I/O error
\* the destructor drops what it has drained (tree.cpp:47; Unwind in GravTree).
ClosedDurable == pc[CL] = "closed" => written \subseteq disk

\* The abstract store this implements: all the versions in the write buffer, in
\* transit and in the tree, with what is on disk as its durable part.
Held == write_buf \cup InTransit \cup root \cup below
Store == INSTANCE VersionStore WITH store <- Held, durable <- disk,
                                    open <- pc[CL] # "closed"

\* Refinement: to a user, drains, merges, pushes and wakeups of any number of
\* threads add up to a store that takes ever newer versions, loses none, makes
\* them durable in its own time, and is durable as a whole once closed.
ImplementsStore == Store!Spec

\* A cycle of the flush thread ends, whatever the clients do.
CycleEnds == flush_in_progress_ ~> ~flush_in_progress_
=============================================================================
