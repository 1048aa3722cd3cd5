---------------------------- MODULE VersionStore ----------------------------
(***************************************************************************)
(* What an open GravTree promises of its writes, without threads, buffers  *)
(* or nodes: a set of versions that only grows, a part of which is         *)
(* durable.  A new version is newer than all the others.  Versions become  *)
(* durable at any time, and all of them when the store is closed.          *)
(***************************************************************************)
EXTENDS Integers

VARIABLES
  store,    \* the versions held, records with a key and a seq
  durable,  \* those that are on disk
  open

Init == store = {} /\ durable = {} /\ open = TRUE

Put ==
  /\ open
  /\ \E e \in store' \ store :
       /\ store' = store \cup {e}
       /\ \A f \in store : f.seq < e.seq
  /\ UNCHANGED <<durable, open>>

Sync ==
  /\ durable \subseteq durable' /\ durable' \subseteq store
  /\ UNCHANGED <<store, open>>

Close ==
  /\ open /\ open' = FALSE
  /\ durable' = store
  /\ UNCHANGED store

Next == Put \/ Sync \/ Close

Spec == Init /\ [][Next]_<<store, durable, open>>
=============================================================================
