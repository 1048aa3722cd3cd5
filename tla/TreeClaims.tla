---------------------------- MODULE TreeClaims ----------------------------
(***************************************************************************)
(* What the comments and the tests of GravTree say of the tree and the     *)
(* code does not do.  Every formula here is violated by a run of its own.  *)
(***************************************************************************)
EXTENDS GravTree

\* tests/test_tree.cpp:46 (UpdateOverwritesValue): a get returns the last value
\* written, and nothing says that flushes in between may matter.  split_leaf cuts a root buffer holding two versions of a key between them, and find_path
\* goes to the right leaf, which has the older one.
GetSeesNewest ==
  Idle /\ (\A id \in Reach : Readable(id)) =>
    \A k \in Keys : get(k) = IF latest[k].del THEN NoValue ELSE latest[k].val

\* tree.cpp:385: do_flush takes a snapshot of its children because "split/flush
\* may modify the parent's child list".  It keeps the id of the parent, which
\* the split of a first child can invalidate: the split of a second child then
\* throws half way and leaves a child pointer to a node that is gone.
NoDanglingChild ==
  status = "open" /\ todo = <<>> => \A id \in Reach : Readable(id)
=============================================================================
