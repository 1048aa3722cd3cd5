---------------------------- MODULE ThreadClaims ----------------------------
(***************************************************************************)
(* What the comments and the paper say of GravTree's threads and the code  *)
(* does not do.  Every formula here is violated by a run of its own.       *)
(***************************************************************************)
EXTENDS FlushThread

\* tree.h:60: "external concurrent writers are serialised".  flush() in one
\* thread can drain an older batch and merge it after the flush thread has
\* pushed a newer one down; from then on lookups answer with the older version.
SettledLookup ==
  write_buf = {} /\ InTransit = {} =>
    \A k \in Keys : TreeAnswer(k) = Newest(written, k)

\* tree.cpp:20: "Stop background thread first, then flush remaining data."  The
\* flush thread can miss the notification and the destructor waits for ever.
CloseReturns == At(CL, "cl_notify") ~> At(CL, "closed")
=============================================================================
