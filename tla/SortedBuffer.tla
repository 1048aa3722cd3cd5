---------------------------- MODULE SortedBuffer ----------------------------
(***************************************************************************)
(* What the rest of GravTree takes the write buffer to be: a sequence      *)
(* sorted by Entry::operator<, into which entries are put one by one and   *)
(* which is emptied as a whole.                                            *)
(***************************************************************************)
EXTENDS Entries

VARIABLE buf

Init == buf = <<>>

Put == \E e \in ToSet(buf') : buf' = skiplist_insert(buf, e)

Empty == buf' = <<>>

Next == Put \/ Empty

Spec == Init /\ [][Next]_buf
=============================================================================
