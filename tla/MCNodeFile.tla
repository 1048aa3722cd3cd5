----------------------------- MODULE MCNodeFile -----------------------------
(* A small instance of NodeFile for TLC. *)
EXTENDS NodeFile

\* Words below and above the size of the small filters and of a sum that
\* overflows a word.
SomePairs == {<<1, 3>>, <<14, 5>>}

\* The narrowest range, which an entry can lie below, within or above.
SomeRanges == {<<2, 2>>}
=============================================================================
