--------------------------- MODULE MCFlushThread ---------------------------
(* Small instances of FlushThread for TLC. *)
EXTENDS FlushThread, TLC

\* Clients that all call the same operations are interchangeable.
ClientSymmetry == Permutations(Clients)
=============================================================================
