----------------------------- MODULE MCGravTree -----------------------------
(* Small instances of GravTree for TLC. *)
EXTENDS GravTree
=============================================================================
