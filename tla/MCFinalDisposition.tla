------------------------- MODULE MCFinalDisposition --------------------------
(* A group of two members; the bounds of a run are in its cfg.             *)
EXTENDS FinalDisposition

=============================================================================
