-------------------------- MODULE MCFinalRemoveBatch --------------------------
(* Two jobs and two objects; the bounds of a run are in its cfg.           *)
EXTENDS FinalRemoveBatch

=============================================================================
