-------------------------- MODULE MCHoldingPipeline --------------------------
(***************************************************************************)
(* Instances of HoldingPipeline for TLC.                                   *)
(***************************************************************************)
EXTENDS HoldingPipeline, TLC

CONSTANTS f1, f2, x1, x2, x3

\* The objects are interchangeable: the runs that use it check no liveness.
ObjectSymmetry == Permutations(Objects)

AllPcs == Pcs \ {"idle"}

=============================================================================
