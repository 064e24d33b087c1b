-------------------------- MODULE MCEditSnapshots --------------------------
(***************************************************************************)
(* Instances of EditSnapshots for TLC.                                     *)
(***************************************************************************)
EXTENDS EditSnapshots, TLC

CONSTANTS f1, f2, t1, t2, t3, s1, c1, c2

\* Texts and threads are interchangeable, and no liveness is checked.
TextSymmetry == Permutations(Texts) \cup Permutations(Calls)

=============================================================================
