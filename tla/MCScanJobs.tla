----------------------------- MODULE MCScanJobs -----------------------------
(***************************************************************************)
(* Instances of ScanJobs for TLC.                                          *)
(***************************************************************************)
EXTENDS ScanJobs, TLC

CONSTANTS r1, r2, a, b, x, y

\* What an item may hold is interchangeable, and so are the items.  The runs
\* that check liveness do not use this.
Symmetry == Permutations(Contents) \cup Permutations(Items)

\* For the runs over two roots: one of them holds its items, the other is
\* empty.
SetsInit ==
    /\ Init
    /\ world = [r \in Roots |-> [i \in Items |-> IF r = r1 THEN x ELSE Gone]]

SetsSpec == SetsInit /\ FairSpec

=============================================================================
