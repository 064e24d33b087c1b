------------------------- MODULE DispositionPromise --------------------------
(***************************************************************************)
(* What the permanent removal of a group of held objects promises, without *)
(* journal rows, guardian processes or crashes: an object disappears only  *)
(* while the removal claims it, the claim ends as a deletion only when the *)
(* object is gone and as a roll-back only when it is there, and neither    *)
(* verdict is ever taken back.                                             *)
(***************************************************************************)
CONSTANT Items

VARIABLES claim, there

Claims == {"held", "deleting", "deleted", "returned"}

Init ==
    /\ claim = [i \in Items |-> "held"]
    /\ there = [i \in Items |-> TRUE]

\* One transaction claims the whole group.
ClaimAll ==
    /\ \A i \in Items : claim[i] = "held"
    /\ claim' = [i \in Items |-> "deleting"]
    /\ UNCHANGED there

Vanish(S) ==
    /\ S # {} /\ \A i \in S : claim[i] = "deleting" /\ there[i]
    /\ there' = [i \in Items |-> there[i] /\ i \notin S]
    /\ UNCHANGED claim

Confirm(i) ==
    /\ claim[i] = "deleting" /\ ~there[i]
    /\ claim' = [claim EXCEPT ![i] = "deleted"]
    /\ UNCHANGED there

Return(i) ==
    /\ claim[i] = "deleting" /\ there[i]
    /\ claim' = [claim EXCEPT ![i] = "returned"]
    /\ UNCHANGED there

Next ==
    \/ ClaimAll
    \/ \E S \in SUBSET Items : Vanish(S)
    \/ \E i \in Items : Confirm(i) \/ Return(i)

Spec == Init /\ [][Next]_<<claim, there>>

=============================================================================
