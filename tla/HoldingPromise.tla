--------------------------- MODULE HoldingPromise ----------------------------
(***************************************************************************)
(* What the holding area promises, without journal rows, crashes or        *)
(* recovery: each object of the disk is with the user, held (in the        *)
(* holding area and listed for restore), or in the hands of one unfinished *)
(* operation.  An object enters and leaves the holding area through the    *)
(* third place only, and none is ever in the holding area without being    *)
(* listed.                                                                 *)
(***************************************************************************)
CONSTANT Objects

VARIABLE place

Places == {"absent", "user", "moving", "held"}

Init == place \in [Objects -> {"absent", "user"}]

Appear(x) ==
    /\ place[x] = "absent"
    /\ place' = [place EXCEPT ![x] = "user"]

TakeUp(x) ==
    /\ place[x] \in {"user", "held"}
    /\ place' = [place EXCEPT ![x] = "moving"]

\* An operation lets go of some of its objects, one way or the other.
Settle(S) ==
    /\ S # {} /\ \A x \in S : place[x] = "moving"
    /\ \E to \in [S -> {"user", "held"}] :
         place' = [x \in Objects |-> IF x \in S THEN to[x] ELSE place[x]]

Next ==
    \/ \E x \in Objects : Appear(x) \/ TakeUp(x)
    \/ \E S \in SUBSET Objects : Settle(S)

Spec == Init /\ [][Next]_place

=============================================================================
