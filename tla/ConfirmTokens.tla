---------------------------- MODULE ConfirmTokens -----------------------------
(***************************************************************************)
(* ConfirmTokenStore: the session's confirmation grants, random, short-    *)
(* lived, single-use and bound to an action and, for a permanent removal,  *)
(* to what the owner reviewed.  The store is shared by the grants that     *)
(* enter mutation mode and those that remove for good.                     *)
(***************************************************************************)
EXTENDS Naturals, FiniteSets

CONSTANTS Ttl,             \* ticks a grant lasts (DEFAULT_TTL)
          MaxOutstanding,  \* capacity of the store (DEFAULT_MAX_OUTSTANDING)
          MaxIssued,       \* bound: grants issued in a behaviour
          MaxNow           \* bound: ticks of the clock

ASSUME TokenAssumption ==
    /\ Ttl \in Nat \ {0} /\ MaxOutstanding \in Nat \ {0}
    /\ MaxIssued \in Nat /\ MaxNow \in Nat

VARIABLES now, tokens, issued

store == <<now, tokens, issued>>

GrantActions == {"enter", "remove"}
NoBinding == [preview |-> 0, selected |-> {}]

Grants(bindings) ==
    [id : 1..MaxIssued, action : GrantActions, binding : bindings,
     expires : 0..(MaxNow + Ttl)]

StoreInit == now = 0 /\ tokens = {} /\ issued = 0

\* Nothing is persisted: a new process starts with an empty store.
StoreLost == tokens' = {} /\ UNCHANGED <<now, issued>>

Tick ==
    /\ now < MaxNow /\ now' = now + 1
    /\ UNCHANGED <<tokens, issued>>

\* Every call first drops what has expired.
Outstanding == {t \in tokens : t.expires > now}

\* Mutant of Expiry: the life of a grant is counted twice.
ExpiryLate == now + Ttl + Ttl
Expiry == now + Ttl

\* 32 random bytes: no two grants share an id.
Issue(action, binding) ==
    /\ issued < MaxIssued
    /\ UNCHANGED now
    /\ \/ /\ Cardinality(Outstanding) < MaxOutstanding
          /\ tokens' = Outstanding \cup
                {[id |-> issued + 1, action |-> action, binding |-> binding,
                  expires |-> Expiry]}
          /\ issued' = issued + 1
       \/ /\ Cardinality(Outstanding) >= MaxOutstanding
          /\ tokens' = Outstanding
          /\ UNCHANGED issued

\* The grants a call with this id, action and binding is good for.
Matching(id, action, binding) ==
    {t \in Outstanding : t.id = id /\ t.action = action /\ t.binding = binding}

\* A match uses the grant up; a grant that does not match stays.
Remaining(id, action, binding) == Outstanding \ Matching(id, action, binding)

Consume(id, action, binding) ==
    /\ tokens' = Remaining(id, action, binding)
    /\ UNCHANGED <<now, issued>>

=============================================================================
