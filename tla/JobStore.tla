------------------------------ MODULE JobStore ------------------------------
(***************************************************************************)
(* The in-memory table of scan jobs (hangar-jobs): the status record of    *)
(* each job, behind the jobs mutex, and its cancellation token, behind a   *)
(* mutex of its own.  Every operator below is one call of the store; a     *)
(* call that takes the two locks in turn is two operators.                 *)
(*                                                                         *)
(* The counters, phases, timings and messages of a record are left out.    *)
(* What their updates do to a record that is kept is nothing more; what    *)
(* they do for a job whose record was pruned is modelled.                  *)
(***************************************************************************)
EXTENDS Naturals, FiniteSets

CONSTANTS Roots,        \* scan roots
          MaxJobs,      \* bound: job ids handed out in a session
          MaxTerminal   \* MAX_TERMINAL_JOBS

ASSUME JobStoreAssumption == MaxJobs \in Nat /\ MaxTerminal \in Nat

VARIABLES jobs,     \* job id -> status record
          tokens    \* job id -> cancellation token

storeVars == <<jobs, tokens>>

Jobs == 1..MaxJobs

\* "unused" and "forgotten" are ids without a record: not handed out yet,
\* and pruned.  "unknown" is the state of unknown_status.
NoRecord == {"unused", "forgotten"}
OwningStates == {"running", "cancelling"}
JobStates == NoRecord \cup OwningStates
               \cup {"cancelled", "failed", "completed", "partial", "unknown"}
Tokens == {"absent", "clear", "set"}

JobStoreTypeOK ==
    /\ jobs \in [Jobs -> [state : JobStates, roots : SUBSET Roots]]
    /\ tokens \in [Jobs -> Tokens]

JobStoreInit ==
    /\ jobs = [j \in Jobs |-> [state |-> "unused", roots |-> {}]]
    /\ tokens = [j \in Jobs |-> "absent"]

(***************************************************************************)
(* Queries, each under one lock.                                           *)
(***************************************************************************)
Owning(j) == jobs[j].state \in OwningStates

HasRunningJobFor(rs) == \E j \in Jobs : Owning(j) /\ jobs[j].roots \cap rs # {}
HasAnyRunningJob == \E j \in Jobs : Owning(j)
IsCancelled(j) == tokens[j] = "set"

IsNextJob(j) ==
    /\ jobs[j].state = "unused"
    /\ \A k \in Jobs : k < j => jobs[k].state # "unused"

(***************************************************************************)
(* prune_terminal_jobs keeps every running record and the MaxTerminal      *)
(* newest of the others; a cancelling record counts among the others.      *)
(* Which ones are the newest is not tracked: any MaxTerminal may be.       *)
(***************************************************************************)
Terminal == {j \in Jobs : jobs[j].state \notin NoRecord \cup {"running"}}

Prunable ==
    IF Cardinality(Terminal) <= MaxTerminal THEN {{}}
    ELSE {D \in SUBSET Terminal : Cardinality(Terminal \ D) = MaxTerminal}

\* The table once the records of D are gone.
Without(D) ==
    [j \in Jobs |-> IF j \in D THEN [state |-> "forgotten", roots |-> {}]
                               ELSE jobs[j]]

\* Mutant of Admit: the check of the roots is made by the caller, before.
AdmitUnchecked(j, rs) ==
    /\ IsNextJob(j)
    /\ \E D \in Prunable :
         jobs' = [Without(D) EXCEPT ![j] = [state |-> "running", roots |-> rs]]
    /\ tokens' = [tokens EXCEPT ![j] = "clear"]

\* Mutant of Admit: the record is published without its token.
AdmitTokenless(j, rs) ==
    /\ IsNextJob(j)
    /\ ~HasRunningJobFor(rs)
    /\ \E D \in Prunable :
         jobs' = [Without(D) EXCEPT ![j] = [state |-> "running", roots |-> rs]]
    /\ UNCHANGED tokens

(***************************************************************************)
(* admit_running_for_roots_with_estimate: the check that no running or     *)
(* cancelling job owns one of the roots, the pruning, the token and the    *)
(* record are one critical section of the jobs lock.  The token goes in    *)
(* first, but until the lock is released nobody has learnt the new id, so  *)
(* no call on it falls between the two.                                    *)
(***************************************************************************)
Admit(j, rs) ==
    /\ IsNextJob(j)
    /\ ~HasRunningJobFor(rs)
    /\ \E D \in Prunable :
         jobs' = [Without(D) EXCEPT ![j] = [state |-> "running", roots |-> rs]]
    /\ tokens' = [tokens EXCEPT ![j] = "clear"]

(***************************************************************************)
(* complete, complete_partial, cancel and fail: overwrite the state, keep  *)
(* the roots, drop the token, all under the jobs lock.                     *)
(***************************************************************************)
Close(j, state) ==
    /\ jobs' = [jobs EXCEPT ![j].state = state]
    /\ tokens' = [tokens EXCEPT ![j] = "absent"]

(***************************************************************************)
(* Reports of a worker.  Each creates the record again if it is missing,   *)
(* without roots: set_worker_count and add_timing leave it unknown,        *)
(* update_progress, update_estimation, update_phase and set_estimate turn  *)
(* it into one that is running.  They leave a record that is kept in its   *)
(* state: they return early unless it is running or unknown.               *)
(***************************************************************************)
RecordTiming(j) ==
    /\ jobs[j].state = "forgotten"
    /\ jobs' = [jobs EXCEPT ![j].state = "unknown"]
    /\ UNCHANGED tokens

ReportProgress(j) ==
    /\ jobs[j].state \in {"forgotten", "unknown"}
    /\ jobs' = [jobs EXCEPT ![j].state = "running"]
    /\ UNCHANGED tokens

(***************************************************************************)
(* request_cancel takes the two locks one after the other: it sets the     *)
(* token if there is one, and then stores "cancelling" whatever the state  *)
(* has become meanwhile, in a new record without roots if there is none.   *)
(***************************************************************************)
RequestCancelToken(j) ==
    /\ tokens' = [tokens EXCEPT ![j] = IF @ = "absent" THEN @ ELSE "set"]
    /\ UNCHANGED jobs

RequestCancelStatus(j) ==
    /\ jobs' = [jobs EXCEPT ![j].state = "cancelling"]
    /\ UNCHANGED tokens

=============================================================================
