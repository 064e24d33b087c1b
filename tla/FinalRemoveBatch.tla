-------------------------- MODULE FinalRemoveBatch ----------------------------
(***************************************************************************)
(* Permanent removal from the review to the verdict: the owner's switch,   *)
(* the preview and the grant bound to it, the one job that may run, the    *)
(* worker that archives every object through the elevated helper before it *)
(* disposes of it, chunk by chunk, the ways to stop it, and the recovery   *)
(* of a batch that died.  How one object is disposed of is abstracted to   *)
(* the steps of DispositionPromise, which FinalDisposition implements.     *)
(***************************************************************************)
EXTENDS ConfirmTokens

CONSTANTS NItems,       \* held objects, in the order a batch takes them
          Archived,     \* those an earlier batch archived and left in holding
          Selections,   \* bound: what the owner selects of a review
          ChunkSize,    \* objects the helper is given at a time
          ClaimParses,  \* whether SQLite accepts the statement of the claim:
                        \* FALSE of this source, whose column list is not closed
          MaxPreviews,  \* bound: previews built
          MaxJobs,      \* bound: jobs started
          Kinds,        \* what may happen besides the plain way to a verdict
          MaxEvents     \* bound: how often it happens in a behaviour

\* Requests, ends of the process, and calls that fail.
EventKinds == {"tick", "enter", "restore", "stop", "disable", "enable", "crash",
               "spawn", "db", "preflight", "uac", "open", "helper", "capture",
               "scratch", "rename", "observer", "profile", "claim", "dispose",
               "probe"}

ASSUME BatchAssumption ==
    /\ NItems \in Nat \ {0} /\ Archived \subseteq 1..NItems
    /\ Selections \subseteq SUBSET (1..NItems)
    /\ ChunkSize \in Nat \ {0} /\ ClaimParses \in BOOLEAN
    /\ MaxPreviews \in Nat /\ MaxJobs \in Nat
    /\ Kinds \subseteq EventKinds /\ MaxEvents \in Nat

Items == 1..NItems
Previews == 1..MaxPreviews
Jobs == 1..MaxJobs

VARIABLES
    enabled, latch, disabling,                        \* the owner's switch
    entry, present,                                   \* the held objects
    archiveRow, final, partial,                       \* their archives
    preview,                                          \* the reviews
    job, stop, request, spawned, begun,               \* the job store
    batch, bitem, phase, proof, linked, opItem,       \* the batch rows
    pc, wjob, cur, chunk, latched, outcome,           \* the worker
    events

switch == <<enabled, latch, disabling>>
held == <<entry, present>>
archives == <<archiveRow, final, partial>>
jobs == <<job, stop, request, spawned, begun>>
items == <<bitem, phase, proof, linked, opItem>>
work == <<pc, wjob, cur, chunk, latched, outcome>>
vars == <<store, switch, held, archives, preview, jobs, batch, items, work, events>>

ItemStates == {"none", "planned", "ready", "deleting", "interrupted",
               "deleted", "blocked"}
Intents == {"archive_path_intent", "archive_verify_intent"}
Phases == Intents \cup
    {"none", "preflight", "archive_container_bound", "archive_proof_persisted",
     "archive_ready", "archive_partial_cleaned", "archive_recovery_pending",
     "archive_recovery_closed", "scratch_cleanup_pending",
     "parent_disposition", "finished", "blocked"}
Closed == {"completed", "partial", "cancelled", "failed"}
JobResults == Closed \cup {"interrupted", "error"}
WorkerPcs == {"consume", "revalidate", "preflight", "layout", "uac",
              "materialize", "commit", "promote", "rename", "link",
              "boundary", "claim", "dispose", "record", "next_chunk",
              "terminalize", "finalize"}
Pcs == WorkerPcs \cup {"idle", "recover", "recover_clean", "recover_block",
                   "recover_finish"}
Bindings == [preview : Previews, selected : Selections]
NoRequest == [token |-> 0, binding |-> NoBinding]

TypeOK ==
    /\ now \in 0..MaxNow /\ issued \in 0..MaxIssued
    /\ tokens \subseteq Grants(Bindings \cup {NoBinding})
    /\ enabled \in BOOLEAN /\ latch \in BOOLEAN /\ disabling \in BOOLEAN
    /\ entry \in [Items -> {"quarantined", "deleting", "permanently_deleted",
                            "restored"}]
    /\ present \in [Items -> BOOLEAN]
    /\ archiveRow \in [Items -> BOOLEAN] /\ final \in [Items -> BOOLEAN]
    /\ partial \in [Jobs -> [Items -> {"none", "armed", "plain"}]]
    /\ preview \in [Previews -> [built : BOOLEAN, expires : 0..(MaxNow + Ttl),
                                 rows : [Items -> {"out", "held", "archived"}],
                                 consumed : BOOLEAN]]
    /\ job \in [Jobs -> {"none", "created", "begun", "lost"} \cup JobResults]
    /\ stop \in [Jobs -> BOOLEAN] /\ spawned \subseteq Jobs
    /\ request \in [Jobs -> [token : 0..MaxIssued,
                             binding : Bindings \cup {NoBinding}]]
    /\ begun \in {0} \cup Jobs /\ wjob \in {0} \cup Jobs
    /\ batch \in [Jobs -> Closed \cup {"none", "waiting_for_uac",
                                       "parent_disposition", "interrupted"}]
    /\ bitem \in [Jobs -> [Items -> ItemStates]]
    /\ phase \in [Jobs -> [Items -> Phases]]
    /\ proof \in [Jobs -> [Items -> BOOLEAN]]
    /\ linked \in [Jobs -> [Items -> BOOLEAN]]
    /\ opItem \in [Jobs -> [Items -> {"none", "pending", "skipped", "deleting",
                                      "done", "failed", "rolled_back"}]]
    /\ pc \in Pcs /\ cur \in 0..NItems + 1 /\ chunk \subseteq Items
    /\ latched \in {"none", "stop", "observer"}
    /\ outcome \in {"done", "error", "uac"}
    /\ events \in 0..MaxEvents

Each(value) == [i \in Items |-> value]
EachJob(value) == [j \in Jobs |-> value]

Init ==
    /\ StoreInit
    /\ enabled = TRUE /\ latch = FALSE /\ disabling = FALSE
    /\ entry = Each("quarantined") /\ present = Each(TRUE)
    /\ archiveRow = [i \in Items |-> i \in Archived]
    /\ final = [i \in Items |-> i \in Archived]
    /\ partial = EachJob(Each("none"))
    /\ preview = [p \in Previews |-> [built |-> FALSE, expires |-> 0,
                                      rows |-> Each("out"), consumed |-> FALSE]]
    /\ job = EachJob("none") /\ stop = EachJob(FALSE)
    /\ request = EachJob(NoRequest) /\ spawned = {} /\ begun = 0
    /\ batch = EachJob("none") /\ bitem = EachJob(Each("none"))
    /\ phase = EachJob(Each("none")) /\ proof = EachJob(Each(FALSE))
    /\ linked = EachJob(Each(FALSE)) /\ opItem = EachJob(Each("none"))
    /\ pc = "idle" /\ wjob = 0 /\ cur = 0 /\ chunk = {}
    /\ latched = "none" /\ outcome = "done"
    /\ events = 0

Happens(kind) ==
    kind \in Kinds /\ events < MaxEvents /\ events' = events + 1
AsUsual == UNCHANGED events

\* inventory_mutation_gate: the worker and recovery hold it from end to end,
\* every other handler for the length of its step.
GateFree == pc = "idle"

EnabledNow == enabled /\ ~latch

\* The predicate of pending_final_remove_batches.
Pending(j) ==
    /\ batch[j] # "none"
    /\ \/ batch[j] \notin Closed
       \/ \E i \in Items : bitem[j][i] # "none" /\
            \/ bitem[j][i] \notin {"deleted", "blocked"}
            \/ entry[i] = "deleting"
            \/ ~linked[j][i] /\ proof[j][i] /\ phase[j][i] # "archive_recovery_closed"
\* Mutant of NoPendingRecovery: only a claim counts as pending.
NoClaimPending == \A j \in Jobs, i \in Items :
    bitem[j][i] \notin {"deleting", "interrupted"} /\ entry[i] # "deleting"
\* ensure_no_pending_recovery
NoPendingRecovery == \A j \in Jobs : ~Pending(j)

-----------------------------------------------------------------------------
(* The owner: requests that take the gate for one step, and the stop and   *)
(* the switch, which do not wait for it.                                   *)

\* What the digest of a preview covers of a held object.
Row(i) ==
    IF entry[i] # "quarantined" THEN "out"
    ELSE IF archiveRow[i] THEN "archived" ELSE "held"

RowsNow == [i \in Items |-> Row(i)]

Usable(p) == preview[p].built /\ ~preview[p].consumed /\ preview[p].expires >= now

\* final_remove_confirmation_binding: a selection of eligible groups.
Bindable(b) ==
    /\ Usable(b.preview)
    /\ b.selected # {} /\ \A i \in b.selected : preview[b.preview].rows[i] # "out"

BuildPreview(p) ==
    /\ GateFree /\ EnabledNow /\ NoPendingRecovery
    /\ ~preview[p].built /\ \A q \in Previews : q < p => preview[q].built
    /\ \E i \in Items : Row(i) # "out"
    /\ preview' = [preview EXCEPT ![p] =
                     [built |-> TRUE, expires |-> now + Ttl, rows |-> RowsNow,
                      consumed |-> FALSE]]
    /\ UNCHANGED <<store, switch, held, archives, jobs, batch, items, work, events>>

Confirm(b) ==
    /\ GateFree /\ EnabledNow /\ NoPendingRecovery /\ Bindable(b)
    /\ Issue("remove", b)
    /\ UNCHANGED <<switch, held, archives, preview, jobs, batch, items, work, events>>

IssueEnter ==
    /\ Happens("enter")
    /\ Issue("enter", NoBinding)
    /\ UNCHANGED <<switch, held, archives, preview, jobs, batch, items, work>>

\* mutation_restore_start: another mutation, with the grant to enter.
RestoreEntry(i, id) ==
    /\ Happens("restore") /\ GateFree
    /\ Matching(id, "enter", NoBinding) # {}
    /\ Consume(id, "enter", NoBinding)
    /\ IF NoPendingRecovery /\ entry[i] = "quarantined"
       THEN entry' = [entry EXCEPT ![i] = "restored"]
       ELSE UNCHANGED entry
    /\ UNCHANGED <<switch, present, archives, preview, jobs, batch, items, work>>

ActiveJob(j) == job[j] \in {"created", "begun"}

\* The grant is looked at by the worker, not here.
StartJob(j, id, b) ==
    /\ GateFree /\ EnabledNow /\ NoPendingRecovery /\ Bindable(b)
    /\ job[j] = "none" /\ \A k \in Jobs : k < j => job[k] # "none"
    /\ \A k \in Jobs : ~ActiveJob(k)
    /\ request' = [request EXCEPT ![j] = [token |-> id, binding |-> b]]
    /\ \/ /\ AsUsual
          /\ job' = [job EXCEPT ![j] = "created"]
          /\ spawned' = spawned \cup {j}
       \/ /\ Happens("spawn")
          /\ job' = [job EXCEPT ![j] = "error"]
          /\ UNCHANGED spawned
    /\ UNCHANGED <<store, switch, held, archives, preview, stop, begun, batch,
                   items, work>>

\* request_stop: a job whose worker has not begun ends here, one that has is
\* told, one that has ended is left alone.
RequestStop(j) ==
    /\ job' = [job EXCEPT ![j] = IF @ = "created" THEN "cancelled" ELSE @]
    /\ stop' = [stop EXCEPT ![j] = @ \/ ActiveJob(j)]

StopJob(j) ==
    /\ Happens("stop") /\ ActiveJob(j) /\ ~stop[j]
    /\ RequestStop(j)
    /\ UNCHANGED <<store, switch, held, archives, preview, request, spawned,
                   begun, batch, items, work>>

\* set_final_remove_enabled(false): the latch and the stop at once ...
Disable ==
    /\ Happens("disable") /\ ~disabling
    /\ latch' = TRUE /\ disabling' = TRUE
    /\ IF \E j \in Jobs : ActiveJob(j)
       THEN \E j \in Jobs : ActiveJob(j) /\ RequestStop(j)
       ELSE UNCHANGED <<job, stop>>
    /\ UNCHANGED <<store, enabled, held, archives, preview, request, spawned,
                   begun, batch, items, work>>

DisableWhen(free) ==
    /\ disabling /\ free
    /\ enabled' = FALSE /\ disabling' = FALSE
    /\ UNCHANGED <<store, latch, held, archives, preview, jobs, batch, items,
                   work, events>>

\* Mutant of DisablePersisted: the setting is written without the gate.
DisableUngated == DisableWhen(TRUE)
\* ... and the durable setting once the gate is free.
DisablePersisted == DisableWhen(GateFree)

Enable ==
    /\ Happens("enable") /\ GateFree /\ ~EnabledNow
    /\ enabled' = TRUE /\ latch' = FALSE
    /\ UNCHANGED <<store, disabling, held, archives, preview, jobs, batch, items,
                   work>>

-----------------------------------------------------------------------------
(* The worker of a job.                                                    *)

Goto(next) == pc' = next

\* begin_worker: a job stopped before this has its result, the thread returns.
BeginWorker(j) ==
    /\ j \in spawned
    /\ spawned' = spawned \ {j}
    /\ IF ActiveJob(j)
       THEN begun' = j /\ job' = [job EXCEPT ![j] = "begun"]
       ELSE UNCHANGED <<begun, job>>
    /\ UNCHANGED <<store, switch, held, archives, preview, stop, request, batch,
                   items, work, events>>

\* The job ends with this result and the worker lets the gate go.
Ends(result) ==
    /\ job' = [job EXCEPT ![wjob] = result]
    /\ pc' = "idle" /\ wjob' = 0 /\ cur' = 0 /\ chunk' = {}
    /\ latched' = "none" /\ outcome' = "done"
    /\ UNCHANGED <<stop, request, spawned, begun>>

Same == UNCHANGED <<wjob, cur, chunk, latched, outcome>> /\ UNCHANGED jobs

\* The worker takes the gate and asks again what the start already asked.
EnterGate(j) ==
    /\ begun = j /\ GateFree
    /\ begun' = 0
    /\ UNCHANGED <<store, switch, held, archives, preview, stop, request, spawned,
                   batch, items, cur, chunk, latched, outcome, events>>
    /\ IF EnabledNow /\ NoPendingRecovery
       THEN wjob' = j /\ Goto("consume") /\ UNCHANGED job
       ELSE job' = [job EXCEPT ![j] = "error"] /\ UNCHANGED <<pc, wjob>>

\* consume_scoped: the grant is spent before the rows are looked at.
ConsumeGrant ==
    /\ pc = "consume"
    /\ UNCHANGED <<switch, held, archives, preview, batch, items, events>>
    /\ LET id == request[wjob].token  b == request[wjob].binding IN
       \/ /\ Bindable(b) /\ Matching(id, "remove", b) # {}
          /\ Consume(id, "remove", b)
          /\ Goto("revalidate") /\ Same
       \/ /\ ~Bindable(b) /\ UNCHANGED store /\ Ends("error")
       \/ /\ Bindable(b) /\ Matching(id, "remove", b) = {}
          /\ Consume(id, "remove", b)
          /\ Ends("error")

\* Mutant of UsedUp: the review can be used again.
StillUsable(p) == preview
\* consume_preview_cas
UsedUp(p) == [preview EXCEPT ![p].consumed = TRUE]

\* The digest of the rows as they are now, then one transaction that uses the
\* preview up and writes the batch.
Revalidate ==
    /\ pc = "revalidate"
    /\ UNCHANGED <<store, switch, held, archives>>
    /\ LET b == request[wjob].binding  p == preview[b.preview] IN
       \/ /\ AsUsual
          /\ \A i \in Items : p.rows[i] # "out" => Row(i) = p.rows[i]
          /\ ~p.consumed /\ p.expires >= now
          /\ preview' = UsedUp(b.preview)
          /\ batch' = [batch EXCEPT ![wjob] = "waiting_for_uac"]
          /\ bitem' = [bitem EXCEPT ![wjob] =
                [i \in Items |-> IF i \in b.selected THEN "planned" ELSE "none"]]
          /\ phase' = [phase EXCEPT ![wjob] =
                [i \in Items |-> IF i \in b.selected THEN "preflight" ELSE "none"]]
          /\ opItem' = [opItem EXCEPT ![wjob] =
                [i \in Items |-> IF i \in b.selected THEN "pending" ELSE "none"]]
          /\ UNCHANGED <<proof, linked>>
          /\ Goto("preflight") /\ Same
       \/ /\ IF /\ \A i \in Items : p.rows[i] # "out" => Row(i) = p.rows[i]
                /\ ~p.consumed /\ p.expires >= now
             THEN Happens("db") ELSE AsUsual
          /\ UNCHANGED <<preview, batch, items>>
          /\ Ends("error")

-----------------------------------------------------------------------------
(* What a batch row of the worker may become.                              *)

PromotionPending(j, i) == ~linked[j][i] /\ proof[j][i]

\* mark_batch_item_blocked and terminalize_undisposed_batch_items: nothing is
\* removed, but an archive on its way to its final name is left to recovery.
Block(j, S) ==
    /\ bitem' = [bitem EXCEPT ![j] = [i \in Items |->
          IF i \notin S THEN bitem[j][i]
          ELSE IF PromotionPending(j, i) THEN "interrupted" ELSE "blocked"]]
    /\ phase' = [phase EXCEPT ![j] = [i \in Items |->
          IF i \notin S THEN phase[j][i]
          ELSE IF PromotionPending(j, i) THEN "archive_recovery_pending"
          ELSE "blocked"]]
    /\ opItem' = [opItem EXCEPT ![j] = [i \in Items |->
          IF i \in S /\ ~PromotionPending(j, i) /\ opItem[j][i] = "pending"
          THEN "skipped" ELSE opItem[j][i]]]
    /\ UNCHANGED <<proof, linked>>

Undisposed(j) == {i \in Items : bitem[j][i] \in {"planned", "ready"}}

\* The capabilities the helper has not been given yet.
NotGiven(j) == {i \in Items : bitem[j][i] = "planned" /\ phase[j][i] \in Intents}

Least(S) == CHOOSE i \in S : \A k \in S : i <= k
FirstOf(S) == {i \in S : Cardinality({k \in S : k < i}) < ChunkSize}
After(i) == {k \in chunk : k > i}

\* The containers of a chunk are deleted by the close of their handles.
Drop ==
    partial' = [partial EXCEPT ![wjob] = [i \in Items |->
        IF partial[wjob][i] = "armed" THEN "none" ELSE partial[wjob][i]]]

Put(f, value) == [f EXCEPT ![wjob][cur] = value]

\* The stream stops: what was not disposed of is closed next.
Abort(why) ==
    /\ Goto("terminalize") /\ outcome' = why
    /\ UNCHANGED <<wjob, cur, chunk, latched>> /\ UNCHANGED jobs

NextCommit ==
    /\ IF After(cur) = {} THEN Goto("boundary") /\ cur' = Least(chunk)
       ELSE Goto("commit") /\ cur' = Least(After(cur))
    /\ UNCHANGED <<wjob, chunk, latched, outcome>> /\ UNCHANGED jobs

NextGroup ==
    /\ IF After(cur) = {} THEN Goto("next_chunk") /\ UNCHANGED cur
       ELSE Goto("boundary") /\ cur' = Least(After(cur))
    /\ UNCHANGED <<wjob, chunk, latched, outcome>> /\ UNCHANGED jobs

WorkFrame == UNCHANGED <<store, switch, preview>>

Preflight ==
    /\ pc = "preflight"
    /\ WorkFrame /\ UNCHANGED <<held, archives, batch>>
    /\ \/ AsUsual /\ UNCHANGED items /\ Goto("layout") /\ Same
       \/ /\ Happens("preflight")
          /\ \E S \in SUBSET Undisposed(wjob) : S # {} /\ Block(wjob, S)
          /\ Goto("layout") /\ Same
       \/ Happens("db") /\ UNCHANGED items /\ Ends("error")

\* journal_capability_layouts, when anything passed the preflight.
Layout ==
    /\ pc = "layout"
    /\ WorkFrame /\ UNCHANGED <<held, archives>>
    /\ \/ /\ AsUsual /\ Undisposed(wjob) # {}
          /\ phase' = [phase EXCEPT ![wjob] = [i \in Items |->
                IF i \notin Undisposed(wjob) THEN phase[wjob][i]
                ELSE IF archiveRow[i] THEN "archive_verify_intent"
                ELSE "archive_path_intent"]]
          /\ Goto("uac") /\ Same
          /\ UNCHANGED <<batch, bitem, proof, linked, opItem>>
       \/ /\ AsUsual /\ Undisposed(wjob) = {}
          /\ batch' = [batch EXCEPT ![wjob] = "failed"]
          /\ UNCHANGED items /\ Ends("failed")
       \/ Happens("db") /\ UNCHANGED <<batch, items>> /\ Ends("error")

\* The owner answers the one prompt; the helper comes up or it does not.
Uac ==
    /\ pc = "uac"
    /\ WorkFrame /\ UNCHANGED <<held, archives, batch, items>>
    /\ \/ AsUsual /\ Goto("materialize") /\ Same
       \/ Happens("uac") /\ Abort("uac")
       \/ Happens("helper") /\ Abort("error")

\* materialize_chunk: every object of the chunk is bound again and gets its
\* container, deleted on close until it is promoted; then the helper works.
Materialize ==
    /\ pc = "materialize"
    /\ WorkFrame /\ UNCHANGED <<held, archiveRow, final, batch>>
    /\ LET S == FirstOf(NotGiven(wjob))
           new == {i \in S : phase[wjob][i] = "archive_path_intent"}
           Bound(T) == phase' = [phase EXCEPT ![wjob] = [i \in Items |->
               IF i \in new \cap T THEN "archive_container_bound"
               ELSE phase[wjob][i]]]
       IN
       \/ /\ AsUsual /\ Bound(S)
          /\ partial' = [partial EXCEPT ![wjob] = [i \in Items |->
                IF i \in new THEN "armed" ELSE partial[wjob][i]]]
          /\ chunk' = S /\ cur' = Least(S) /\ Goto("commit")
          /\ UNCHANGED <<bitem, proof, linked, opItem, wjob, latched, outcome>>
          /\ UNCHANGED jobs
       \/ /\ Happens("helper") /\ Bound(S) /\ Abort("error")
          /\ UNCHANGED <<bitem, proof, linked, opItem, partial>>
       \/ /\ Happens("open") /\ Abort("error")
          /\ \E k \in S : Block(wjob, {k})
          /\ UNCHANGED partial

-----------------------------------------------------------------------------
(* verify_and_commit of one object: the helper's proof is journaled, then  *)
(* the container loses its deletion and gets its final name, then the      *)
(* archive row is linked.  A kept archive is only verified and linked.     *)
(* "scratch" is two transactions of the code, the journal of the scratch   *)
(* file and the batch row.  Recovery reads that journal for a message      *)
(* only, so a failure or the death between the two leaves what "db" and    *)
(* "crash" leave.                                                          *)

Commit ==
    /\ pc = "commit"
    /\ WorkFrame /\ UNCHANGED <<held, archiveRow, final, batch>>
    /\ \/ /\ AsUsual
          /\ proof' = Put(proof, TRUE)
          /\ phase' = Put(phase, "archive_proof_persisted")
          /\ Goto(IF archiveRow[cur] THEN "link" ELSE "promote") /\ Same
          /\ UNCHANGED <<partial, bitem, linked, opItem>>
       \/ /\ Happens("capture")
          /\ Block(wjob, {cur})
          /\ partial' = Put(partial, "none") /\ NextCommit
       \/ /\ Happens("scratch")
          /\ bitem' = Put(bitem, "interrupted")
          /\ phase' = Put(phase, "scratch_cleanup_pending")
          /\ partial' = Put(partial, "none") /\ NextCommit
          /\ UNCHANGED <<proof, linked, opItem>>
       \/ Happens("db") /\ Abort("error") /\ Drop /\ UNCHANGED items

\* From here the container outlives its handle.
Promote ==
    /\ pc = "promote"
    /\ WorkFrame /\ UNCHANGED <<held, archiveRow, final, batch>>
    /\ \/ /\ AsUsual /\ partial' = Put(partial, "plain")
          /\ Goto("rename") /\ Same /\ UNCHANGED items
       \/ /\ Happens("rename") /\ partial' = Put(partial, "none")
          /\ Block(wjob, {cur}) /\ NextCommit

\* When the rename fails the deletion is set again, if that succeeds.
Rename ==
    /\ pc = "rename"
    /\ WorkFrame /\ UNCHANGED <<held, archiveRow, batch>>
    /\ \/ /\ AsUsual /\ ~final[cur]
          /\ final' = [final EXCEPT ![cur] = TRUE]
          /\ partial' = Put(partial, "none")
          /\ Goto("link") /\ Same /\ UNCHANGED items
       \/ /\ IF final[cur] THEN AsUsual ELSE Happens("rename")
          /\ \E left \in {"none", "plain"} : partial' = Put(partial, left)
          /\ Block(wjob, {cur}) /\ NextCommit
          /\ UNCHANGED final

\* commit_archive_proof
Link ==
    /\ pc = "link"
    /\ WorkFrame /\ UNCHANGED <<held, final, partial, batch>>
    /\ \/ /\ AsUsual
          /\ archiveRow' = [archiveRow EXCEPT ![cur] = TRUE]
          /\ linked' = Put(linked, TRUE)
          /\ phase' = Put(phase, "archive_ready")
          /\ bitem' = Put(bitem, "ready")
          /\ UNCHANGED <<proof, opItem>> /\ NextCommit
       \/ /\ Happens("db") /\ Block(wjob, {cur}) /\ NextCommit
          /\ UNCHANGED archiveRow

-----------------------------------------------------------------------------
(* The disposition of a chunk, one object at a time.                       *)

\* Mutant of Ready: an object whose archive is unclear is disposed of too.
ReadyUnlessBlocked(j, i) == bitem[j][i] # "blocked"
Ready(j, i) == bitem[j][i] = "ready"

\* Between two groups the worker looks at its stop and at the observer, whose
\* failure goes before a stop.
Boundary ==
    /\ pc = "boundary"
    /\ WorkFrame /\ UNCHANGED <<held, archives, batch, items>>
    /\ LET told == stop[wjob] \/ latch IN
       \/ /\ told /\ AsUsual /\ latched' = "stop"
          /\ Goto("next_chunk") /\ UNCHANGED <<wjob, cur, chunk, outcome>>
          /\ UNCHANGED jobs
       \/ /\ Happens("observer") /\ latched' = "observer"
          /\ Goto("next_chunk") /\ UNCHANGED <<wjob, cur, chunk, outcome>>
          /\ UNCHANGED jobs
       \/ ~told /\ AsUsual /\ Ready(wjob, cur) /\ Goto("claim") /\ Same
       \/ ~told /\ AsUsual /\ ~Ready(wjob, cur) /\ NextGroup

\* claim_delete_group_intent_guarded: one transaction, before anything moves.
ClaimItem ==
    /\ pc = "claim"
    /\ WorkFrame /\ UNCHANGED present
    /\ \/ /\ AsUsual /\ ClaimParses
          /\ entry[cur] = "quarantined"
          /\ entry' = [entry EXCEPT ![cur] = "deleting"]
          /\ bitem' = Put(bitem, "deleting")
          /\ phase' = Put(phase, "parent_disposition")
          /\ opItem' = Put(opItem, "deleting")
          /\ batch' = [batch EXCEPT ![wjob] = "parent_disposition"]
          /\ Goto("dispose") /\ Same
          /\ UNCHANGED <<archives, proof, linked>>
       \/ /\ IF ClaimParses THEN Happens("claim") ELSE AsUsual
          /\ Abort("error") /\ Drop
          /\ UNCHANGED <<entry, archiveRow, final, batch, items>>
       \/ /\ Happens("profile") /\ Block(wjob, {cur}) /\ NextGroup
          /\ UNCHANGED <<entry, archives, batch>>

\* dispose_one_guarded, whose steps FinalDisposition has.
Dispose ==
    /\ pc = "dispose"
    /\ WorkFrame /\ UNCHANGED <<entry, archives, batch, proof, linked, phase>>
    /\ \/ /\ AsUsual /\ present' = [present EXCEPT ![cur] = FALSE]
          /\ Goto("record") /\ Same /\ UNCHANGED <<bitem, opItem>>
       \/ /\ Happens("dispose") /\ Abort("error")
          /\ bitem' = Put(bitem, "interrupted") /\ opItem' = Put(opItem, "failed")
          /\ UNCHANGED present

\* record_delete_success; when it fails, record_proved_close_outcome_unknown,
\* which may fail too.
Record ==
    /\ pc = "record"
    /\ WorkFrame /\ UNCHANGED <<present, archives, batch, proof, linked>>
    /\ \/ /\ AsUsual
          /\ entry' = [entry EXCEPT ![cur] = "permanently_deleted"]
          /\ bitem' = Put(bitem, "deleted") /\ phase' = Put(phase, "finished")
          /\ opItem' = Put(opItem, "done")
          /\ NextGroup
       \/ /\ Happens("db") /\ Abort("error")
          /\ \/ bitem' = Put(bitem, "interrupted") /\ opItem' = Put(opItem, "failed")
             \/ UNCHANGED <<bitem, opItem>>
          /\ UNCHANGED <<entry, phase>>

\* The reason of an interruption is asked for once more before it is recorded:
\* the message that reports a stop may itself fail.
NextChunk ==
    /\ pc = "next_chunk"
    /\ WorkFrame /\ UNCHANGED <<held, archives, batch, items>>
    /\ \/ /\ AsUsual /\ Same
          /\ Goto(IF latched # "none" THEN "terminalize"
                  ELSE IF NotGiven(wjob) # {} THEN "materialize" ELSE "finalize")
       \/ /\ Happens("observer") /\ latched = "stop" /\ latched' = "observer"
          /\ Goto("terminalize") /\ UNCHANGED <<wjob, cur, chunk, outcome>>
          /\ UNCHANGED jobs

\* terminalize_undisposed_batch_items
Terminalize ==
    /\ pc = "terminalize"
    /\ WorkFrame /\ UNCHANGED <<held, archives, batch>>
    /\ \/ AsUsual /\ Block(wjob, Undisposed(wjob)) /\ Goto("finalize") /\ Same
       \/ Happens("db") /\ UNCHANGED items /\ Ends("error")

Selected(j) == {i \in Items : bitem[j][i] # "none"}
Deleted(j) == {i \in Items : bitem[j][i] = "deleted"}
Unclear(j) == {i \in Items : bitem[j][i] \in {"deleting", "interrupted"}}

\* finish_batch_without_delete when nothing was started, finalize_batch else.
Verdict(j) ==
    IF outcome # "done" /\ latched = "none" /\ Deleted(j) \cup Unclear(j) = {}
    THEN IF outcome = "uac" THEN "cancelled" ELSE "failed"
    ELSE IF Unclear(j) # {} \/ latched = "observer" THEN "interrupted"
    ELSE IF latched = "stop" THEN "cancelled"
    ELSE IF Deleted(j) = Selected(j) THEN "completed"
    ELSE IF Deleted(j) # {} THEN "partial" ELSE "failed"

FinalizeAs(verdict) ==
    /\ pc = "finalize"
    /\ WorkFrame /\ UNCHANGED <<held, archives, items>>
    /\ \/ /\ AsUsual
          /\ batch' = [batch EXCEPT ![wjob] = verdict] /\ Ends(verdict)
       \/ Happens("db") /\ UNCHANGED batch /\ Ends("error")

\* Mutant of Finalize: what is unclear is counted as not removed.
FinalizeHopeful ==
    FinalizeAs(IF Deleted(wjob) = {} THEN "failed" ELSE Verdict(wjob))
Finalize == FinalizeAs(Verdict(wjob))

-----------------------------------------------------------------------------
(* The end of the process, and recovery_resolve.                           *)

\* The store, the latch and the threads go; containers still set to be
\* deleted go with their handles.
Restart ==
    /\ Happens("crash")
    /\ StoreLost
    /\ latch' = FALSE /\ disabling' = FALSE
    /\ job' = [j \in Jobs |-> IF job[j] = "none" THEN "none" ELSE "lost"]
    /\ stop' = EachJob(FALSE) /\ spawned' = {} /\ begun' = 0
    /\ partial' = [j \in Jobs |-> [i \in Items |->
          IF partial[j][i] = "armed" THEN "none" ELSE partial[j][i]]]
    /\ pc' = "idle" /\ wjob' = 0 /\ cur' = 0 /\ chunk' = {}
    /\ latched' = "none" /\ outcome' = "done"
    /\ UNCHANGED <<enabled, held, archiveRow, final, preview, request, batch,
                   items>>

Frame == UNCHANGED <<store, switch, preview, jobs, chunk, latched, outcome>>

Rest == pc' = "idle" /\ wjob' = 0 /\ cur' = 0

\* recover_permanent_delete_batches takes what is pending, the oldest first.
RecoverStart ==
    /\ pc = "idle" /\ ~NoPendingRecovery
    /\ wjob' = Least({j \in Jobs : Pending(j)}) /\ cur' = 1 /\ Goto("recover")
    /\ Frame /\ UNCHANGED <<held, archives, batch, items, events>>

RecoverNext ==
    /\ cur' = cur + 1 /\ UNCHANGED wjob
    /\ Goto(IF cur = NItems THEN "recover_finish" ELSE "recover")

\* The batch is left as it is found, for the owner.
Ambiguous == Goto("recover_finish") /\ UNCHANGED <<wjob, cur>>

\* The phases recover_pending_archive_intent knows, and that before a layout.
RecoverablePhases == {"preflight", "archive_path_intent",
    "archive_container_bound", "archive_proof_persisted",
    "archive_partial_cleaned", "archive_ready", "archive_recovery_pending",
    "blocked"}

\* What recovery answers Ambiguous to however often it is asked.
Unrecoverable(j, i) ==
    \/ /\ entry[i] = "quarantined"
       /\ \/ phase[j][i] = "scratch_cleanup_pending"
          \* archive_verify_intent, and archive_recovery_closed seen again
          \/ /\ ~linked[j][i] /\ (proof[j][i] \/ bitem[j][i] = "planned")
             /\ phase[j][i] \notin RecoverablePhases
          \/ PromotionPending(j, i) /\ partial[j][i] = "plain" /\ final[i]
          \* linked by a recovery that did not get to close it
          \/ linked[j][i] /\ bitem[j][i] = "interrupted"
    \* left by this batch, claimed by a later one
    \/ bitem[j][i] = "blocked" /\ entry[i] # "quarantined"

AtItem == pc = "recover"
Recoverable == ~Unrecoverable(wjob, cur)

RecoverPass ==
    /\ AtItem /\ Recoverable
    /\ \/ bitem[wjob][cur] \in {"none", "deleted"}
       \/ bitem[wjob][cur] = "blocked" /\ ~PromotionPending(wjob, cur)
    /\ RecoverNext
    /\ Frame /\ UNCHANGED <<held, archives, batch, items, events>>

RecoverUnsure ==
    /\ AtItem /\ bitem[wjob][cur] # "none"
    /\ IF Recoverable THEN Happens("probe") ELSE AsUsual
    /\ Ambiguous
    /\ Frame /\ UNCHANGED <<held, archives, batch, items>>

\* The exact container that never got its final name is deleted ...
RecoverPartial ==
    /\ AtItem /\ Recoverable /\ PromotionPending(wjob, cur)
    /\ partial[wjob][cur] = "plain"
    /\ partial' = Put(partial, "none")
    /\ Goto("recover_clean") /\ UNCHANGED <<wjob, cur>>
    /\ Frame /\ UNCHANGED <<held, archiveRow, final, batch, items, events>>

\* ... and that is journaled; recovery as a whole fails when this does.
RecoverClean ==
    /\ pc = "recover_clean"
    /\ Frame /\ UNCHANGED <<held, archives, batch, bitem, proof, linked, opItem>>
    /\ \/ /\ AsUsual /\ phase' = Put(phase, "archive_partial_cleaned")
          /\ Goto("recover_block") /\ UNCHANGED <<wjob, cur>>
       \/ Happens("db") /\ UNCHANGED phase /\ Rest

Promoted(j, i) ==
    PromotionPending(j, i) /\ ~archiveRow[i] /\ final[i] /\ partial[j][i] = "none"

\* reconcile_promoted_archive
RecoverPromoted ==
    /\ AtItem /\ Recoverable /\ Promoted(wjob, cur)
    /\ Frame /\ UNCHANGED <<held, final, partial, batch, bitem, proof, opItem>>
    /\ \/ /\ AsUsual
          /\ archiveRow' = [archiveRow EXCEPT ![cur] = TRUE]
          /\ linked' = Put(linked, TRUE) /\ phase' = Put(phase, "archive_ready")
          /\ Goto("recover_block") /\ UNCHANGED <<wjob, cur>>
       \/ Happens("db") /\ UNCHANGED <<archiveRow, linked, phase>> /\ Rest

\* Mutant of Closable: an object whose archive was linked is not expected.
ClosablePlanned(j, i) ==
    /\ entry[i] = "quarantined" /\ ~Promoted(j, i) /\ partial[j][i] # "plain"
    /\ bitem[j][i] = "planned" \/ PromotionPending(j, i)
\* Nothing of the item is on disk that is not journaled.
Closable(j, i) ==
    /\ entry[i] = "quarantined" /\ ~Promoted(j, i) /\ partial[j][i] # "plain"
    /\ bitem[j][i] \in {"planned", "ready"} \/ PromotionPending(j, i)

BlockRecovered(ready) ==
    /\ \/ pc = "recover_block"
       \/ AtItem /\ Recoverable /\ ready
    /\ Frame /\ UNCHANGED <<held, archives, batch, proof, linked>>
    /\ \/ /\ AsUsual /\ bitem' = Put(bitem, "blocked")
          /\ phase' = Put(phase, IF PromotionPending(wjob, cur)
                                 THEN "archive_recovery_closed" ELSE "blocked")
          /\ opItem' = Put(opItem, "skipped")
          /\ RecoverNext
       \/ Happens("db") /\ UNCHANGED <<bitem, phase, opItem>> /\ Ambiguous

\* Mutant of RecoverBlock: an archive on its way is not looked for.
RecoverBlockBlind ==
    BlockRecovered(bitem[wjob][cur] \in {"planned", "ready"} \/ PromotionPending(wjob, cur))
\* block_unstarted_batch_item
RecoverBlock == BlockRecovered(Closable(wjob, cur))

RecoverClaimAs(back) ==
    /\ AtItem /\ Recoverable
    /\ bitem[wjob][cur] \in {"deleting", "interrupted"} /\ entry[cur] = "deleting"
    /\ Frame /\ UNCHANGED <<present, archives, batch, proof, linked>>
    /\ \/ /\ AsUsual /\ RecoverNext
          /\ IF back
             THEN /\ entry' = [entry EXCEPT ![cur] = "quarantined"]
                  /\ bitem' = Put(bitem, "blocked") /\ phase' = Put(phase, "blocked")
                  /\ opItem' = Put(opItem, "rolled_back")
             ELSE /\ entry' = [entry EXCEPT ![cur] = "permanently_deleted"]
                  /\ bitem' = Put(bitem, "deleted") /\ phase' = Put(phase, "finished")
                  /\ opItem' = Put(opItem, "done")
       \/ Happens("db") /\ UNCHANGED <<entry, bitem, phase, opItem>> /\ Ambiguous

\* Mutant of RecoverClaim: a claim is rolled back whatever the disk says.
RecoverClaimBlind == RecoverClaimAs(TRUE)
\* roll_back_batch_delete_intent and settle_batch_delete_absent
RecoverClaim == RecoverClaimAs(present[cur])

\* finish_recovered_delete_batch, then the next batch of the list.
RecoverFinish ==
    /\ pc = "recover_finish"
    /\ Frame /\ UNCHANGED <<held, archives, items>>
    /\ \/ /\ AsUsual
          /\ batch' = [batch EXCEPT ![wjob] =
                IF cur <= NItems \/ Unclear(wjob) \cup Undisposed(wjob) # {}
                THEN "interrupted"
                ELSE IF Deleted(wjob) = Selected(wjob) THEN "completed"
                ELSE IF Deleted(wjob) # {} THEN "partial" ELSE "failed"]
          /\ LET later == {j \in Jobs : j > wjob /\ Pending(j)} IN
             IF later = {} THEN Rest
             ELSE Goto("recover") /\ wjob' = Least(later) /\ cur' = 1
       \/ Happens("db") /\ UNCHANGED batch /\ Rest

-----------------------------------------------------------------------------

Advance == Tick /\ Happens("tick") /\ UNCHANGED <<switch, held, archives, preview, jobs, batch, items,
                               work>>

Owner ==
    \/ \E p \in Previews : BuildPreview(p)
    \/ \E b \in Bindings : Confirm(b)
    \/ IssueEnter
    \/ \E i \in Items, id \in 1..MaxIssued : RestoreEntry(i, id)
    \/ \E j \in Jobs, id \in 1..MaxIssued, b \in Bindings : StartJob(j, id, b)
    \/ \E j \in Jobs : StopJob(j)
    \/ Disable \/ Enable

Start == \E j \in Jobs : BeginWorker(j) \/ EnterGate(j)

Work ==
    \/ ConsumeGrant \/ Revalidate \/ Preflight \/ Layout \/ Uac \/ Materialize
    \/ Commit \/ Promote \/ Rename \/ Link
    \/ Boundary \/ ClaimItem \/ Dispose \/ Record
    \/ NextChunk \/ Terminalize \/ Finalize

Recover ==
    \/ RecoverPass \/ RecoverUnsure \/ RecoverPartial \/ RecoverClean
    \/ RecoverPromoted \/ RecoverBlock \/ RecoverClaim \/ RecoverFinish

Next ==
    \/ Advance \/ Owner \/ DisablePersisted \/ Start \/ Work
    \/ RecoverStart \/ Recover \/ Restart

Spec == Init /\ [][Next]_vars

\* The threads run, and the owner comes back to a batch that needs recovery.
FairSpec ==
    /\ Spec
    /\ WF_vars(Work) /\ WF_vars(Recover) /\ WF_vars(Start)
    /\ SF_vars(RecoverStart)

-----------------------------------------------------------------------------
(* What permanent removal promises.                                        *)

\* An object that is gone left an archive behind, under its final name and in
\* the catalog, whatever failed since (commit before claim, recovery never
\* removes a promoted archive).
ArchivedBeforeGone ==
    \A i \in Items : ~present[i] => final[i] /\ archiveRow[i]

\* A container that outlives its handle, or a final name without a row, is
\* always owed by a batch recovery still has to look at: no crash between the
\* proof, the promotion, the rename and the link orphans one.
ArchivesAccounted ==
    /\ \A j \in Jobs, i \in Items : partial[j][i] = "plain" =>
          PromotionPending(j, i) /\ phase[j][i] # "archive_recovery_closed"
    /\ \A i \in Items : final[i] /\ ~archiveRow[i] => \E j \in Jobs :
          PromotionPending(j, i) /\ phase[j][i] # "archive_recovery_closed"

Unsettled(j) == {i \in Items :
    \/ bitem[j][i] \notin {"none", "deleted", "blocked"}
    \/ PromotionPending(j, i) /\ phase[j][i] # "archive_recovery_closed"}

\* However starts, stops, failures, crashes and recoveries interleave, at most
\* one batch has objects it has not settled: the next begins after that.
OneOpenBatch ==
    \A j, k \in Jobs : j = k \/ Unsettled(j) = {} \/ Unsettled(k) = {}

\* A grant and a review are each good for one batch, whoever asks again and
\* whenever (consume before the rows are read, the preview in the same
\* transaction as the batch).
GrantSpentOnce ==
    \A j, k \in Jobs : batch[j] # "none" /\ batch[k] # "none" /\ j # k =>
        /\ request[j].token # request[k].token
        /\ request[j].binding.preview # request[k].binding.preview

\* Once the switch is off on disk, no object is claimed for removal.
OffStopsRemoval ==
    [][~enabled => \A i \in Items :
          entry'[i] = "deleting" => entry[i] = "deleting"]_vars

\* Another batch took an object this one had left.
Retried(j) == \E k \in Jobs : k > j /\ Selected(k) \cap Selected(j) # {}

\* A verdict is what happened: completed removed everything selected, failed
\* nothing, a closed batch leaves nothing unclear, and a job that reports a
\* verdict reports that of its batch.
VerdictTruthful ==
    \A j \in Jobs :
        /\ batch[j] = "completed" => \A i \in Selected(j) : ~present[i]
        /\ batch[j] = "failed" => Retried(j) \/ \A i \in Selected(j) : present[i]
        /\ batch[j] \in Closed /\ wjob # j => Unsettled(j) = {}
        /\ job[j] \in Closed /\ batch[j] # "none" => Retried(j) \/ batch[j] = job[j]

\* The state of one object's removal by one job, as DispositionPromise has it.
ClaimOf(j, i) ==
    IF bitem[j][i] = "deleted" THEN "deleted"
    ELSE IF opItem[j][i] = "rolled_back" THEN "returned"
    ELSE IF bitem[j][i] \in {"deleting", "interrupted"} /\ entry[i] = "deleting"
    THEN "deleting" ELSE "held"

\* Its presence as far as other jobs did not take it.
ThereFor(j, i) ==
    present[i] \/ \E k \in Jobs \ {j} : ClaimOf(k, i) \in {"deleting", "deleted"}

Removal(j, i) == INSTANCE DispositionPromise WITH Items <- {i},
    claim <- [x \in {i} |-> ClaimOf(j, x)], there <- [x \in {i} |-> ThereFor(j, x)]

\* Every batch implements DispositionPromise for every object it selects,
\* across stops, failures, crashes and recoveries: a step of the batches is a
\* step of the promise for each of them, or none.
ImplementsPromise ==
    /\ \A j \in Jobs, i \in Items : Removal(j, i)!Init
    /\ [][\A j \in Jobs, i \in Items :
            [Removal(j, i)!Next]_<<ClaimOf(j, i), ThereFor(j, i)>>]_vars

Stuck(j) == pc = "idle" /\ \E i \in Selected(j) : Unrecoverable(j, i)

\* A batch that needs recovery is closed in the end, unless recovery has no
\* answer for one of its objects.
BatchCloses == \A j \in Jobs : Pending(j) ~> (~Pending(j) \/ Stuck(j))

\* "when you are ready, a visible project/batch review can permanently remove
\* the proved held objects" (README.md): a batch nothing disturbs completes.
UndisturbedCompletes ==
    \A j \in Jobs : batch[j] = "waiting_for_uac" ~> batch[j] = "completed"

=============================================================================
