------------------------------ MODULE ScanJobs ------------------------------
(***************************************************************************)
(* Inventory scans: the commands that start, stop, disable and unregister, *)
(* the resident refresh, and the worker thread of each job, which walks a  *)
(* root and brings the catalog up to date through its own write session.   *)
(*                                                                         *)
(* The catalog keeps, per root, a row for each item, the folder sizes and  *)
(* counts derived from the rows, and the baseline of the change timeline.  *)
(* The content of an item stands for its metadata: what                    *)
(* scanned_file_matches_cache compares.                                    *)
(*                                                                         *)
(* The synchronous commands of the desktop shell run one at a time on its  *)
(* main thread (ui); the resident loop has a thread of its own (resident). *)
(***************************************************************************)
EXTENDS JobStore

CONSTANTS Items,      \* paths inside a root
          Contents,   \* what an item's metadata may be
          Gone,       \* no such item; also no such row
          NoRoot,     \* no scan root
          Requests,   \* the commands a run allows
          Faults,     \* the faults a run allows
          MaxEdits    \* bound: changes made to the roots' items

AllRequests == {"scan", "cancel", "disable", "enable", "unregister", "refresh"}
AllFaults == {"database", "limit", "unreadable", "restart"}

ASSUME ScanAssumption ==
    /\ Gone \notin Contents
    /\ NoRoot \notin Roots
    /\ Requests \subseteq AllRequests
    /\ Faults \subseteq AllFaults
    /\ MaxEdits \in Nat

VARIABLES world,     \* the items of each root on disk
          rows,      \* tables nav_item and node
          project,   \* whether a root's project node exists
          sizes,     \* the rows the folder sizes and counts were taken from
          tracked,   \* table file_tracking_state, with its baseline mark
          rootRow,   \* table scan_root
          scanned,   \* whether scan_root.last_scanned_at is set
          worker,    \* the thread of each job
          caller,    \* the command each calling thread is in
          edits      \* how many times the disk was changed

catalogVars == <<rows, project, sizes, tracked, rootRow, scanned>>
vars == <<storeVars, catalogVars, world, worker, caller, edits>>

Stored == Contents \cup {Gone}
Inventory == [Items -> Stored]
Nothing == [i \in Items |-> Gone]
Present(inventory) == {i \in Items : inventory[i] # Gone}
NoBaseline == [known |-> FALSE, state |-> Nothing]

FinishPcs == {"reconcile", "sizes", "timeline", "mark"}
BegunPcs == {"begun", "walk", "walked", "finished", "stopped"} \cup FinishPcs
WorkerPcs == {"none", "prepare", "target", "begin"} \cup BegunPcs

\* during is a history variable: what each item has been since the scan of
\* the current root began.
Workers == [pc : WorkerPcs, todo : SUBSET Roots, root : Roots \cup {NoRoot},
            background : BOOLEAN, snap : Inventory, left : SUBSET Items,
            batch : Inventory, remaining : SUBSET Items,
            changed : SUBSET Items, partial : BOOLEAN, cancelled : BOOLEAN,
            full : BOOLEAN, during : [Items -> SUBSET Stored]]

NoWorker == [pc |-> "none", todo |-> {}, root |-> NoRoot,
             background |-> FALSE, snap |-> Nothing, left |-> {},
             batch |-> Nothing, remaining |-> {}, changed |-> {},
             partial |-> FALSE, cancelled |-> FALSE, full |-> FALSE,
             during |-> [i \in Items |-> {}]]

Threads == {"ui", "resident"}
Callers == [pc : {"idle", "admit", "cancel", "disable", "unregister", "forget"},
            roots : SUBSET Roots, job : 0..MaxJobs]
NoCall == [pc |-> "idle", roots |-> {}, job |-> 0]

TypeOK ==
    /\ JobStoreTypeOK
    /\ world \in [Roots -> Inventory]
    /\ rows \in [Roots -> Inventory]
    /\ project \in [Roots -> BOOLEAN]
    /\ sizes \in [Roots -> Inventory]
    /\ tracked \in [Roots -> [known : BOOLEAN, state : Inventory]]
    /\ rootRow \in [Roots -> {"absent", "disabled", "enabled"}]
    /\ scanned \in [Roots -> BOOLEAN]
    /\ worker \in [Jobs -> Workers]
    /\ caller \in [Threads -> Callers]
    /\ edits \in 0..MaxEdits

\* Registered roots that no scan has visited.
Init ==
    /\ JobStoreInit
    /\ world \in [Roots -> Inventory]
    /\ rows = [r \in Roots |-> Nothing]
    /\ project = [r \in Roots |-> TRUE]
    /\ sizes = [r \in Roots |-> Nothing]
    /\ tracked = [r \in Roots |-> NoBaseline]
    /\ rootRow = [r \in Roots |-> "enabled"]
    /\ scanned = [r \in Roots |-> FALSE]
    /\ worker = [j \in Jobs |-> NoWorker]
    /\ caller = [c \in Threads |-> NoCall]
    /\ edits = 0

\* The record of a thread, and the root it is scanning.
W(j) == worker[j]
R(j) == worker[j].root
Become(j, w) == worker' = [worker EXCEPT ![j] = w]
Live(j) == W(j).pc # "none"
CallIs(c, pc) == caller[c].pc = pc
Call(c, pc, rs, j) ==
    caller' = [caller EXCEPT ![c] = [pc |-> pc, roots |-> rs, job |-> j]]
Return(c) == caller' = [caller EXCEPT ![c] = NoCall]

----------------------------------------------------------------------------
(***************************************************************************)
(* Starting a scan.  The targets are read from the catalog first, then the *)
(* job is admitted and its thread spawned, or an owner of one of the roots *)
(* is found and the call returns.                                          *)
(***************************************************************************)
ScanRequest(rs) ==
    /\ "scan" \in Requests /\ CallIs("ui", "idle")
    /\ \E r \in rs : rootRow[r] = "enabled"
    /\ Call("ui", "admit", {r \in rs : rootRow[r] = "enabled"}, 0)
    /\ UNCHANGED <<storeVars, catalogVars, world, worker, edits>>

\* background_refresh_resident: nothing while any job runs; then the enabled
\* root that was scanned least recently, one never completed first.
RefreshRequest(r) ==
    /\ "refresh" \in Requests /\ CallIs("resident", "idle")
    /\ ~HasAnyRunningJob
    /\ rootRow[r] = "enabled"
    /\ scanned[r] => \A q \in Roots : rootRow[q] = "enabled" => scanned[q]
    /\ Call("resident", "admit", {r}, 0)
    /\ UNCHANGED <<storeVars, catalogVars, world, worker, edits>>

Admitted(c, j) ==
    /\ CallIs(c, "admit")
    /\ Admit(j, caller[c].roots)
    /\ Become(j, [NoWorker EXCEPT !.pc = "prepare",
                                  !.todo = caller[c].roots,
                                  !.background = (c = "resident")])
    /\ Return(c)
    /\ UNCHANGED <<catalogVars, world, edits>>

AlreadyOwned(c) ==
    /\ CallIs(c, "admit")
    /\ HasRunningJobFor(caller[c].roots)
    /\ Return(c)
    /\ UNCHANGED <<storeVars, catalogVars, world, worker, edits>>

----------------------------------------------------------------------------
(***************************************************************************)
(* scan_cancel, for any job the user interface has seen.                   *)
(***************************************************************************)
CancelRequest(j) ==
    /\ "cancel" \in Requests /\ CallIs("ui", "idle")
    /\ jobs[j].state # "unused"
    /\ RequestCancelToken(j)
    /\ Call("ui", "cancel", {}, j)
    /\ UNCHANGED <<catalogVars, world, worker, edits>>

CancelStored ==
    /\ CallIs("ui", "cancel")
    /\ RequestCancelStatus(caller["ui"].job)
    /\ Return("ui")
    /\ UNCHANGED <<catalogVars, world, worker, edits>>

(***************************************************************************)
(* roots_set_enabled and roots_unregister: refused while a job owns the    *)
(* root; the rows are written after that check, without the jobs lock.     *)
(* Unregistering is no transaction: the scan_root row goes first.          *)
(***************************************************************************)
EnableRoot(r) ==
    /\ "enable" \in Requests /\ CallIs("ui", "idle")
    /\ rootRow[r] = "disabled"
    /\ rootRow' = [rootRow EXCEPT ![r] = "enabled"]
    /\ UNCHANGED <<storeVars, rows, project, sizes, tracked, scanned, world,
                   worker, caller, edits>>

DisableRequest(r) ==
    /\ "disable" \in Requests /\ CallIs("ui", "idle")
    /\ rootRow[r] = "enabled" /\ ~HasRunningJobFor({r})
    /\ Call("ui", "disable", {r}, 0)
    /\ UNCHANGED <<storeVars, catalogVars, world, worker, edits>>

DisableRoot ==
    /\ CallIs("ui", "disable")
    /\ rootRow' = [r \in Roots |-> IF r \in caller["ui"].roots THEN "disabled"
                                   ELSE rootRow[r]]
    /\ Return("ui")
    /\ UNCHANGED <<storeVars, rows, project, sizes, tracked, scanned, world,
                   worker, edits>>

UnregisterRequest(r) ==
    /\ "unregister" \in Requests /\ CallIs("ui", "idle")
    /\ rootRow[r] # "absent" /\ ~HasRunningJobFor({r})
    /\ Call("ui", "unregister", {r}, 0)
    /\ UNCHANGED <<storeVars, catalogVars, world, worker, edits>>

DeleteRoot ==
    /\ CallIs("ui", "unregister")
    /\ rootRow' = [r \in Roots |-> IF r \in caller["ui"].roots THEN "absent"
                                   ELSE rootRow[r]]
    /\ scanned' = [r \in Roots |-> scanned[r] /\ r \notin caller["ui"].roots]
    /\ Call("ui", "forget", caller["ui"].roots, 0)
    /\ UNCHANGED <<storeVars, rows, project, sizes, tracked, world, worker,
                   edits>>

DeleteProject ==
    /\ CallIs("ui", "forget")
    /\ LET gone == caller["ui"].roots IN
       /\ rows' = [r \in Roots |-> IF r \in gone THEN Nothing ELSE rows[r]]
       /\ sizes' = [r \in Roots |-> IF r \in gone THEN Nothing ELSE sizes[r]]
       /\ tracked' = [r \in Roots |-> IF r \in gone THEN NoBaseline
                                      ELSE tracked[r]]
       /\ project' = [r \in Roots |-> project[r] /\ r \notin gone]
    /\ Return("ui")
    /\ UNCHANGED <<storeVars, rootRow, scanned, world, worker, edits>>


----------------------------------------------------------------------------
(***************************************************************************)
(* The worker thread.  It ends when it closes its job.                     *)
(***************************************************************************)
Goto(j, pc) == Become(j, [W(j) EXCEPT !.pc = pc])

End(j, state) ==
    /\ Close(j, state)
    /\ Become(j, NoWorker)

EndCancelled(j) == End(j, "cancelled") /\ UNCHANGED catalogVars

\* The inventory gate, the estimate and the opening of the write session.
\* The gate is held by a running mutation and only delays this step.
Prepare(j) ==
    /\ W(j).pc = "prepare"
    /\ \/ IsCancelled(j) /\ EndCancelled(j)
       \/ /\ ~IsCancelled(j) /\ Goto(j, "target")
          /\ UNCHANGED <<storeVars, catalogVars>>
    /\ UNCHANGED <<world, caller, edits>>

NextTarget(j) ==
    /\ W(j).pc = "target"
    /\ \E r \in W(j).todo :
         \/ /\ IsCancelled(j) \/ rootRow[r] # "enabled"
            /\ EndCancelled(j)
         \/ /\ ~IsCancelled(j) /\ rootRow[r] = "enabled"
            /\ Become(j, [W(j) EXCEPT !.pc = "begin", !.root = r])
            /\ UNCHANGED <<storeVars, catalogVars>>
    /\ UNCHANGED <<world, caller, edits>>

\* No check of the token separates the last root from complete.
AllDone(j) ==
    /\ W(j).pc = "target" /\ W(j).todo = {}
    /\ End(j, "completed")
    /\ UNCHANGED <<catalogVars, world, caller, edits>>

\* Mutant of BeginRootScan: the scan starts from an empty inventory.
BeginRootScanBlank(j) ==
    /\ W(j).pc = "begin"
    /\ project' = [project EXCEPT ![R(j)] = TRUE]
    /\ scanned' = [scanned EXCEPT ![R(j)] = FALSE]
    /\ rows' = [rows EXCEPT ![R(j)] = Nothing]
    /\ Become(j, [W(j) EXCEPT !.pc = "begun", !.left = Items,
                              !.during = [i \in Items |-> {world[R(j)][i]}]])
    /\ UNCHANGED <<storeVars, sizes, tracked, rootRow, world, caller, edits>>

\* begin_root_scan: the project node is created again if it is missing, the
\* root is marked as needing a scan, and its rows are kept and remembered.
BeginRootScan(j) ==
    /\ W(j).pc = "begin"
    /\ project' = [project EXCEPT ![R(j)] = TRUE]
    /\ scanned' = [scanned EXCEPT ![R(j)] = FALSE]
    /\ Become(j, [W(j) EXCEPT !.pc = "begun", !.snap = rows[R(j)],
                              !.remaining = Present(rows[R(j)]),
                              !.left = Items,
                              !.during = [i \in Items |-> {world[R(j)][i]}]])
    /\ UNCHANGED <<storeVars, rows, sizes, tracked, rootRow, world, caller,
                   edits>>

StartWalk(j) ==
    /\ W(j).pc = "begun"
    /\ \/ IsCancelled(j) /\ EndCancelled(j)
       \/ /\ ~IsCancelled(j) /\ Goto(j, "walk")
          /\ UNCHANGED <<storeVars, catalogVars>>
    /\ UNCHANGED <<world, caller, edits>>

(***************************************************************************)
(* scan_inventory_stream.  The walk reads one item after the other; those  *)
(* it finds are persisted in batches.  An item it cannot read is counted   *)
(* and skipped; one beyond a limit is skipped and makes the scan partial.  *)
(***************************************************************************)
WalkItem(j, i) ==
    /\ W(j).pc = "walk" /\ i \in W(j).left /\ ~IsCancelled(j)
    /\ Become(j, [W(j) EXCEPT !.left = @ \ {i}, !.batch[i] = world[R(j)][i]])
    /\ UNCHANGED <<storeVars, catalogVars, world, caller, edits>>

SkipUnreadable(j, i) ==
    /\ "unreadable" \in Faults
    /\ W(j).pc = "walk" /\ i \in W(j).left /\ ~IsCancelled(j)
    /\ world[R(j)][i] # Gone
    /\ Become(j, [W(j) EXCEPT !.left = @ \ {i}])
    /\ UNCHANGED <<storeVars, catalogVars, world, caller, edits>>

SkipOverLimit(j, i) ==
    /\ "limit" \in Faults
    /\ W(j).pc = "walk" /\ i \in W(j).left /\ ~IsCancelled(j)
    /\ Become(j, [W(j) EXCEPT !.left = @ \ {i}, !.partial = TRUE])
    /\ UNCHANGED <<storeVars, catalogVars, world, caller, edits>>

\* persist_batch: what differs from the rows at the start is written, and any
\* file whose body the walk has read, which is written although its metadata
\* are the same.
ToWrite(j, reread) ==
    {i \in Present(W(j).batch) : i \in reread \/ W(j).snap[i] # W(j).batch[i]}

PersistBatch(j) ==
    LET batch == W(j).batch IN
    /\ W(j).pc = "walk" /\ Present(batch) # {}
    /\ ~IsCancelled(j) /\ rootRow[R(j)] = "enabled"
    /\ \E reread \in SUBSET Items :
         /\ rows' = [rows EXCEPT ![R(j)] =
              [i \in Items |-> IF i \in ToWrite(j, reread) THEN batch[i]
                               ELSE @[i]]]
         /\ Become(j, [W(j) EXCEPT !.batch = Nothing,
                                   !.remaining = @ \ Present(batch),
                                   !.changed = @ \cup ToWrite(j, reread)])
    /\ UNCHANGED <<storeVars, project, sizes, tracked, rootRow, scanned,
                   world, caller, edits>>

RefuseBatch(j) ==
    /\ W(j).pc = "walk" /\ Present(W(j).batch) # {}
    /\ IsCancelled(j) \/ rootRow[R(j)] # "enabled"
    /\ EndCancelled(j)
    /\ UNCHANGED <<world, caller, edits>>

WalkCancelled(j) ==
    /\ W(j).pc = "walk" /\ Present(W(j).batch) = {} /\ W(j).left # {}
    /\ IsCancelled(j)
    /\ Become(j, [W(j) EXCEPT !.pc = "walked", !.left = {},
                              !.cancelled = TRUE])
    /\ UNCHANGED <<storeVars, catalogVars, world, caller, edits>>

WalkEnds(j) ==
    /\ W(j).pc = "walk" /\ Present(W(j).batch) = {} /\ W(j).left = {}
    /\ Goto(j, "walked")
    /\ UNCHANGED <<storeVars, catalogVars, world, caller, edits>>

\* Mutant of Full: a scan that stopped at a limit counts as complete.
FullUnlessCancelled(j) == ~W(j).cancelled /\ ~IsCancelled(j)

\* root_scan_completed
Full(j) == ~W(j).cancelled /\ ~W(j).partial /\ ~IsCancelled(j)

StartFinish(j) ==
    /\ W(j).pc = "walked"
    /\ \/ rootRow[R(j)] # "enabled" /\ EndCancelled(j)
       \/ /\ rootRow[R(j)] = "enabled"
          /\ Become(j, [W(j) EXCEPT !.full = Full(j),
                                    !.pc = IF Full(j) THEN "reconcile"
                                           ELSE "mark"])
          /\ UNCHANGED <<storeVars, catalogVars>>
    /\ UNCHANGED <<world, caller, edits>>

(***************************************************************************)
(* finish_root_scan.  Each step looks at the token before and after it     *)
(* runs: a step that starts with the token set was overtaken by it, so its *)
(* effect may or may not be there, and the rest is given up.               *)
(***************************************************************************)
Delta(j) == W(j).changed \cup W(j).remaining

Then(j, pc) == Goto(j, IF IsCancelled(j) THEN "stopped" ELSE pc)

\* reconcile_active_root_scan removes the rows the walk did not meet.  The
\* derived views follow only if the scan changed a row, in the foreground.
Reconcile(j) ==
    /\ W(j).pc = "reconcile"
    /\ IF IsCancelled(j) THEN UNCHANGED rows
       ELSE rows' = [rows EXCEPT ![R(j)] =
                       [i \in Items |-> IF i \in W(j).remaining THEN Gone
                                        ELSE @[i]]]
    /\ Then(j, IF Delta(j) # {} /\ ~W(j).background THEN "sizes"
               ELSE "timeline")
    /\ UNCHANGED <<storeVars, project, sizes, tracked, rootRow, scanned,
                   world, caller, edits>>

\* Child counts and folder sizes; the relationships are rebuilt with them.
DeriveSizes(j) ==
    /\ W(j).pc = "sizes"
    /\ \/ sizes' = [sizes EXCEPT ![R(j)] = rows[R(j)]]
       \/ IsCancelled(j) /\ UNCHANGED sizes
    /\ Then(j, "timeline")
    /\ UNCHANGED <<storeVars, rows, project, tracked, rootRow, scanned,
                   world, caller, edits>>

\* The first complete scan is the baseline, each later one records its delta.
Observed(j) ==
    IF ~tracked[R(j)].known THEN rows[R(j)]
    ELSE [i \in Items |-> IF i \in Delta(j) THEN rows[R(j)][i]
                          ELSE tracked[R(j)].state[i]]

RecordTimeline(j) ==
    /\ W(j).pc = "timeline"
    /\ \/ /\ rootRow[R(j)] = "enabled"
          /\ tracked' = [tracked EXCEPT ![R(j)] =
                           [known |-> TRUE, state |-> Observed(j)]]
       \/ /\ rootRow[R(j)] # "enabled" \/ IsCancelled(j)
          /\ UNCHANGED tracked
    /\ Then(j, "mark")
    /\ UNCHANGED <<storeVars, rows, project, sizes, rootRow, scanned, world,
                   caller, edits>>

MarkRoot(j) ==
    /\ W(j).pc = "mark"
    /\ \/ scanned' = [scanned EXCEPT ![R(j)] =
                        W(j).full /\ rootRow[R(j)] # "absent"]
       \/ IsCancelled(j) /\ UNCHANGED scanned
    /\ Then(j, "finished")
    /\ UNCHANGED <<storeVars, rows, project, sizes, tracked, rootRow, world,
                   caller, edits>>

\* Mutant of CancelRoot: the root keeps the mark the last step gave it.
CancelRootMarked(j) == End(j, "cancelled") /\ UNCHANGED catalogVars

\* A complete scan that is given up is marked incomplete again.
CancelRoot(j) ==
    /\ scanned' = [scanned EXCEPT ![R(j)] = @ /\ ~W(j).full]
    /\ End(j, "cancelled")
    /\ UNCHANGED <<rows, project, sizes, tracked, rootRow>>

FinishStopped(j) ==
    /\ W(j).pc = "stopped"
    /\ CancelRoot(j)
    /\ UNCHANGED <<world, caller, edits>>

NextRoot(j, todo) ==
    Become(j, [NoWorker EXCEPT !.pc = "target", !.todo = todo,
                               !.background = W(j).background])

\* Mutant of RootFinished: a partial root is followed by the next one.
RootFinishedPartialIgnored(j) ==
    /\ W(j).pc = "finished"
    /\ \/ /\ W(j).cancelled \/ IsCancelled(j)
          /\ CancelRoot(j)
       \/ /\ ~W(j).cancelled /\ ~IsCancelled(j)
          /\ NextRoot(j, W(j).todo \ {R(j)})
          /\ UNCHANGED <<storeVars, catalogVars>>
    /\ UNCHANGED <<world, caller, edits>>

\* Mutant of RootFinished: the root stays among the targets.
RootFinishedAgain(j) ==
    /\ W(j).pc = "finished"
    /\ NextRoot(j, W(j).todo)
    /\ UNCHANGED <<storeVars, catalogVars, world, caller, edits>>

RootFinished(j) ==
    /\ W(j).pc = "finished"
    /\ \/ /\ W(j).cancelled \/ IsCancelled(j)
          /\ CancelRoot(j)
       \/ /\ ~W(j).cancelled /\ ~IsCancelled(j) /\ W(j).partial
          /\ End(j, "partial")
          /\ UNCHANGED catalogVars
       \/ /\ ~W(j).cancelled /\ ~IsCancelled(j) /\ ~W(j).partial
          /\ NextRoot(j, W(j).todo \ {R(j)})
          /\ UNCHANGED <<storeVars, catalogVars>>
    /\ UNCHANGED <<world, caller, edits>>

\* An error of the database or of the file system, where the worker gives up
\* on one.  An error of a step the token has overtaken counts as cancelled.
DatabaseFails(j) ==
    /\ "database" \in Faults
    /\ \/ W(j).pc \in {"prepare", "begin", "walk"}
       \/ W(j).pc \in FinishPcs /\ ~IsCancelled(j)
       \/ W(j).pc = "stopped" /\ W(j).full
       \/ W(j).pc = "finished" /\ W(j).full /\ IsCancelled(j)
    /\ End(j, "failed")
    /\ UNCHANGED <<catalogVars, world, caller, edits>>

\* What the worker reports of its progress, whatever it is doing.
Reports(j) ==
    /\ Live(j)
    /\ RecordTiming(j) \/ ReportProgress(j)
    /\ UNCHANGED <<catalogVars, world, worker, caller, edits>>

WorkerStep(j) ==
    \/ Prepare(j) \/ NextTarget(j) \/ AllDone(j) \/ BeginRootScan(j)
    \/ StartWalk(j)
    \/ \E i \in Items :
         WalkItem(j, i) \/ SkipUnreadable(j, i) \/ SkipOverLimit(j, i)
    \/ PersistBatch(j) \/ RefuseBatch(j) \/ WalkCancelled(j) \/ WalkEnds(j)
    \/ StartFinish(j) \/ Reconcile(j) \/ DeriveSizes(j) \/ RecordTimeline(j)
    \/ MarkRoot(j) \/ FinishStopped(j) \/ RootFinished(j) \/ DatabaseFails(j)

----------------------------------------------------------------------------
(***************************************************************************)
(* Other programs change the roots while they are scanned.                 *)
(***************************************************************************)
Edit(r, i, x) ==
    /\ edits < MaxEdits /\ edits' = edits + 1
    /\ x # world[r][i]
    /\ world' = [world EXCEPT ![r][i] = x]
    /\ worker' = [j \in Jobs |->
                    IF R(j) = r /\ W(j).pc \in BegunPcs
                    THEN [W(j) EXCEPT !.during[i] = @ \cup {x}]
                    ELSE W(j)]
    /\ UNCHANGED <<storeVars, catalogVars, caller>>

(***************************************************************************)
(* The application stops anywhere and starts again: the jobs and their     *)
(* threads are gone, the catalog is as the last statement left it.         *)
(***************************************************************************)
Restart ==
    /\ "restart" \in Faults
    /\ jobs' = [j \in Jobs |-> [state |-> "unused", roots |-> {}]]
    /\ tokens' = [j \in Jobs |-> "absent"]
    /\ worker' = [j \in Jobs |-> NoWorker]
    /\ caller' = [c \in Threads |-> NoCall]
    /\ UNCHANGED <<catalogVars, world, edits>>

UserCall ==
    \/ \E rs \in SUBSET Roots : ScanRequest(rs)
    \/ \E j \in Jobs : CancelRequest(j)
    \/ \E r \in Roots : EnableRoot(r) \/ DisableRequest(r)
                          \/ UnregisterRequest(r) \/ RefreshRequest(r)

CallStep(c) ==
    \/ \E j \in Jobs : Admitted(c, j)
    \/ AlreadyOwned(c)
    \/ c = "ui" /\ (CancelStored \/ DisableRoot \/ DeleteRoot \/ DeleteProject)

Next ==
    \/ UserCall
    \/ \E c \in Threads : CallStep(c)
    \/ \E j \in Jobs : WorkerStep(j) \/ Reports(j)
    \/ \E r \in Roots, i \in Items, x \in Stored : Edit(r, i, x)
    \/ Restart

Spec == Init /\ [][Next]_vars

\* The operating system runs every worker thread, and a mutation that holds
\* the inventory gate ends.
FairSpec == Spec /\ \A j \in Jobs : WF_vars(WorkerStep(j))

----------------------------------------------------------------------------
(***************************************************************************)
(* Properties.                                                             *)
(***************************************************************************)

\* The roots a worker may still write to: what it has left to scan.
Holds(j) == W(j).todo

\* Two worker threads never work on the same root: the delta of a scan is
\* computed against rows no other scan changes (admit_running_for_roots...).
OneWorkerPerRoot ==
    \A j, k \in Jobs : j # k => Holds(j) \cap Holds(k) = {}

\* A stop reaches the scan: a job shown as cancelling whose worker is alive
\* has its token set, so the worker meets it at its next check.
CancelReachesWorker ==
    \A j \in Jobs : Live(j) /\ jobs[j].state = "cancelling" => IsCancelled(j)

\* When a full scan of a root is marked complete, every row is what the item
\* has been at some moment of that scan, and every item without a row has
\* been gone at some moment of it.
CompletedCoversDisk ==
    \A j \in Jobs :
        W(j).pc = "finished" /\ W(j).full /\ rootRow[R(j)] # "absent" =>
            \A i \in Items : rows[R(j)][i] \in W(j).during[i]

\* "removes disappeared paths only after the walk completes": unless its root
\* is unregistered, an item loses its row only in a full scan during which it
\* was gone from the disk.
RemovedWasGone ==
    [][\A r \in Roots, i \in Items :
          rows[r][i] # Gone /\ rows'[r][i] = Gone /\ rootRow[r] # "absent" =>
              \E j \in Jobs : /\ R(j) = r /\ W(j).full
                              /\ Gone \in W(j).during[i]]_vars

\* A job that ends cancelled leaves the root it was scanning marked as
\* needing a scan, wherever the stop caught it.
CancelledNeedsScan ==
    [][\A j \in Jobs :
          Live(j) /\ jobs'[j].state = "cancelled" /\ W(j).pc \in BegunPcs =>
              ~scanned'[R(j)]]_vars

\* A job ends completed only when every root it was admitted for, and that is
\* still registered, is marked as scanned.
CompletedIsScanned ==
    [][\A j \in Jobs :
          jobs[j].state # "completed" /\ jobs'[j].state = "completed" =>
              \A r \in jobs[j].roots : scanned[r] \/ rootRow[r] = "absent"]_vars

\* Every worker ends: no job keeps its roots for ever because its thread does
\* not stop.
EveryScanEnds == \A j \in Jobs : Live(j) ~> ~Live(j)

\* After a complete foreground scan the derived sizes and the baseline of the
\* change timeline are those of the rows it leaves.
CompletedIsCurrent ==
    \A j \in Jobs :
        /\ W(j).pc = "finished" /\ W(j).full /\ ~W(j).background
        /\ rootRow[R(j)] = "enabled"
        => sizes[R(j)] = rows[R(j)] /\ tracked[R(j)].state = rows[R(j)]

=============================================================================
